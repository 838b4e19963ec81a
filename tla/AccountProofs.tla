--------------------------- MODULE AccountProofs ---------------------------
(***************************************************************************)
(* Theorems about Account, for every set of customers, addresses, tokens,  *)
(* instants and salts, and for every fold: the type invariant and the      *)
(* safety invariants, by one inductive invariant.                          *)
(***************************************************************************)
EXTENDS Account, TLAPS

ChangeTable == [ChangeId -> ChangeRow \cup {NoRow}]
ResetTable  == [ResetId -> ResetRow \cup {NoRow}]

-----------------------------------------------------------------------------
(* What superseding and spending do to a table.                            *)

\* Superseding keeps every row and what it says at issue, redeems nothing, and
\* leaves live exactly the live rows of the other customers.
SupersededChange(old, new, c) ==
  /\ new = NoRow <=> old = NoRow
  /\ old # NoRow =>
       /\ new.owner = old.owner
       /\ new.to = old.to
       /\ new.under = old.under
       /\ new.authorisation = old.authorisation
       /\ new.issuedAt = old.issuedAt
       /\ new.expiresAt = old.expiresAt
       /\ new.redeemedAt = old.redeemedAt
       /\ new.state = "redeemed" <=> old.state = "redeemed"
       /\ new.state = "issued" <=> (old.state = "issued" /\ old.owner # c)
       /\ old.state # "issued" => new = old
       /\ SameIssue(old, new)

\* Every row of a superseded table is one of those.
LEMMA SupersedeChanges ==
  ASSUME NEW table \in ChangeTable, NEW c \in Customer, NEW reason \in Reason
  PROVE  /\ Supersede(table, c, reason) \in ChangeTable
         /\ \A k \in ChangeId : SupersededChange(table[k], Supersede(table, c, reason)[k], c)
<1> DEFINE new == Supersede(table, c, reason)
<1>1. \A k \in ChangeId :
        new[k] = IF table[k] # NoRow /\ table[k].owner = c /\ table[k].state = "issued"
                 THEN [table[k] EXCEPT !.state = "cancelled", !.reason = reason]
                 ELSE table[k]
  BY DEF Supersede, Cancelled, Outstanding, ChangeTable
<1>2. \A k \in ChangeId : new[k] \in ChangeRow \cup {NoRow}
  BY <1>1 DEF ChangeTable, ChangeRow, TokenState
<1>3. new \in ChangeTable
  BY <1>2 DEF ChangeTable, Supersede, Cancelled
<1>4. ASSUME NEW k \in ChangeId
      PROVE  SupersededChange(table[k], new[k], c)
  <2>1. CASE table[k] = NoRow
    BY <2>1, <1>1 DEF SupersededChange
  <2>2. CASE table[k] # NoRow
    <3>1. table[k] \in ChangeRow
      BY <2>2 DEF ChangeTable
    <3>2. CASE table[k].owner = c /\ table[k].state = "issued"
      <4>1. new[k] = [table[k] EXCEPT !.state = "cancelled", !.reason = reason]
        BY <2>2, <3>2, <1>1
      <4>2. new[k] \in ChangeRow
        BY <4>1, <3>1 DEF ChangeRow, TokenState
      <4>3. SameIssue(table[k], new[k])
        BY <4>1, <3>1 DEF SameIssue, ChangeRow
      <4> QED
        BY <4>1, <4>2, <4>3, <3>1, <3>2, <2>2, NoRowIsApart DEF ChangeRow, SupersededChange
    <3>3. CASE ~(table[k].owner = c /\ table[k].state = "issued")
      <4>1. new[k] = table[k]
        BY <2>2, <3>3, <1>1
      <4>2. SameIssue(table[k], table[k])
        BY <3>1 DEF SameIssue, ChangeRow
      <4> QED
        BY <4>1, <4>2, <3>3, <2>2 DEF SupersededChange
    <3> QED
      BY <3>2, <3>3
  <2> QED
    BY <2>1, <2>2
<1> QED
  BY <1>3, <1>4

\* Superseding keeps every row and what it says at issue, redeems nothing, and
\* leaves live exactly the live rows of the other customers.
SupersededReset(old, new, c) ==
  /\ new = NoRow <=> old = NoRow
  /\ old # NoRow =>
       /\ new.owner = old.owner
       /\ new.deliveredTo = old.deliveredTo
       /\ new.issuedAt = old.issuedAt
       /\ new.expiresAt = old.expiresAt
       /\ new.redeemedAt = old.redeemedAt
       /\ new.state = "redeemed" <=> old.state = "redeemed"
       /\ new.state = "issued" <=> (old.state = "issued" /\ old.owner # c)
       /\ old.state # "issued" => new = old
       /\ SameIssue(old, new)

\* Every row of a superseded table is one of those.
LEMMA SupersedeResets ==
  ASSUME NEW table \in ResetTable, NEW c \in Customer, NEW reason \in Reason
  PROVE  /\ Supersede(table, c, reason) \in ResetTable
         /\ \A k \in ResetId : SupersededReset(table[k], Supersede(table, c, reason)[k], c)
<1> DEFINE new == Supersede(table, c, reason)
<1>1. \A k \in ResetId :
        new[k] = IF table[k] # NoRow /\ table[k].owner = c /\ table[k].state = "issued"
                 THEN [table[k] EXCEPT !.state = "cancelled", !.reason = reason]
                 ELSE table[k]
  BY DEF Supersede, Cancelled, Outstanding, ResetTable
<1>2. \A k \in ResetId : new[k] \in ResetRow \cup {NoRow}
  BY <1>1 DEF ResetTable, ResetRow, TokenState
<1>3. new \in ResetTable
  BY <1>2 DEF ResetTable, Supersede, Cancelled
<1>4. ASSUME NEW k \in ResetId
      PROVE  SupersededReset(table[k], new[k], c)
  <2>1. CASE table[k] = NoRow
    BY <2>1, <1>1 DEF SupersededReset
  <2>2. CASE table[k] # NoRow
    <3>1. table[k] \in ResetRow
      BY <2>2 DEF ResetTable
    <3>2. CASE table[k].owner = c /\ table[k].state = "issued"
      <4>1. new[k] = [table[k] EXCEPT !.state = "cancelled", !.reason = reason]
        BY <2>2, <3>2, <1>1
      <4>2. new[k] \in ResetRow
        BY <4>1, <3>1 DEF ResetRow, TokenState
      <4>3. SameIssue(table[k], new[k])
        BY <4>1, <3>1 DEF SameIssue, ResetRow
      <4> QED
        BY <4>1, <4>2, <4>3, <3>1, <3>2, <2>2, NoRowIsApart DEF ResetRow, SupersededReset
    <3>3. CASE ~(table[k].owner = c /\ table[k].state = "issued")
      <4>1. new[k] = table[k]
        BY <2>2, <3>3, <1>1
      <4>2. SameIssue(table[k], table[k])
        BY <3>1 DEF SameIssue, ResetRow
      <4> QED
        BY <4>1, <4>2, <3>3, <2>2 DEF SupersededReset
    <3> QED
      BY <3>2, <3>3
  <2> QED
    BY <2>1, <2>2
<1> QED
  BY <1>3, <1>4

\* Spending redeems one row at the instant given and touches no other.
LEMMA SpendChange ==
  ASSUME NEW table \in ChangeTable, NEW k \in ChangeId, table[k] # NoRow, NEW at \in Instant
  PROVE  LET new == Spend(table, k, at)[k]
         IN  /\ Spend(table, k, at) \in ChangeTable
             /\ \A j \in ChangeId : j # k => Spend(table, k, at)[j] = table[j]
             /\ new # NoRow
             /\ new.state = "redeemed"
             /\ new.redeemedAt = at
             /\ new.owner = table[k].owner
             /\ new.to = table[k].to
             /\ new.under = table[k].under
             /\ new.authorisation = table[k].authorisation
             /\ new.issuedAt = table[k].issuedAt
             /\ new.expiresAt = table[k].expiresAt
             /\ SameIssue(table[k], new)
<1> DEFINE new == Spend(table, k, at)
<1>1. table[k] \in ChangeRow
  BY DEF ChangeTable
<1>2. new = [table EXCEPT ![k] = [table[k] EXCEPT !.state = "redeemed", !.redeemedAt = at]]
  BY <1>1 DEF Spend, ChangeTable, ChangeRow
<1>3. new[k] = [table[k] EXCEPT !.state = "redeemed", !.redeemedAt = at]
  BY <1>2 DEF ChangeTable
<1>4. new[k] \in ChangeRow
  BY <1>1, <1>3 DEF ChangeRow, TokenState
<1>5. new \in ChangeTable
  BY <1>2, <1>3, <1>4 DEF ChangeTable
<1>6. \A j \in ChangeId : j # k => new[j] = table[j]
  BY <1>2 DEF ChangeTable
<1>7. SameIssue(table[k], new[k])
  BY <1>1, <1>3 DEF SameIssue, ChangeRow
<1> QED
  BY <1>1, <1>3, <1>4, <1>5, <1>6, <1>7, NoRowIsApart DEF ChangeRow

\* Spending redeems one row at the instant given and touches no other.
LEMMA SpendReset ==
  ASSUME NEW table \in ResetTable, NEW k \in ResetId, table[k] # NoRow, NEW at \in Instant
  PROVE  LET new == Spend(table, k, at)[k]
         IN  /\ Spend(table, k, at) \in ResetTable
             /\ \A j \in ResetId : j # k => Spend(table, k, at)[j] = table[j]
             /\ new # NoRow
             /\ new.state = "redeemed"
             /\ new.redeemedAt = at
             /\ new.owner = table[k].owner
             /\ new.deliveredTo = table[k].deliveredTo
             /\ new.issuedAt = table[k].issuedAt
             /\ new.expiresAt = table[k].expiresAt
             /\ SameIssue(table[k], new)
<1> DEFINE new == Spend(table, k, at)
<1>1. table[k] \in ResetRow
  BY DEF ResetTable
<1>2. new = [table EXCEPT ![k] = [table[k] EXCEPT !.state = "redeemed", !.redeemedAt = at]]
  BY <1>1 DEF Spend, ResetTable, ResetRow
<1>3. new[k] = [table[k] EXCEPT !.state = "redeemed", !.redeemedAt = at]
  BY <1>2 DEF ResetTable
<1>4. new[k] \in ResetRow
  BY <1>1, <1>3 DEF ResetRow, TokenState
<1>5. new \in ResetTable
  BY <1>2, <1>3, <1>4 DEF ResetTable
<1>6. \A j \in ResetId : j # k => new[j] = table[j]
  BY <1>2 DEF ResetTable
<1>7. SameIssue(table[k], new[k])
  BY <1>1, <1>3 DEF SameIssue, ResetRow
<1> QED
  BY <1>1, <1>3, <1>4, <1>5, <1>6, <1>7, NoRowIsApart DEF ResetRow

-----------------------------------------------------------------------------
(* The promises and the doors over tables as values: a record with the     *)
(* tables of Account for fields, so that what a door keeps is known of any *)
(* tables, committed or staged, and not only of the variables.             *)

Live(row) == row # NoRow /\ row.state = "issued"

Typed(st) ==
  /\ st.email \in [Customer -> Address \cup {NoAddress}]
  /\ st.reference \in [Customer -> Reference \cup {NoReference}]
  /\ st.credential \in [Customer -> Credential]
  /\ st.changes \in ChangeTable
  /\ st.resets \in ResetTable
  /\ st.history \in [Customer -> Seq(HistoryRow)]

\* Every token belongs to an account: what makes a new account start with none.
RowsHaveAccounts(st) ==
  /\ \A k \in ChangeId : st.changes[k] # NoRow => st.email[st.changes[k].owner] # NoAddress
  /\ \A r \in ResetId : st.resets[r] # NoRow => st.email[st.resets[r].owner] # NoAddress

AddressesApart(st) ==
  \A c, d \in Customer :
    st.email[c] # NoAddress /\ st.email[d] # NoAddress /\ Fold(st.email[c]) = Fold(st.email[d])
      => c = d

NewestAlone(st) ==
  /\ \A j, k \in ChangeId :
       Live(st.changes[j]) /\ Live(st.changes[k]) /\ st.changes[j].owner = st.changes[k].owner
         => j = k
  /\ \A q, r \in ResetId :
       Live(st.resets[q]) /\ Live(st.resets[r]) /\ st.resets[q].owner = st.resets[r].owner
         => q = r

ResetsAtTheAddress(st) ==
  \A r \in ResetId :
    Live(st.resets[r]) => st.resets[r].deliveredTo = st.email[st.resets[r].owner]

ChangesUnderTheCredential(st) ==
  \A k \in ChangeId :
    Live(st.changes[k]) => st.changes[k].under = st.credential[st.changes[k].owner].salt

ChangesMove(st) ==
  \A k \in ChangeId :
    Live(st.changes[k]) => Fold(st.changes[k].to) # Fold(st.email[st.changes[k].owner])

\* A history that is a chain of addresses up to the one given.
Chain(past, address) ==
  \A i \in 1..Len(past) :
    IF i = Len(past)
    THEN past[i].to = address
    ELSE /\ past[i].to = past[i + 1].from
         /\ past[i].changedAt <= past[i + 1].changedAt

HistoryChains(st) == \A c \in Customer : Chain(st.history[c], st.email[c])

\* A history row says what the change it came from says.
Agrees(entry, c, row) ==
  /\ row # NoRow
  /\ row.owner = c /\ row.state = "redeemed"
  /\ row.to = entry.to
  /\ row.authorisation = entry.authorisation
  /\ row.redeemedAt = entry.changedAt

\* Every row of a customer's history came from a change of its own.
Records(past, c, table) ==
  /\ \A i \in 1..Len(past) : Agrees(past[i], c, table[past[i].change])
  /\ \A i, j \in 1..Len(past) : past[i].change = past[j].change => i = j

Recorded(past) == {past[i].change : i \in 1..Len(past)}

RedeemedInHistory(st) ==
  /\ \A c \in Customer : Records(st.history[c], c, st.changes)
  /\ \A k \in ChangeId : st.changes[k] # NoRow /\ st.changes[k].state = "redeemed" =>
       k \in Recorded(st.history[st.changes[k].owner])

RedeemedInTime(st) ==
  /\ \A k \in ChangeId : RedeemedInside(st.changes[k])
  /\ \A r \in ResetId : RedeemedInside(st.resets[r])

TokensHaveCredentials(st) ==
  /\ \A r \in ResetId : st.resets[r] # NoRow => HasCredential(st.credential[st.resets[r].owner])
  /\ \A k \in ChangeId : st.changes[k] # NoRow /\ st.changes[k].authorisation = ByPassword =>
       HasCredential(st.credential[st.changes[k].owner])

Sound(st) ==
  /\ Typed(st)
  /\ RowsHaveAccounts(st)
  /\ AddressesApart(st)
  /\ NewestAlone(st)
  /\ ResetsAtTheAddress(st)
  /\ ChangesUnderTheCredential(st)
  /\ ChangesMove(st)
  /\ HistoryChains(st)
  /\ RedeemedInHistory(st)
  /\ RedeemedInTime(st)
  /\ TokensHaveCredentials(st)

\* What each door finds and leaves.
Created(st, new, c, a, r) ==
  /\ st.email[c] = NoAddress
  /\ Holders(st.email, a) = {}
  /\ new.email = [st.email EXCEPT ![c] = a]
  /\ new.reference = [st.reference EXCEPT ![c] = r]
  /\ new.credential = st.credential /\ new.changes = st.changes
  /\ new.resets = st.resets /\ new.history = st.history

PasswordIsSet(st, new, c, p, salt) ==
  /\ st.email[c] # NoAddress
  /\ new.changes = Supersede(st.changes, c, PasswordSet)
  /\ new.credential = [st.credential EXCEPT ![c] = HashPassword(p, salt)]
  /\ new.email = st.email /\ new.reference = st.reference
  /\ new.resets = st.resets /\ new.history = st.history

ChangeStarted(st, new, c, k, a, proof, at, window) ==
  /\ st.email[c] # NoAddress
  /\ st.changes[k] = NoRow
  /\ proof # ByCaller => Verified(st.credential[c], proof)
  /\ ~SameAddress(st.email[c], a)
  /\ new.changes = [Supersede(st.changes, c, Superseded) EXCEPT ![k] =
                      NewChange(c, a, IF proof = ByCaller THEN ByCaller ELSE ByPassword,
                                at, window, st.credential[c])]
  /\ new.email = st.email /\ new.reference = st.reference /\ new.credential = st.credential
  /\ new.resets = st.resets /\ new.history = st.history

ChangeConfirmed(st, new, k, at) ==
  LET row == st.changes[k]
      c   == row.owner
  IN  /\ Presentable(row, at)
      /\ ~BeforeLatestChange(st.history[c], at)
      /\ Holders(st.email, row.to) \subseteq {c}
      /\ new.changes = Spend(st.changes, k, at)
      /\ new.email = [st.email EXCEPT ![c] = row.to]
      /\ new.history =
           [st.history EXCEPT ![c] = Append(@, NewHistory(st.email[c], row, at, k))]
      /\ new.resets = Supersede(st.resets, c, EmailChanged)
      /\ new.reference = st.reference /\ new.credential = st.credential

ResetStarted(st, new, c, r, at, window) ==
  /\ st.email[c] # NoAddress
  /\ st.resets[r] = NoRow
  /\ HasCredential(st.credential[c])
  /\ new.resets = [Supersede(st.resets, c, Superseded) EXCEPT ![r] =
                     NewReset(c, st.email[c], at, window)]
  /\ new.email = st.email /\ new.reference = st.reference /\ new.credential = st.credential
  /\ new.changes = st.changes /\ new.history = st.history

ResetConsumed(st, new, r, p, salt, at) ==
  LET c == st.resets[r].owner
  IN  /\ Presentable(st.resets[r], at)
      /\ new.resets = Spend(st.resets, r, at)
      /\ new.changes = Supersede(st.changes, c, PasswordSet)
      /\ new.credential = [st.credential EXCEPT ![c] = HashPassword(p, salt)]
      /\ new.email = st.email /\ new.reference = st.reference /\ new.history = st.history

\* The rows of well-typed tables.
LEMMA RowsAreTyped ==
  ASSUME NEW st, Typed(st)
  PROVE  /\ st.changes \in ChangeTable
         /\ st.resets \in ResetTable
         /\ \A k \in ChangeId : st.changes[k] # NoRow => st.changes[k] \in ChangeRow
         /\ \A r \in ResetId : st.resets[r] # NoRow => st.resets[r] \in ResetRow
         /\ \A k \in ChangeId : st.changes[k] # NoRow => st.changes[k].owner \in Customer
         /\ \A r \in ResetId : st.resets[r] # NoRow => st.resets[r].owner \in Customer
BY DEF Typed, ChangeTable, ResetTable, ChangeRow, ResetRow

\* The history of well-typed tables.
LEMMA HistoryIsTyped ==
  ASSUME NEW st, Typed(st), NEW c \in Customer
  PROVE  st.history[c] \in Seq(HistoryRow)
BY DEF Typed

-----------------------------------------------------------------------------
(* One history and the changes it came from.                               *)

\* Who has no address has no history, and a history of nothing is a chain to anywhere.
LEMMA ChainToNowhere ==
  ASSUME NEW past \in Seq(HistoryRow), Chain(past, NoAddress), NEW a
  PROVE  Chain(past, a)
<1>1. ASSUME Len(past) # 0
      PROVE  FALSE
  <2>1. Len(past) \in 1..Len(past)
    BY <1>1
  <2>2. past[Len(past)].to = NoAddress
    BY <2>1 DEF Chain
  <2>3. past[Len(past)] \in HistoryRow
    BY <2>1
  <2> QED
    BY <2>2, <2>3, NullsAreApart DEF HistoryRow
<1> QED
  BY <1>1 DEF Chain

\* A row that starts where the chain ends, and not before its latest, lengthens it.
LEMMA ChainGrows ==
  ASSUME NEW past \in Seq(HistoryRow), NEW entry \in HistoryRow, Chain(past, entry.from),
         ~BeforeLatestChange(past, entry.changedAt)
  PROVE  Chain(Append(past, entry), entry.to)
<1> DEFINE n == Len(past)
           new == Append(past, entry)
<1>1. /\ n \in Nat /\ Len(new) = n + 1 /\ new[n + 1] = entry
      /\ \A i \in 1..n : new[i] = past[i] /\ past[i] \in HistoryRow
  OBVIOUS
<1>2. \A i \in 1..n : past[i].changedAt <= entry.changedAt
  <2>1. \A i \in 1..n : ~(entry.changedAt < past[i].changedAt)
    BY DEF BeforeLatestChange
  <2>2. entry.changedAt \in Int /\ \A i \in 1..n : past[i].changedAt \in Int
    BY <1>1, InstantsAreWhole DEF HistoryRow
  <2> QED
    BY <2>1, <2>2
<1>3. ASSUME NEW i \in 1..(n + 1)
      PROVE  IF i = n + 1
             THEN new[i].to = entry.to
             ELSE new[i].to = new[i + 1].from /\ new[i].changedAt <= new[i + 1].changedAt
  <2>1. CASE i = n + 1
    BY <2>1, <1>1
  <2>2. CASE i = n
    <3>1. past[n].to = entry.from
      BY <2>2 DEF Chain
    <3> QED
      BY <2>2, <3>1, <1>1, <1>2
  <2>3. CASE i # n /\ i # n + 1
    <3>1. i \in 1..n /\ i + 1 \in 1..n
      BY <2>3, <1>1
    <3>2. past[i].to = past[i + 1].from /\ past[i].changedAt <= past[i + 1].changedAt
      BY <2>3, <3>1 DEF Chain
    <3> QED
      BY <3>1, <3>2, <2>3, <1>1
  <2> QED
    BY <2>1, <2>2, <2>3
<1> HIDE DEF new
<1> QED
  BY <1>1, <1>3 DEF Chain

\* The table may change where nothing is redeemed.
LEMMA RecordsKept ==
  ASSUME NEW past \in Seq(HistoryRow), NEW c, NEW table, Records(past, c, table), NEW new,
         \A k \in ChangeId : table[k] # NoRow /\ table[k].state = "redeemed" => new[k] = table[k]
  PROVE  Records(past, c, new)
<1>1. \A i \in 1..Len(past) : past[i] \in HistoryRow
  OBVIOUS
<1>2. \A i \in 1..Len(past) : past[i].change \in ChangeId
  BY <1>1 DEF HistoryRow
<1> QED
  BY <1>2 DEF Records, Agrees

\* Two tables of changes that differ in one row at most.
DifferAt(table, new, k) == \A j \in ChangeId : j # k => new[j] = table[j]

\* A row that came from a change just redeemed lengthens the record.
LEMMA RecordsGrow ==
  ASSUME NEW past \in Seq(HistoryRow), NEW c, NEW table, Records(past, c, table), NEW new,
         NEW entry \in HistoryRow, table[entry.change].state # "redeemed",
         Agrees(entry, c, new[entry.change]),
         DifferAt(table, new, entry.change)
  PROVE  /\ Records(Append(past, entry), c, new)
         /\ Recorded(Append(past, entry)) = Recorded(past) \cup {entry.change}
<1> DEFINE n == Len(past)
           longer == Append(past, entry)
<1>1. /\ n \in Nat /\ Len(longer) = n + 1 /\ longer[n + 1] = entry
      /\ \A i \in 1..n : longer[i] = past[i] /\ past[i] \in HistoryRow
  OBVIOUS
<1>2. \A i \in 1..n : past[i].change \in ChangeId \ {entry.change}
  BY <1>1 DEF Records, Agrees, HistoryRow
<1>3. ASSUME NEW i \in 1..(n + 1)
      PROVE  Agrees(longer[i], c, new[longer[i].change])
  <2>1. CASE i = n + 1
    BY <2>1, <1>1
  <2>2. CASE i \in 1..n
    <3>1. Agrees(past[i], c, table[past[i].change])
      BY <2>2 DEF Records
    <3> QED
      BY <2>2, <3>1, <1>1, <1>2 DEF DifferAt
  <2> QED
    BY <2>1, <2>2, <1>1
<1>4. ASSUME NEW i \in 1..(n + 1), NEW j \in 1..(n + 1), longer[i].change = longer[j].change
      PROVE  i = j
  <2>1. CASE i \in 1..n /\ j \in 1..n
    BY <2>1, <1>1, <1>4 DEF Records
  <2>2. CASE i = n + 1 \/ j = n + 1
    BY <2>2, <1>1, <1>2, <1>4
  <2> QED
    BY <2>1, <2>2, <1>1
<1>5. Recorded(longer) = Recorded(past) \cup {entry.change}
  <2>1. 1..(n + 1) = 1..n \cup {n + 1}
    BY <1>1
  <2> HIDE DEF longer
  <2> QED
    BY <2>1, <1>1 DEF Recorded
<1>6. Records(longer, c, new)
  <2> HIDE DEF longer
  <2> QED
    BY <1>1, <1>3, <1>4 DEF Records
<1> QED
  BY <1>5, <1>6

-----------------------------------------------------------------------------
(* What each door keeps.                                                   *)

\* A new account takes an address nobody folds to and brings no token with it.
LEMMA CreatedKeepsPromises ==
  ASSUME NEW st, NEW new, Sound(st), NEW c \in Customer, NEW a \in Address,
         NEW r \in Reference \cup {NoReference},
         Created(st, new, c, a, r)
  PROVE  Sound(new)
<1> USE DEF Created
<1>1. Typed(new)
  BY DEF Sound, Typed
<1>2. \A d \in Customer : new.email[d] = IF d = c THEN a ELSE st.email[d]
  BY DEF Sound, Typed
<1>3. a # NoAddress
  BY NullsAreApart
<1>4. \A k \in ChangeId : st.changes[k] # NoRow => st.changes[k].owner \in Customer \ {c}
  BY RowsAreTyped DEF Sound, RowsHaveAccounts
<1>5. \A q \in ResetId : st.resets[q] # NoRow => st.resets[q].owner \in Customer \ {c}
  BY RowsAreTyped DEF Sound, RowsHaveAccounts
<1>6. RowsHaveAccounts(new)
  BY <1>2, <1>4, <1>5 DEF Sound, RowsHaveAccounts
<1>7. AddressesApart(new)
  <2>1. \A d \in Customer : st.email[d] # NoAddress => Fold(st.email[d]) # Fold(a)
    BY DEF Sound, Typed, Holders, SameAddress
  <2> QED
    BY <2>1, <1>2, <1>3 DEF Sound, AddressesApart
<1>8. NewestAlone(new)
  BY DEF Sound, NewestAlone, Live
<1>9. ResetsAtTheAddress(new)
  BY <1>2, <1>5 DEF Sound, ResetsAtTheAddress, Live
<1>10. ChangesUnderTheCredential(new)
  BY DEF Sound, ChangesUnderTheCredential, Live
<1>11. ChangesMove(new)
  BY <1>2, <1>4 DEF Sound, ChangesMove, Live
<1>12. HistoryChains(new)
  <2>1. ASSUME NEW d \in Customer
        PROVE  Chain(new.history[d], new.email[d])
    <3>1. st.history[d] \in Seq(HistoryRow) /\ Chain(st.history[d], st.email[d])
      BY HistoryIsTyped DEF Sound, HistoryChains
    <3> QED
      BY <3>1, <1>2, ChainToNowhere
  <2> QED
    BY <2>1 DEF HistoryChains
<1>13. RedeemedInHistory(new)
  BY DEF Sound, RedeemedInHistory
<1>14. RedeemedInTime(new) /\ TokensHaveCredentials(new)
  BY DEF Sound, RedeemedInTime, RedeemedInside, TokensHaveCredentials
<1> QED
  BY <1>1, <1>6, <1>7, <1>8, <1>9, <1>10, <1>11, <1>12, <1>13, <1>14 DEF Sound

\* A presentable token is a live one, inside its window.
LEMMA PresentableIsLive ==
  ASSUME NEW row, NEW at, Presentable(row, at), row.state \in TokenState
  PROVE  row # NoRow /\ row.state = "issued" /\ ~(at >= row.expiresAt) /\ ~(at < row.issuedAt)
BY DEF Presentable, Judgement, IsExpired, TokenState

(***************************************************************************)
(* A new credential, by either door: the changes of its customer are       *)
(* cancelled, so the rest need not know that the credential moved.         *)
(***************************************************************************)
\* What it leaves of the invariant on the side of the changes.
ChangesSideKept(st, new) ==
  /\ new.changes \in ChangeTable
  /\ new.credential \in [Customer -> Credential]
  /\ \A d \in Customer : HasCredential(st.credential[d]) => HasCredential(new.credential[d])
  /\ \A k \in ChangeId : new.changes[k] # NoRow => new.email[new.changes[k].owner] # NoAddress
  /\ \A j, k \in ChangeId :
       Live(new.changes[j]) /\ Live(new.changes[k]) /\ new.changes[j].owner = new.changes[k].owner
         => j = k
  /\ ChangesUnderTheCredential(new)
  /\ ChangesMove(new)
  /\ HistoryChains(new)
  /\ RedeemedInHistory(new)
  /\ \A k \in ChangeId : RedeemedInside(new.changes[k])
  /\ \A k \in ChangeId : new.changes[k] # NoRow /\ new.changes[k].authorisation = ByPassword =>
       HasCredential(new.credential[new.changes[k].owner])

\* A new credential leaves no live change of its customer, so the old salt goes
\* with the changes it authorised.
LEMMA NewCredentialKeepsTheChanges ==
  ASSUME NEW st, NEW new, Sound(st), NEW c \in Customer, NEW p \in Secret, NEW salt \in Salt,
         st.email[c] # NoAddress,
         new.changes = Supersede(st.changes, c, PasswordSet),
         new.credential = [st.credential EXCEPT ![c] = HashPassword(p, salt)],
         new.email = st.email, new.reference = st.reference, new.history = st.history
  PROVE  ChangesSideKept(st, new)
<1>1. Typed(st) /\ st.changes \in ChangeTable /\ PasswordSet \in Reason
  BY RowsAreTyped DEF Sound, Reason
<1>2. /\ new.changes \in ChangeTable
      /\ \A k \in ChangeId : SupersededChange(st.changes[k], new.changes[k], c)
  BY <1>1, SupersedeChanges
<1>3. new.credential \in [Customer -> Credential]
  BY <1>1 DEF Typed, HashPassword, Credential
<1>4. \A d \in Customer :
        new.credential[d] = IF d = c THEN HashPassword(p, salt) ELSE st.credential[d]
  BY <1>1 DEF Typed
<1>5. HasCredential(HashPassword(p, salt))
  BY NullsAreApart DEF HasCredential, HashPassword
<1>6. \A d \in Customer : HasCredential(st.credential[d]) => HasCredential(new.credential[d])
  BY <1>4, <1>5
<1>7. \A k \in ChangeId : st.changes[k] # NoRow => st.changes[k].owner \in Customer
  BY <1>1, RowsAreTyped
<1>8. \A k \in ChangeId : new.changes[k] # NoRow => new.email[new.changes[k].owner] # NoAddress
  BY <1>2 DEF Sound, RowsHaveAccounts, SupersededChange
<1>9. \A j, k \in ChangeId :
        Live(new.changes[j]) /\ Live(new.changes[k]) /\ new.changes[j].owner = new.changes[k].owner
          => j = k
  BY <1>2 DEF Sound, NewestAlone, Live, SupersededChange
<1>10. ChangesUnderTheCredential(new)
  BY <1>2, <1>4, <1>7 DEF Sound, ChangesUnderTheCredential, Live, SupersededChange
<1>11. ChangesMove(new)
  BY <1>2 DEF Sound, ChangesMove, Live, SupersededChange
<1>12. HistoryChains(new)
  BY DEF Sound, HistoryChains
<1>13. RedeemedInHistory(new)
  <2>1. \A k \in ChangeId : st.changes[k] # NoRow /\ st.changes[k].state = "redeemed" =>
          new.changes[k] = st.changes[k]
    BY <1>2 DEF SupersededChange
  <2>2. \A k \in ChangeId : new.changes[k] # NoRow /\ new.changes[k].state = "redeemed" =>
          /\ st.changes[k] # NoRow /\ st.changes[k].state = "redeemed"
          /\ new.changes[k].owner = st.changes[k].owner
    BY <1>2 DEF SupersededChange
  <2>3. \A d \in Customer : Records(new.history[d], d, new.changes)
    BY <2>1, <1>1, HistoryIsTyped, RecordsKept DEF Sound, RedeemedInHistory
  <2> QED
    BY <2>2, <2>3 DEF Sound, RedeemedInHistory
<1>14. \A k \in ChangeId : RedeemedInside(new.changes[k])
  BY <1>2 DEF Sound, RedeemedInTime, RedeemedInside, SupersededChange
<1>15. \A k \in ChangeId : new.changes[k] # NoRow /\ new.changes[k].authorisation = ByPassword =>
         HasCredential(new.credential[new.changes[k].owner])
  BY <1>2, <1>6, <1>7 DEF Sound, TokensHaveCredentials, SupersededChange
<1> QED
  BY <1>2, <1>3, <1>6, <1>8, <1>9, <1>10, <1>11, <1>12, <1>13, <1>14, <1>15 DEF ChangesSideKept

\* A new password disturbs the credential and the changes, and closes the latter.
LEMMA PasswordIsSetKeepsPromises ==
  ASSUME NEW st, NEW new, Sound(st), NEW c \in Customer, NEW p \in Secret, NEW salt \in Salt,
         PasswordIsSet(st, new, c, p, salt)
  PROVE  Sound(new)
<1>1. ChangesSideKept(st, new)
  BY NewCredentialKeepsTheChanges DEF PasswordIsSet
<1> USE DEF PasswordIsSet, ChangesSideKept
<1>2. Typed(new)
  BY <1>1 DEF Sound, Typed, ChangeTable
<1>3. \A r \in ResetId : st.resets[r] # NoRow => st.resets[r].owner \in Customer
  BY RowsAreTyped DEF Sound
<1>4. RowsHaveAccounts(new)
  BY <1>1 DEF Sound, RowsHaveAccounts
<1>5. AddressesApart(new)
  BY DEF Sound, AddressesApart
<1>6. NewestAlone(new)
  BY <1>1 DEF Sound, NewestAlone, Live
<1>7. ResetsAtTheAddress(new)
  BY DEF Sound, ResetsAtTheAddress, Live
<1>8. RedeemedInTime(new)
  BY <1>1 DEF Sound, RedeemedInTime
<1>9. TokensHaveCredentials(new)
  BY <1>1, <1>3 DEF Sound, TokensHaveCredentials
<1> QED
  BY <1>1, <1>2, <1>4, <1>5, <1>6, <1>7, <1>8, <1>9 DEF Sound

\* A new change is the only live one of its customer, under the credential in
\* force and away from the address in effect.
LEMMA ChangeStartedKeepsPromises ==
  ASSUME NEW st, NEW new, Sound(st), NEW c \in Customer, NEW k \in ChangeId, NEW a \in Address,
         NEW proof \in Secret \cup {ByCaller}, NEW at \in Instant, NEW window \in Window,
         ChangeStarted(st, new, c, k, a, proof, at, window)
  PROVE  Sound(new)
<1> DEFINE authorisation == IF proof = ByCaller THEN ByCaller ELSE ByPassword
           row == NewChange(c, a, authorisation, at, window, st.credential[c])
           rest == Supersede(st.changes, c, Superseded)
<1>1. Typed(st) /\ st.changes \in ChangeTable /\ Superseded \in Reason
  BY RowsAreTyped DEF Sound, Reason
<1>2. rest \in ChangeTable /\ \A j \in ChangeId : SupersededChange(st.changes[j], rest[j], c)
  BY <1>1, SupersedeChanges
<1>3. new.changes = [rest EXCEPT ![k] = row]
  BY DEF ChangeStarted
<1>4. row \in ChangeRow
  <2>1. at \in Int /\ window \in Int
    BY InstantsAreWhole
  <2>2. st.credential[c].salt \in Salt \cup {NoSalt}
    BY <1>1 DEF Typed, Credential
  <2> QED
    BY <2>1, <2>2 DEF NewChange, ChangeRow, Expiry, TokenState, Reason
<1>5. /\ row # NoRow /\ row.owner = c /\ row.to = a /\ row.state = "issued"
      /\ row.under = st.credential[c].salt /\ row.authorisation = authorisation
  BY <1>4, NoRowIsApart DEF NewChange
<1>6. new.changes \in ChangeTable
  BY <1>2, <1>3, <1>4 DEF ChangeTable
<1>7. new.changes[k] = row /\ \A j \in ChangeId : j # k => new.changes[j] = rest[j]
  BY <1>2, <1>3 DEF ChangeTable
<1>8. /\ st.changes[k] = NoRow /\ new.email = st.email /\ new.reference = st.reference
      /\ new.credential = st.credential /\ new.resets = st.resets
      /\ new.history = st.history
  BY DEF ChangeStarted
<1>9. \A j \in ChangeId : st.changes[j] # NoRow => st.changes[j].owner \in Customer
  BY <1>1, RowsAreTyped
<1>10. Typed(new)
  BY <1>1, <1>6, <1>8 DEF Typed, ChangeTable
<1>11. RowsHaveAccounts(new)
  BY <1>2, <1>5, <1>7, <1>8 DEF Sound, RowsHaveAccounts, SupersededChange, ChangeStarted
<1>12. AddressesApart(new)
  BY <1>8 DEF Sound, AddressesApart
<1>13. NewestAlone(new)
  <2>1. \A j \in ChangeId :
          j # k /\ Live(new.changes[j]) => Live(st.changes[j]) /\ st.changes[j].owner # c
                                                      /\ new.changes[j].owner = st.changes[j].owner
    BY <1>2, <1>7 DEF Live, SupersededChange
  <2> QED
    BY <2>1, <1>5, <1>7, <1>8 DEF Sound, NewestAlone, Live
<1>14. ResetsAtTheAddress(new)
  BY <1>8 DEF Sound, ResetsAtTheAddress, Live
<1>15. ChangesUnderTheCredential(new)
  BY <1>2, <1>5, <1>7, <1>8 DEF Sound, ChangesUnderTheCredential, Live,
     SupersededChange
<1>16. ChangesMove(new)
  <2>1. Fold(a) # Fold(st.email[c])
    BY DEF ChangeStarted, SameAddress
  <2> QED
    BY <2>1, <1>2, <1>5, <1>7, <1>8 DEF Sound, ChangesMove, Live,
       SupersededChange
<1>17. HistoryChains(new)
  BY <1>8 DEF Sound, HistoryChains
<1>18. RedeemedInHistory(new)
  <2>1. \A j \in ChangeId : st.changes[j] # NoRow /\ st.changes[j].state = "redeemed" =>
          new.changes[j] = st.changes[j]
    BY <1>2, <1>7, <1>8 DEF SupersededChange
  <2>2. \A j \in ChangeId : new.changes[j] # NoRow /\ new.changes[j].state = "redeemed" =>
          /\ st.changes[j] # NoRow /\ st.changes[j].state = "redeemed"
          /\ new.changes[j].owner = st.changes[j].owner
    BY <1>2, <1>5, <1>7 DEF SupersededChange
  <2>3. \A d \in Customer : Records(new.history[d], d, new.changes)
    BY <2>1, <1>1, <1>8, HistoryIsTyped, RecordsKept DEF Sound, RedeemedInHistory
  <2> QED
    BY <2>2, <2>3, <1>8 DEF Sound, RedeemedInHistory
<1>19. RedeemedInTime(new)
  BY <1>2, <1>5, <1>7, <1>8 DEF Sound, RedeemedInTime, RedeemedInside, SupersededChange
<1>20. TokensHaveCredentials(new)
  <2>1. authorisation = ByPassword => HasCredential(st.credential[c])
    BY DEF ChangeStarted, Verified, ByPassword, ByCaller
  <2> QED
    BY <2>1, <1>2, <1>5, <1>7, <1>8, <1>9 DEF Sound, TokensHaveCredentials, SupersededChange
<1> QED
  BY <1>10, <1>11, <1>12, <1>13, <1>14, <1>15, <1>16, <1>17, <1>18, <1>19, <1>20 DEF Sound

\* A new reset is the only live one of its customer and goes to the current address.
LEMMA ResetStartedKeepsPromises ==
  ASSUME NEW st, NEW new, Sound(st), NEW c \in Customer, NEW r \in ResetId,
         NEW at \in Instant, NEW window \in Window,
         ResetStarted(st, new, c, r, at, window)
  PROVE  Sound(new)
<1> DEFINE row == NewReset(c, st.email[c], at, window)
           rest == Supersede(st.resets, c, Superseded)
<1>1. Typed(st) /\ st.resets \in ResetTable /\ Superseded \in Reason
  BY RowsAreTyped DEF Sound, Reason
<1>2. rest \in ResetTable /\ \A q \in ResetId : SupersededReset(st.resets[q], rest[q], c)
  BY <1>1, SupersedeResets
<1>3. new.resets = [rest EXCEPT ![r] = row]
  BY DEF ResetStarted
<1>4. row \in ResetRow
  <2>1. at \in Int /\ window \in Int
    BY InstantsAreWhole
  <2>2. st.email[c] \in Address
    BY <1>1 DEF Typed, ResetStarted
  <2> QED
    BY <2>1, <2>2 DEF NewReset, ResetRow, Expiry, TokenState, Reason
<1>5. row # NoRow /\ row.owner = c /\ row.state = "issued" /\ row.deliveredTo = st.email[c]
  BY <1>4, NoRowIsApart DEF NewReset
<1>6. new.resets \in ResetTable
  BY <1>2, <1>3, <1>4 DEF ResetTable
<1>7. new.resets[r] = row /\ \A q \in ResetId : q # r => new.resets[q] = rest[q]
  BY <1>2, <1>3 DEF ResetTable
<1>8. /\ new.email = st.email /\ new.reference = st.reference
      /\ new.credential = st.credential /\ new.changes = st.changes
      /\ new.history = st.history
  BY DEF ResetStarted
<1>9. \A q \in ResetId : st.resets[q] # NoRow => st.resets[q].owner \in Customer
  BY <1>1, RowsAreTyped
<1>10. Typed(new)
  BY <1>1, <1>6, <1>8 DEF Typed, ResetTable
<1>11. RowsHaveAccounts(new)
  BY <1>2, <1>5, <1>7, <1>8 DEF Sound, RowsHaveAccounts, SupersededReset, ResetStarted
<1>12. NewestAlone(new)
  <2>1. \A q \in ResetId :
          q # r /\ Live(new.resets[q]) => Live(st.resets[q]) /\ st.resets[q].owner # c
                                                    /\ new.resets[q].owner = st.resets[q].owner
    BY <1>2, <1>7 DEF Live, SupersededReset
  <2> QED
    BY <2>1, <1>5, <1>7, <1>8 DEF Sound, NewestAlone, Live
<1>13. ResetsAtTheAddress(new)
  BY <1>2, <1>5, <1>7, <1>8 DEF Sound, ResetsAtTheAddress, Live, SupersededReset
<1>14. RedeemedInTime(new)
  BY <1>2, <1>5, <1>7, <1>8 DEF Sound, RedeemedInTime, RedeemedInside, SupersededReset
<1>15. TokensHaveCredentials(new)
  <2>1. HasCredential(st.credential[c])
    BY DEF ResetStarted
  <2> QED
    BY <2>1, <1>2, <1>5, <1>7, <1>8, <1>9 DEF Sound, TokensHaveCredentials, SupersededReset
<1>16. AddressesApart(new) /\ HistoryChains(new)
  BY <1>8 DEF Sound, AddressesApart, HistoryChains
<1>17. ChangesUnderTheCredential(new) /\ ChangesMove(new)
  BY <1>8 DEF Sound, ChangesUnderTheCredential, ChangesMove, Live
<1>18. RedeemedInHistory(new)
  BY <1>8 DEF Sound, RedeemedInHistory
<1> QED
  BY <1>10, <1>11, <1>12, <1>13, <1>14, <1>15, <1>16, <1>17, <1>18 DEF Sound

\* A consumed reset is spent in time, and its new password acts as set_password does.
LEMMA ResetConsumedKeepsPromises ==
  ASSUME NEW st, NEW new, Sound(st), NEW r \in ResetId, NEW p \in Secret, NEW salt \in Salt,
         NEW at \in Instant,
         ResetConsumed(st, new, r, p, salt, at)
  PROVE  Sound(new)
<1> DEFINE c == st.resets[r].owner
<1>1. Typed(st) /\ st.resets \in ResetTable
  BY RowsAreTyped DEF Sound
<1>2. st.resets[r] # NoRow /\ st.resets[r] \in ResetRow
  BY <1>1, RowsAreTyped DEF ResetConsumed, Presentable
<1>3. /\ c \in Customer /\ st.resets[r].state = "issued"
      /\ st.resets[r].issuedAt <= at /\ at < st.resets[r].expiresAt
  <2>1. /\ st.resets[r].state = "issued" /\ ~(at >= st.resets[r].expiresAt)
        /\ ~(at < st.resets[r].issuedAt)
    BY <1>2, PresentableIsLive DEF ResetConsumed, ResetRow
  <2>2. at \in Int /\ st.resets[r].issuedAt \in Int /\ st.resets[r].expiresAt \in Int
    BY <1>2, InstantsAreWhole DEF ResetRow
  <2>3. c \in Customer
    BY <1>2 DEF ResetRow
  <2> QED
    BY <2>1, <2>2, <2>3
<1>4. st.email[c] # NoAddress
  BY <1>2 DEF Sound, RowsHaveAccounts
<1>5. new.email = st.email /\ new.reference = st.reference /\ new.history = st.history
  BY DEF ResetConsumed
<1>6. ChangesSideKept(st, new)
  BY <1>3, <1>4, <1>5, NewCredentialKeepsTheChanges DEF ResetConsumed
<1>7. /\ new.resets \in ResetTable
      /\ \A q \in ResetId : q # r => new.resets[q] = st.resets[q]
      /\ new.resets[r] # NoRow /\ new.resets[r].state = "redeemed" /\ new.resets[r].redeemedAt = at
      /\ new.resets[r].owner = c /\ new.resets[r].deliveredTo = st.resets[r].deliveredTo
      /\ new.resets[r].issuedAt = st.resets[r].issuedAt
      /\ new.resets[r].expiresAt = st.resets[r].expiresAt
  BY <1>1, <1>2, SpendReset DEF ResetConsumed
<1>8. Typed(new)
  BY <1>1, <1>5, <1>6, <1>7 DEF Typed, ResetTable, ChangeTable, ChangesSideKept
<1>9. \A q \in ResetId : st.resets[q] # NoRow => st.resets[q].owner \in Customer
  BY <1>1, RowsAreTyped
<1>10. RowsHaveAccounts(new)
  BY <1>2, <1>5, <1>6, <1>7 DEF Sound, RowsHaveAccounts, ChangesSideKept
<1>11. AddressesApart(new)
  BY <1>5 DEF Sound, AddressesApart
<1>12. NewestAlone(new)
  BY <1>6, <1>7 DEF Sound, NewestAlone, Live, ChangesSideKept
<1>13. ResetsAtTheAddress(new)
  BY <1>5, <1>7 DEF Sound, ResetsAtTheAddress, Live
<1>14. RedeemedInTime(new)
  BY <1>3, <1>6, <1>7 DEF Sound, RedeemedInTime, RedeemedInside, ChangesSideKept
<1>15. TokensHaveCredentials(new)
  BY <1>2, <1>6, <1>7, <1>9 DEF Sound, TokensHaveCredentials, ChangesSideKept
<1> QED
  BY <1>6, <1>8, <1>10, <1>11, <1>12, <1>13, <1>14, <1>15 DEF Sound, ChangesSideKept

\* A confirmed change: the address moves with its history row, the token is
\* spent, and the resets that were delivered to the old address are gone.
LEMMA ChangeConfirmedKeepsPromises ==
  ASSUME NEW st, NEW new, Sound(st), NEW k \in ChangeId, NEW at \in Instant,
         ChangeConfirmed(st, new, k, at)
  PROVE  Sound(new)
<1> DEFINE c == st.changes[k].owner
           entry == NewHistory(st.email[c], st.changes[k], at, k)
<1>1. Typed(st) /\ st.changes \in ChangeTable /\ st.resets \in ResetTable /\ EmailChanged \in Reason
  BY RowsAreTyped DEF Sound, Reason
<1>2. st.changes[k] # NoRow /\ st.changes[k] \in ChangeRow
  BY <1>1, RowsAreTyped DEF ChangeConfirmed, Presentable
<1>3. /\ c \in Customer /\ st.changes[k].state = "issued"
      /\ st.changes[k].issuedAt <= at /\ at < st.changes[k].expiresAt
  <2>1. /\ st.changes[k].state = "issued" /\ ~(at >= st.changes[k].expiresAt)
        /\ ~(at < st.changes[k].issuedAt)
    BY <1>2, PresentableIsLive DEF ChangeConfirmed, ChangeRow
  <2> QED
    BY <2>1, <1>2, InstantsAreWhole DEF ChangeRow
<1>4. st.email[c] \in Address /\ st.changes[k].to \in Address
  BY <1>1, <1>2, <1>3 DEF Sound, RowsHaveAccounts, Typed, ChangeRow
<1>5. new.reference = st.reference /\ new.credential = st.credential
  BY DEF ChangeConfirmed
<1>6. /\ new.changes \in ChangeTable
      /\ \A j \in ChangeId : j # k => new.changes[j] = st.changes[j]
      /\ new.changes[k] # NoRow /\ new.changes[k].state = "redeemed"
      /\ new.changes[k].redeemedAt = at
      /\ new.changes[k].owner = c /\ new.changes[k].to = st.changes[k].to
      /\ new.changes[k].under = st.changes[k].under
      /\ new.changes[k].authorisation = st.changes[k].authorisation
      /\ new.changes[k].issuedAt = st.changes[k].issuedAt
      /\ new.changes[k].expiresAt = st.changes[k].expiresAt
  BY <1>1, <1>2, SpendChange DEF ChangeConfirmed
<1>7. /\ new.resets \in ResetTable
      /\ \A r \in ResetId : SupersededReset(st.resets[r], new.resets[r], c)
  BY <1>1, <1>3, SupersedeResets DEF ChangeConfirmed
<1>8. \A d \in Customer : new.email[d] = IF d = c THEN st.changes[k].to ELSE st.email[d]
  BY <1>1 DEF ChangeConfirmed, Typed
<1>9. \A d \in Customer : new.email[d] # NoAddress <=> st.email[d] # NoAddress
  BY <1>4, <1>8, NullsAreApart
<1>10. entry \in HistoryRow
  BY <1>2, <1>4 DEF NewHistory, HistoryRow, ChangeRow
<1>11. /\ st.history[c] \in Seq(HistoryRow)
       /\ new.history[c] = Append(st.history[c], entry)
       /\ \A d \in Customer : d # c => new.history[d] = st.history[d]
  BY <1>1, <1>3 DEF ChangeConfirmed, Typed
<1>13. \A j \in ChangeId : st.changes[j] # NoRow => st.changes[j].owner \in Customer
  BY <1>1, RowsAreTyped
<1>14. \A r \in ResetId : st.resets[r] # NoRow => st.resets[r].owner \in Customer
  BY <1>1, RowsAreTyped
<1>15. Typed(new)
  <2>1. new.email \in [Customer -> Address \cup {NoAddress}]
    BY <1>1, <1>4 DEF ChangeConfirmed, Typed
  <2>2. new.history \in [Customer -> Seq(HistoryRow)]
    <3>1. Append(st.history[c], entry) \in Seq(HistoryRow)
      <4> HIDE DEF entry, c
      <4> QED
        BY <1>10, <1>11
    <3> QED
      BY <1>1, <1>11, <3>1 DEF ChangeConfirmed, Typed
  <2> QED
    BY <2>1, <2>2, <1>1, <1>5, <1>6, <1>7 DEF Typed, ChangeTable, ResetTable
<1>16. RowsHaveAccounts(new)
  BY <1>2, <1>6, <1>7, <1>9, <1>13, <1>14 DEF Sound, RowsHaveAccounts, SupersededReset
<1>17. AddressesApart(new)
  <2>1. \A d \in Customer :
          st.email[d] # NoAddress /\ Fold(st.email[d]) = Fold(st.changes[k].to) => d = c
    BY <1>1 DEF ChangeConfirmed, Holders, SameAddress, Typed
  <2>2. \A d, e \in Customer :
          st.email[d] # NoAddress /\ st.email[e] # NoAddress
            /\ Fold(st.email[d]) = Fold(st.email[e]) => d = e
    BY DEF Sound, AddressesApart
  <2> QED
    BY <2>1, <2>2, <1>8, <1>9 DEF AddressesApart
<1>18. \A j \in ChangeId :
         Live(new.changes[j]) => Live(st.changes[j]) /\ new.changes[j] = st.changes[j]
                                             /\ st.changes[j].owner # c
  BY <1>2, <1>3, <1>6 DEF Sound, NewestAlone, Live
<1>19. \A r \in ResetId :
         Live(new.resets[r]) => Live(st.resets[r]) /\ new.resets[r].owner = st.resets[r].owner
                                           /\ new.resets[r].deliveredTo = st.resets[r].deliveredTo
                                           /\ st.resets[r].owner # c
  BY <1>7 DEF Live, SupersededReset
<1>20. NewestAlone(new)
  BY <1>18, <1>19 DEF Sound, NewestAlone
<1>21. ResetsAtTheAddress(new)
  BY <1>8, <1>14, <1>19 DEF Sound, ResetsAtTheAddress, Live
<1>22. ChangesUnderTheCredential(new)
  BY <1>5, <1>18 DEF Sound, ChangesUnderTheCredential
<1>23. ChangesMove(new)
  BY <1>8, <1>13, <1>18 DEF Sound, ChangesMove, Live
<1>24. HistoryChains(new)
  <2>1. entry.from = st.email[c] /\ entry.to = st.changes[k].to /\ entry.changedAt = at
    BY DEF NewHistory
  <2>2. Chain(st.history[c], entry.from) /\ ~BeforeLatestChange(st.history[c], entry.changedAt)
    BY <2>1, <1>3 DEF Sound, HistoryChains, ChangeConfirmed
  <2>3. Chain(new.history[c], new.email[c])
    <3> HIDE DEF entry, c
    <3> QED
      BY <2>1, <2>2, <1>3, <1>8, <1>10, <1>11, ChainGrows
  <2>4. \A d \in Customer : d # c => Chain(new.history[d], new.email[d])
    BY <1>8, <1>11 DEF Sound, HistoryChains
  <2> QED
    BY <2>3, <2>4 DEF HistoryChains
<1>25. RedeemedInHistory(new)
  <2>1. entry.change = k /\ Agrees(entry, c, new.changes[k])
    BY <1>6 DEF NewHistory, Agrees
  <2>2. Records(st.history[c], c, st.changes) /\ st.changes[k].state # "redeemed"
    BY <1>3 DEF Sound, RedeemedInHistory
  <2>3. /\ Records(new.history[c], c, new.changes)
        /\ Recorded(new.history[c]) = Recorded(st.history[c]) \cup {k}
    <3>1. /\ DifferAt(st.changes, new.changes, entry.change)
          /\ st.changes[entry.change].state # "redeemed"
          /\ Agrees(entry, c, new.changes[entry.change])
      BY <2>1, <2>2, <1>6 DEF DifferAt
    <3> HIDE DEF entry, c
    <3>2. /\ Records(Append(st.history[c], entry), c, new.changes)
          /\ Recorded(Append(st.history[c], entry)) = Recorded(st.history[c]) \cup {entry.change}
      <4>1. st.history[c] \in Seq(HistoryRow)
        BY <1>11
      <4> QED
        BY <2>2, <3>1, <4>1, <1>10, RecordsGrow, SMTT(30)
    <3> QED
      BY <2>1, <3>2, <1>11
  <2>4. ASSUME NEW d \in Customer, d # c
        PROVE  Records(new.history[d], d, new.changes)
    <3>1. Records(st.history[d], d, st.changes) /\ st.history[d] \in Seq(HistoryRow)
      BY <1>1, HistoryIsTyped DEF Sound, RedeemedInHistory
    <3>2. \A j \in ChangeId : st.changes[j] # NoRow /\ st.changes[j].state = "redeemed" =>
            new.changes[j] = st.changes[j]
      BY <1>3, <1>6
    <3> QED
      BY <2>4, <3>1, <3>2, <1>11, RecordsKept
  <2>5. ASSUME NEW j \in ChangeId, new.changes[j] # NoRow, new.changes[j].state = "redeemed"
        PROVE  j \in Recorded(new.history[new.changes[j].owner])
    <3>1. CASE j = k
      BY <3>1, <2>3, <1>6
    <3>2. CASE j # k
      <4>1. /\ new.changes[j] = st.changes[j] /\ st.changes[j].owner \in Customer
            /\ j \in Recorded(st.history[st.changes[j].owner])
        BY <3>2, <2>5, <1>6, <1>13 DEF Sound, RedeemedInHistory
      <4> QED
        BY <4>1, <2>3, <1>11
    <3> QED
      BY <3>1, <3>2
  <2> QED
    BY <2>3, <2>4, <2>5 DEF RedeemedInHistory
<1>26. RedeemedInTime(new)
  BY <1>3, <1>6, <1>7 DEF Sound, RedeemedInTime, RedeemedInside, SupersededReset
<1>27. TokensHaveCredentials(new)
  BY <1>2, <1>5, <1>6, <1>7 DEF Sound, TokensHaveCredentials, SupersededReset
<1> QED
  BY <1>15, <1>16, <1>17, <1>20, <1>21, <1>22, <1>23, <1>24, <1>25, <1>26, <1>27 DEF Sound

-----------------------------------------------------------------------------
(* The inductive invariant: the promises, of the variables.                *)

\* Every token belongs to an account.
RowsBelongToAccounts ==
  /\ \A k \in ChangeId : changes[k] # NoRow => Exists(changes[k].owner)
  /\ \A r \in ResetId : resets[r] # NoRow => Exists(resets[r].owner)

IInv ==
  /\ TypeOK
  /\ RowsBelongToAccounts
  /\ OneAccountPerAddress
  /\ OneLiveTokenOfEachKind
  /\ LiveResetGoesToCurrentAddress
  /\ LiveChangeIsUnderCurrentCredential
  /\ LiveChangeMovesTheAddress
  /\ HistoryIsAChain
  /\ RedeemedChangesAreTheHistory
  /\ RedeemedInsideTheWindow
  /\ TokensNeedTheirCredential

\* The tables the variables hold.
Now ==
  [email |-> email, reference |-> reference, credential |-> credential,
   changes |-> changes, resets |-> resets, history |-> history]

\* The promises of Account are those, of the tables the variables hold.
LEMMA PromisesOfNow == IInv <=> Sound(Now) /\ accepted \subseteq Customer
<1>1. TypeOK <=> Typed(Now) /\ accepted \subseteq Customer
  BY DEF TypeOK, Typed, Now, ChangeTable, ResetTable
<1>2. /\ RowsBelongToAccounts <=> RowsHaveAccounts(Now)
      /\ OneAccountPerAddress <=> AddressesApart(Now)
  BY DEF RowsBelongToAccounts, RowsHaveAccounts, Exists, OneAccountPerAddress, AddressesApart, Now
<1>3. /\ OneLiveTokenOfEachKind <=> NewestAlone(Now)
      /\ LiveResetGoesToCurrentAddress <=> ResetsAtTheAddress(Now)
      /\ LiveChangeIsUnderCurrentCredential <=> ChangesUnderTheCredential(Now)
      /\ LiveChangeMovesTheAddress <=> ChangesMove(Now)
  BY DEF OneLiveTokenOfEachKind, NewestAlone, LiveResetGoesToCurrentAddress, ResetsAtTheAddress,
     LiveChangeIsUnderCurrentCredential, ChangesUnderTheCredential, LiveChangeMovesTheAddress,
     ChangesMove, LiveChange, LiveReset, Live, Now
<1>4. HistoryIsAChain <=> HistoryChains(Now)
  BY DEF HistoryIsAChain, HistoryChains, Chain, Now
<1>5. RedeemedChangesAreTheHistory <=> RedeemedInHistory(Now)
  BY DEF RedeemedChangesAreTheHistory, RedeemedInHistory, Records, Agrees, Recorded, Now
<1>6. /\ RedeemedInsideTheWindow <=> RedeemedInTime(Now)
      /\ TokensNeedTheirCredential <=> TokensHaveCredentials(Now)
  BY DEF RedeemedInsideTheWindow, RedeemedInTime, TokensNeedTheirCredential,
     TokensHaveCredentials, Now
<1> QED
  BY <1>1, <1>2, <1>3, <1>4, <1>5, <1>6 DEF IInv, Sound

\* Before and after a step.
LEMMA PromisesAround ==
  /\ IInv <=> Sound(Now) /\ accepted \subseteq Customer
  /\ IInv' <=> Sound(Now') /\ accepted' \subseteq Customer
<1>1. (IInv <=> Sound(Now) /\ accepted \subseteq Customer)'
  BY PromisesOfNow, PTL
<1> QED
  BY <1>1, PromisesOfNow

\* The rows of well-typed variables.
LEMMA RowTypes ==
  ASSUME TypeOK
  PROVE  /\ changes \in ChangeTable
         /\ resets \in ResetTable
         /\ \A k \in ChangeId : changes[k] # NoRow => changes[k] \in ChangeRow
         /\ \A r \in ResetId : resets[r] # NoRow => resets[r] \in ResetRow
         /\ \A k \in ChangeId : changes[k] # NoRow => changes[k].owner \in Customer
         /\ \A r \in ResetId : resets[r] # NoRow => resets[r].owner \in Customer
BY DEF TypeOK, ChangeTable, ResetTable, ChangeRow, ResetRow

\* The empty store satisfies the invariant.
LEMMA InitIInv == Init => IInv
<1> SUFFICES ASSUME Init PROVE IInv
  OBVIOUS
<1> USE DEF Init
<1>1. TypeOK
  BY DEF TypeOK, Credential, NoCredential
<1>2. RowsBelongToAccounts /\ OneLiveTokenOfEachKind /\ LiveResetGoesToCurrentAddress
  BY DEF RowsBelongToAccounts, OneLiveTokenOfEachKind, LiveResetGoesToCurrentAddress, LiveChange,
         LiveReset
<1>3. LiveChangeIsUnderCurrentCredential /\ LiveChangeMovesTheAddress
  BY DEF LiveChangeIsUnderCurrentCredential, LiveChangeMovesTheAddress, LiveChange
<1>4. OneAccountPerAddress
  BY DEF OneAccountPerAddress, Exists
<1>5. HistoryIsAChain /\ RedeemedChangesAreTheHistory
  BY DEF HistoryIsAChain, RedeemedChangesAreTheHistory
<1>6. RedeemedInsideTheWindow /\ TokensNeedTheirCredential
  BY DEF RedeemedInsideTheWindow, RedeemedInside, TokensNeedTheirCredential
<1> QED
  BY <1>1, <1>2, <1>3, <1>4, <1>5, <1>6 DEF IInv

-----------------------------------------------------------------------------
(* The theorems.                                                           *)

\* Every door keeps the invariant, and so does a refusal, which writes nothing.
LEMMA NextKeepsIInv == IInv /\ [Next]_vars => IInv'
<1> SUFFICES ASSUME IInv, [Next]_vars
             PROVE  IInv'
  OBVIOUS
<1>0. Sound(Now) /\ accepted \subseteq Customer
  BY PromisesAround
<1>1. ASSUME NEW c \in Customer, NEW a \in Address, NEW r \in Reference \cup {NoReference},
             CreateAccount(c, a, r)
      PROVE  IInv'
  <2>1. Created(Now, Now', c, a, r) /\ accepted' \subseteq Customer
    BY <1>0, <1>1 DEF CreateAccount, Exists, Created, Now
  <2> QED
    BY <1>0, <2>1, CreatedKeepsPromises, PromisesAround
<1>2. ASSUME NEW c \in Customer, NEW p \in Secret, NEW salt \in Salt, SetPassword(c, p, salt)
      PROVE  IInv'
  <2>1. PasswordIsSet(Now, Now', c, p, salt) /\ accepted' \subseteq Customer
    BY <1>0, <1>2 DEF SetPassword, Exists, PasswordIsSet, Now
  <2> QED
    BY <1>0, <2>1, PasswordIsSetKeepsPromises, PromisesAround
<1>3. ASSUME NEW c \in Customer, NEW k \in ChangeId, NEW a \in Address,
             NEW proof \in Secret \cup {ByCaller}, NEW at \in Instant, NEW window \in Window,
             StartEmailChange(c, k, a, proof, at, window)
      PROVE  IInv'
  <2>1. /\ ChangeStarted(Now, Now', c, k, a, proof, at, window)
        /\ accepted' \subseteq Customer
    BY <1>0, <1>3 DEF StartEmailChange, Exists, ChangeStarted, Now
  <2> QED
    BY <1>0, <2>1, ChangeStartedKeepsPromises, PromisesAround
<1>4. ASSUME NEW k \in ChangeId, NEW at \in Instant, ConfirmEmailChange(k, at)
      PROVE  IInv'
  <2>1. ChangeConfirmed(Now, Now', k, at) /\ accepted' \subseteq Customer
    BY <1>0, <1>4 DEF ConfirmEmailChange, ChangeConfirmed, Now
  <2> QED
    BY <1>0, <2>1, ChangeConfirmedKeepsPromises, PromisesAround
<1>5. ASSUME NEW c \in Customer, NEW r \in ResetId, NEW at \in Instant, NEW window \in Window,
             StartPasswordReset(c, r, at, window)
      PROVE  IInv'
  <2>1. ResetStarted(Now, Now', c, r, at, window) /\ accepted' \subseteq Customer
    BY <1>0, <1>5 DEF StartPasswordReset, Exists, ResetStarted, Now
  <2> QED
    BY <1>0, <2>1, ResetStartedKeepsPromises, PromisesAround
<1>6. ASSUME NEW r \in ResetId, NEW p \in Secret, NEW salt \in Salt, NEW at \in Instant,
             ConsumePasswordReset(r, p, salt, at)
      PROVE  IInv'
  <2>1. ResetConsumed(Now, Now', r, p, salt, at) /\ accepted' \subseteq Customer
    BY <1>0, <1>6 DEF ConsumePasswordReset, ResetConsumed, Now
  <2> QED
    BY <1>0, <2>1, ResetConsumedKeepsPromises, PromisesAround
<1>7. CASE UNCHANGED vars
  <2>1. Now' = Now /\ accepted' = accepted
    BY <1>7 DEF vars, Now
  <2> QED
    BY <1>0, <2>1, PromisesAround
<1> QED
  BY <1>1, <1>2, <1>3, <1>4, <1>5, <1>6, <1>7 DEF Next

\* The inductive invariant holds of every reachable state.
THEOREM Invariance == Spec => []IInv
<1>1. Init => IInv
  BY InitIInv
<1>2. IInv /\ [Next]_vars => IInv'
  BY NextKeepsIInv
<1> QED
  BY <1>1, <1>2, PTL DEF Spec

\* The tables hold what their columns allow, whatever the doors did.
THEOREM TypeCorrect == Spec => []TypeOK
<1>1. IInv => TypeOK
  BY DEF IInv
<1> QED
  BY <1>1, Invariance, PTL

\* One address, in any spelling, is one account: the check of each door against
\* the folded address is enough to keep the unique index satisfied for ever.
THEOREM AddressesAreUnique == Spec => []OneAccountPerAddress
<1>1. IInv => OneAccountPerAddress
  BY DEF IInv
<1> QED
  BY <1>1, Invariance, PTL

\* The newest token works and no older one does.
THEOREM OneTokenOfAKindLives == Spec => []OneLiveTokenOfEachKind
<1>1. IInv => OneLiveTokenOfEachKind
  BY DEF IInv
<1> QED
  BY <1>1, Invariance, PTL

\* No reset outlives the address it was delivered to.
THEOREM ResetsDieWithTheirAddress == Spec => []LiveResetGoesToCurrentAddress
<1>1. IInv => LiveResetGoesToCurrentAddress
  BY DEF IInv
<1> QED
  BY <1>1, Invariance, PTL

\* No email change outlives the credential it was authorised under.
THEOREM ChangesDieWithTheirCredential == Spec => []LiveChangeIsUnderCurrentCredential
<1>1. IInv => LiveChangeIsUnderCurrentCredential
  BY DEF IInv
<1> QED
  BY <1>1, Invariance, PTL

\* A change that can be confirmed moves the address: the confirm door need not
\* ask again what the start door asked.
THEOREM ConfirmableChangesMove == Spec => []LiveChangeMovesTheAddress
<1>1. IInv => LiveChangeMovesTheAddress
  BY DEF IInv
<1> QED
  BY <1>1, Invariance, PTL

\* The email history leads, without a gap, to the address in effect.
THEOREM HistoryLeadsToTheAddress == Spec => []HistoryIsAChain
<1>1. IInv => HistoryIsAChain
  BY DEF IInv
<1> QED
  BY <1>1, Invariance, PTL

\* The history and the redeemed changes are two accounts of the same events.
THEOREM HistoryIsTheRedeemedChanges == Spec => []RedeemedChangesAreTheHistory
<1>1. IInv => RedeemedChangesAreTheHistory
  BY DEF IInv
<1> QED
  BY <1>1, Invariance, PTL

\* No token is redeemed before its issue, at its expiry or after it.
THEOREM RedemptionsAreInTime == Spec => []RedeemedInsideTheWindow
<1>1. IInv => RedeemedInsideTheWindow
  BY DEF IInv
<1> QED
  BY <1>1, Invariance, PTL

\* No reset, and no change a password authorised, exists for an account
\* without a password.
THEOREM TokensHaveTheirCredential == Spec => []TokensNeedTheirCredential
<1>1. IInv => TokensNeedTheirCredential
  BY DEF IInv
<1> QED
  BY <1>1, Invariance, PTL

-----------------------------------------------------------------------------
(* What a step may do.                                                     *)

\* Superseding the changes of a customer keeps or closes every row.
LEMMA SupersedeClosesChanges ==
  ASSUME TypeOK, NEW c \in Customer, NEW reason \in Reason
  PROVE  /\ Supersede(changes, c, reason) \in ChangeTable
         /\ \A k \in ChangeId : changes[k] # NoRow =>
              KeptOrClosed(changes[k], Supersede(changes, c, reason)[k])
<1>1. changes \in ChangeTable
  BY RowTypes
<1> QED
  BY <1>1, SupersedeChanges DEF SupersededChange, KeptOrClosed

\* And so does superseding the resets.
LEMMA SupersedeClosesResets ==
  ASSUME TypeOK, NEW c \in Customer, NEW reason \in Reason
  PROVE  /\ Supersede(resets, c, reason) \in ResetTable
         /\ \A r \in ResetId : resets[r] # NoRow =>
              KeptOrClosed(resets[r], Supersede(resets, c, reason)[r])
<1>1. resets \in ResetTable
  BY RowTypes
<1> QED
  BY <1>1, SupersedeResets DEF SupersededReset, KeptOrClosed

\* Every step keeps or closes every token row.
LEMMA StepsClose ==
  IInv /\ [Next]_vars =>
    [/\ \A k \in ChangeId : changes[k] # NoRow => KeptOrClosed(changes[k], changes'[k])
     /\ \A r \in ResetId : resets[r] # NoRow => KeptOrClosed(resets[r], resets'[r])]_vars
<1> DEFINE Kept ==
             /\ \A k \in ChangeId : changes[k] # NoRow => KeptOrClosed(changes[k], changes'[k])
             /\ \A r \in ResetId : resets[r] # NoRow => KeptOrClosed(resets[r], resets'[r])
<1> SUFFICES ASSUME IInv, Next
             PROVE  Kept
  BY DEF vars
<1>0. /\ TypeOK /\ changes \in ChangeTable /\ resets \in ResetTable
      /\ Superseded \in Reason /\ PasswordSet \in Reason /\ EmailChanged \in Reason
  BY RowTypes DEF IInv, Reason
<1>1. ASSUME NEW c \in Customer, NEW a \in Address, NEW r \in Reference \cup {NoReference},
             CreateAccount(c, a, r)
      PROVE  Kept
  BY <1>1 DEF CreateAccount, KeptOrClosed
<1>2. ASSUME NEW c \in Customer, NEW p \in Secret, NEW salt \in Salt, SetPassword(c, p, salt)
      PROVE  Kept
  <2>1. changes' = Supersede(changes, c, PasswordSet) /\ resets' = resets
    BY <1>2 DEF SetPassword
  <2> QED
    BY <2>1, <1>0, SupersedeClosesChanges DEF KeptOrClosed
<1>3. ASSUME NEW c \in Customer, NEW k \in ChangeId, NEW a \in Address,
             NEW proof \in Secret \cup {ByCaller}, NEW at \in Instant, NEW window \in Window,
             StartEmailChange(c, k, a, proof, at, window)
      PROVE  Kept
  <2>1. /\ changes[k] = NoRow /\ resets' = resets
        /\ \E row : changes' = [Supersede(changes, c, Superseded) EXCEPT ![k] = row]
    BY <1>3 DEF StartEmailChange
  <2>2. \A j \in ChangeId : j # k => changes'[j] = Supersede(changes, c, Superseded)[j]
    BY <2>1, <1>0, SupersedeClosesChanges DEF ChangeTable
  <2> QED
    BY <2>1, <2>2, <1>0, SupersedeClosesChanges DEF KeptOrClosed
<1>4. ASSUME NEW k \in ChangeId, NEW at \in Instant, ConfirmEmailChange(k, at)
      PROVE  Kept
  <2>1. /\ changes[k] # NoRow /\ changes[k].state = "issued" /\ changes[k].owner \in Customer
    BY <1>4, <1>0, RowTypes, PresentableIsLive DEF ConfirmEmailChange, Presentable, ChangeRow
  <2>2. /\ changes' = Spend(changes, k, at)
        /\ resets' = Supersede(resets, changes[k].owner, EmailChanged)
    BY <1>4 DEF ConfirmEmailChange
  <2>3. \A j \in ChangeId : changes[j] # NoRow => KeptOrClosed(changes[j], changes'[j])
    BY <2>1, <2>2, <1>0, SpendChange DEF KeptOrClosed
  <2> QED
    BY <2>1, <2>2, <2>3, <1>0, SupersedeClosesResets
<1>5. ASSUME NEW c \in Customer, NEW r \in ResetId, NEW at \in Instant, NEW window \in Window,
             StartPasswordReset(c, r, at, window)
      PROVE  Kept
  <2>1. /\ resets[r] = NoRow /\ changes' = changes
        /\ \E row : resets' = [Supersede(resets, c, Superseded) EXCEPT ![r] = row]
    BY <1>5 DEF StartPasswordReset
  <2>2. \A q \in ResetId : q # r => resets'[q] = Supersede(resets, c, Superseded)[q]
    BY <2>1, <1>0, SupersedeClosesResets DEF ResetTable
  <2> QED
    BY <2>1, <2>2, <1>0, SupersedeClosesResets DEF KeptOrClosed
<1>6. ASSUME NEW r \in ResetId, NEW p \in Secret, NEW salt \in Salt, NEW at \in Instant,
             ConsumePasswordReset(r, p, salt, at)
      PROVE  Kept
  <2>1. /\ resets[r] # NoRow /\ resets[r].state = "issued" /\ resets[r].owner \in Customer
    BY <1>6, <1>0, RowTypes, PresentableIsLive DEF ConsumePasswordReset, Presentable, ResetRow
  <2>2. /\ resets' = Spend(resets, r, at)
        /\ changes' = Supersede(changes, resets[r].owner, PasswordSet)
    BY <1>6 DEF ConsumePasswordReset
  <2>3. \A q \in ResetId : resets[q] # NoRow => KeptOrClosed(resets[q], resets'[q])
    BY <2>1, <2>2, <1>0, SpendReset DEF KeptOrClosed
  <2> QED
    BY <2>1, <2>2, <2>3, <1>0, SupersedeClosesChanges
<1> QED
  BY <1>1, <1>2, <1>3, <1>4, <1>5, <1>6 DEF Next

\* A token row is written once and closed at most once, by whatever door.
THEOREM TokensAreFinal == Spec => TokensCloseOnce
<1>1. IInv /\ [Next]_vars =>
        [/\ \A k \in ChangeId : changes[k] # NoRow => KeptOrClosed(changes[k], changes'[k])
         /\ \A r \in ResetId : resets[r] # NoRow => KeptOrClosed(resets[r], resets'[r])]_vars
  BY StepsClose
<1> QED
  BY <1>1, Invariance, PTL DEF Spec, TokensCloseOnce

\* Every step that moves an address spends a live token that points there.
LEMMA StepsMoveByToken ==
  IInv /\ [Next]_vars =>
    [\A c \in Customer : Exists(c) /\ email'[c] # email[c] =>
       \E k \in ChangeId : /\ LiveChange(k) /\ changes[k].owner = c
                           /\ changes[k].to = email'[c]
                           /\ changes'[k].state = "redeemed"]_vars
<1> DEFINE Moves(c) ==
             Exists(c) /\ email'[c] # email[c] =>
               \E k \in ChangeId : /\ LiveChange(k) /\ changes[k].owner = c
                                   /\ changes[k].to = email'[c]
                                   /\ changes'[k].state = "redeemed"
<1> SUFFICES ASSUME IInv, Next, NEW c \in Customer
             PROVE  Moves(c)
  BY DEF vars
<1>0. TypeOK /\ changes \in ChangeTable
  BY RowTypes DEF IInv
<1>1. ASSUME NEW d \in Customer, NEW a \in Address, NEW r \in Reference \cup {NoReference},
             CreateAccount(d, a, r)
      PROVE  Moves(c)
  BY <1>1, <1>0 DEF CreateAccount, Exists, TypeOK
<1>2. ASSUME NEW k \in ChangeId, NEW at \in Instant, ConfirmEmailChange(k, at)
      PROVE  Moves(c)
  <2>1. changes[k] # NoRow /\ LiveChange(k) /\ changes[k].owner \in Customer
    BY <1>2, <1>0, RowTypes, PresentableIsLive DEF ConfirmEmailChange, Presentable, ChangeRow,
       LiveChange
  <2>2. \A d \in Customer : email'[d] = IF d = changes[k].owner THEN changes[k].to ELSE email[d]
    BY <1>2, <1>0, <2>1 DEF ConfirmEmailChange, TypeOK
  <2>3. changes'[k].state = "redeemed"
    BY <1>2, <1>0, <2>1, SpendChange DEF ConfirmEmailChange
  <2> QED
    BY <2>1, <2>2, <2>3
<1>3. ASSUME email' = email
      PROVE  Moves(c)
  BY <1>3
<1> QED
  BY <1>1, <1>2, <1>3
  DEF Next, SetPassword, StartEmailChange, StartPasswordReset, ConsumePasswordReset

\* The address of an account moves only by a live token of that account.
THEOREM AddressesMoveByToken == Spec => AddressMovesOnlyByItsToken
<1>1. IInv /\ [Next]_vars =>
        [\A c \in Customer : Exists(c) /\ email'[c] # email[c] =>
           \E k \in ChangeId : /\ LiveChange(k) /\ changes[k].owner = c
                               /\ changes[k].to = email'[c]
                               /\ changes'[k].state = "redeemed"]_vars
  BY StepsMoveByToken
<1> QED
  BY <1>1, Invariance, PTL DEF Spec, AddressMovesOnlyByItsToken

=============================================================================
