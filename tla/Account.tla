------------------------------ MODULE Account ------------------------------
(***************************************************************************)
(* The account store of one operator as its contract describes it: every   *)
(* door runs alone and takes effect at once, or is refused and writes      *)
(* nothing (a refusal is a stuttering step and has no action).             *)
(*                                                                         *)
(* AccountStore shows the doors statement by statement, several            *)
(* transactions at a time, and is checked to implement this module.        *)
(***************************************************************************)
EXTENDS AccountTables

VARIABLES
  email,       \* customers.email, NoAddress where there is no row
  reference,   \* customers.external_id
  accepted,    \* the customers with a terms_acceptances row
  credential,  \* customer_credentials
  changes,     \* pending_email_changes
  resets,      \* credential_resets
  history      \* customer_email_changes, per customer, in commit order

vars == <<email, reference, accepted, credential, changes, resets, history>>

TypeOK ==
  /\ email \in [Customer -> Address \cup {NoAddress}]
  /\ reference \in [Customer -> Reference \cup {NoReference}]
  /\ accepted \subseteq Customer
  /\ credential \in [Customer -> Credential]
  /\ changes \in [ChangeId -> ChangeRow \cup {NoRow}]
  /\ resets \in [ResetId -> ResetRow \cup {NoRow}]
  /\ history \in [Customer -> Seq(HistoryRow)]

Exists(c) == email[c] # NoAddress

Init ==
  /\ email = [c \in Customer |-> NoAddress]
  /\ reference = [c \in Customer |-> NoReference]
  /\ accepted = {}
  /\ credential = [c \in Customer |-> NoCredential]
  /\ changes = [k \in ChangeId |-> NoRow]
  /\ resets = [r \in ResetId |-> NoRow]
  /\ history = [c \in Customer |-> << >>]

-----------------------------------------------------------------------------
(* The doors.                                                              *)

\* The customer row and its first acceptance, in one transaction.
CreateAccount(c, a, r) ==
  /\ ~Exists(c)
  /\ Holders(email, a) = {}
  /\ r # NoReference => \A d \in Customer : reference[d] # r
  /\ email' = [email EXCEPT ![c] = a]
  /\ reference' = [reference EXCEPT ![c] = r]
  /\ accepted' = accepted \cup {c}
  /\ UNCHANGED <<credential, changes, resets, history>>

\* os.urandom never repeats: no credential and no change row knows this salt.
\* A finite Salt is what bounds how many writes an instance can take.
FreshSalt(salt) ==
  /\ \A c \in Customer : credential[c].salt # salt
  /\ \A k \in ChangeId : changes[k] # NoRow => changes[k].under # salt

\* A new password; it cancels the customer's outstanding email changes.
SetPassword(c, p, salt) ==
  /\ Exists(c)
  /\ FreshSalt(salt)
  /\ changes' = Supersede(changes, c, PasswordSet)
  /\ credential' = [credential EXCEPT ![c] = HashPassword(p, salt)]
  /\ UNCHANGED <<email, reference, accepted, resets, history>>

(***************************************************************************)
(* proof is the password presented, or ByCaller for a caller's stated      *)
(* name.  The code also refuses an address another customer carries when   *)
(* it looks.  It looks without a lock on the other row, so that refusal is *)
(* advice and no promise: another customer may take the address before     *)
(* this change commits.  The promise is ConfirmEmailChange's.              *)
(***************************************************************************)
StartEmailChange(c, k, a, proof, at, window) ==
  /\ Exists(c)
  /\ changes[k] = NoRow
  /\ proof # ByCaller => Verified(credential[c], proof)
  /\ ~SameAddress(email[c], a)
  /\ Readable(Expiry(at, window))
  /\ changes' = [Supersede(changes, c, Superseded) EXCEPT ![k] =
                   NewChange(c, a, IF proof = ByCaller THEN ByCaller ELSE ByPassword,
                             at, window, credential[c])]
  /\ UNCHANGED <<email, reference, accepted, credential, resets, history>>

\* The new address presents its token: the address moves, the history says
\* so, the token is spent and the resets delivered to the old address die.
ConfirmEmailChange(k, at) ==
  LET row == changes[k]
      c   == row.owner
  IN  /\ Presentable(row, at)
      /\ ~BeforeLatestChange(history[c], at)
      /\ Holders(email, row.to) \subseteq {c}
      /\ changes' = Spend(changes, k, at)
      /\ email' = [email EXCEPT ![c] = row.to]
      /\ history' = [history EXCEPT ![c] = Append(@, NewHistory(email[c], row, at, k))]
      /\ resets' = Supersede(resets, c, EmailChanged)
      /\ UNCHANGED <<reference, accepted, credential>>

\* A reset is for a password that exists, and goes to the current address.
StartPasswordReset(c, r, at, window) ==
  /\ Exists(c)
  /\ resets[r] = NoRow
  /\ HasCredential(credential[c])
  /\ Readable(Expiry(at, window))
  /\ resets' = [Supersede(resets, c, Superseded) EXCEPT ![r] =
                  NewReset(c, email[c], at, window)]
  /\ UNCHANGED <<email, reference, accepted, credential, changes, history>>

\* The token and a new password: the credential is replaced and the
\* customer's outstanding email changes die with the old one.
ConsumePasswordReset(r, p, salt, at) ==
  LET c == resets[r].owner
  IN  /\ Presentable(resets[r], at)
      /\ FreshSalt(salt)
      /\ resets' = Spend(resets, r, at)
      /\ changes' = Supersede(changes, c, PasswordSet)
      /\ credential' = [credential EXCEPT ![c] = HashPassword(p, salt)]
      /\ UNCHANGED <<email, reference, accepted, history>>

Next ==
  \/ \E c \in Customer, a \in Address, r \in Reference \cup {NoReference} :
       CreateAccount(c, a, r)
  \/ \E c \in Customer, p \in Secret, salt \in Salt : SetPassword(c, p, salt)
  \/ \E c \in Customer, k \in ChangeId, a \in Address, proof \in Secret \cup {ByCaller},
        at \in Instant, window \in Window :
       StartEmailChange(c, k, a, proof, at, window)
  \/ \E k \in ChangeId, at \in Instant : ConfirmEmailChange(k, at)
  \/ \E c \in Customer, r \in ResetId, at \in Instant, window \in Window :
       StartPasswordReset(c, r, at, window)
  \/ \E r \in ResetId, p \in Secret, salt \in Salt, at \in Instant :
       ConsumePasswordReset(r, p, salt, at)

Spec == Init /\ [][Next]_vars

-----------------------------------------------------------------------------
(* What the store promises.                                                *)

LiveChange(k) == changes[k] # NoRow /\ changes[k].state = "issued"
LiveReset(r)  == resets[r] # NoRow /\ resets[r].state = "issued"

\* One address is one account: no two customers carry addresses that fold
\* alike (customers_one_address_per_tenant), whatever the doors they came by.
OneAccountPerAddress ==
  \A c, d \in Customer :
    Exists(c) /\ Exists(d) /\ Fold(email[c]) = Fold(email[d]) => c = d

\* At most one live token of each kind per customer: the newest one works.
OneLiveTokenOfEachKind ==
  /\ \A j, k \in ChangeId :
       LiveChange(j) /\ LiveChange(k) /\ changes[j].owner = changes[k].owner => j = k
  /\ \A q, r \in ResetId :
       LiveReset(q) /\ LiveReset(r) /\ resets[q].owner = resets[r].owner => q = r

\* A reset that would still be honoured was handed out for the address its
\* customer has now: no confirmed change leaves one behind (EMAIL_CHANGED).
LiveResetGoesToCurrentAddress ==
  \A r \in ResetId : LiveReset(r) => resets[r].deliveredTo = email[resets[r].owner]

\* An email change that would still be honoured was authorised under the
\* credential its customer has now: none outlives a new password, set or
\* reset, even the same password set again (PASSWORD_SET).
LiveChangeIsUnderCurrentCredential ==
  \A k \in ChangeId :
    LiveChange(k) => changes[k].under = credential[changes[k].owner].salt

\* A change that would still be honoured moves the address.  The start door
\* refuses the address in effect (EMAIL_UNCHANGED) and the confirm door asks
\* no such thing: it relies on the address not having moved since.
LiveChangeMovesTheAddress ==
  \A k \in ChangeId :
    LiveChange(k) => Fold(changes[k].to) # Fold(email[changes[k].owner])

\* The email history is a chain: each change starts from the address the one
\* before it set, the last one set the address in effect, and the instants
\* at which they took effect never go back.
HistoryIsAChain ==
  \A c \in Customer : \A i \in 1..Len(history[c]) :
    IF i = Len(history[c])
    THEN history[c][i].to = email[c]
    ELSE /\ history[c][i].to = history[c][i + 1].from
         /\ history[c][i].changedAt <= history[c][i + 1].changedAt

\* One token, one spend, one history row: a pending change is redeemed exactly
\* when one row of its own customer's history came from it, with the address,
\* the authorisation and the instant it carries.
RedeemedChangesAreTheHistory ==
  /\ \A c \in Customer : \A i \in 1..Len(history[c]) :
       LET row == changes[history[c][i].change]
       IN  /\ row # NoRow
           /\ row.owner = c /\ row.state = "redeemed"
           /\ row.to = history[c][i].to
           /\ row.authorisation = history[c][i].authorisation
           /\ row.redeemedAt = history[c][i].changedAt
  /\ \A c \in Customer : \A i, j \in 1..Len(history[c]) :
       history[c][i].change = history[c][j].change => i = j
  /\ \A k \in ChangeId : changes[k] # NoRow /\ changes[k].state = "redeemed" =>
       \E i \in 1..Len(history[changes[k].owner]) : history[changes[k].owner][i].change = k

RedeemedInside(row) ==
  row # NoRow /\ row.state = "redeemed" =>
    row.issuedAt <= row.redeemedAt /\ row.redeemedAt < row.expiresAt

\* No redemption is on record outside the window stated at issue: never before
\* the issue, never at the expiry or after it, on either token table.
RedeemedInsideTheWindow ==
  /\ \A k \in ChangeId : RedeemedInside(changes[k])
  /\ \A r \in ResetId : RedeemedInside(resets[r])

\* A reset exists only for a password that exists, and so does every change
\* authorised by one (NO_CREDENTIAL is a refusal at both doors).
TokensNeedTheirCredential ==
  /\ \A r \in ResetId : resets[r] # NoRow => HasCredential(credential[resets[r].owner])
  /\ \A k \in ChangeId : changes[k] # NoRow /\ changes[k].authorisation = ByPassword =>
       HasCredential(credential[changes[k].owner])

\* The row says what it said at issue; only how it was closed may differ.
SameIssue(row, next) ==
  next = [row EXCEPT !.state = next.state, !.redeemedAt = next.redeemedAt,
                     !.reason = next.reason]

\* What a step may do to a row: leave it, or close it while it is open.
KeptOrClosed(row, next) ==
  \/ next = row
  \/ row.state = "issued" /\ next # NoRow /\ SameIssue(row, next)

\* A token row is written once and closed once: it never disappears, what it
\* says at issue never changes, and a redeemed or a cancelled one is final.
TokensCloseOnce ==
  [][/\ \A k \in ChangeId : changes[k] # NoRow => KeptOrClosed(changes[k], changes'[k])
     /\ \A r \in ResetId : resets[r] # NoRow => KeptOrClosed(resets[r], resets'[r])]_vars

\* The address of an account moves only to where a live token of that account
\* points, and that token is spent by the move: nothing else rewrites it.
AddressMovesOnlyByItsToken ==
  [][\A c \in Customer : Exists(c) /\ email'[c] # email[c] =>
       \E k \in ChangeId : /\ LiveChange(k) /\ changes[k].owner = c
                           /\ changes[k].to = email'[c]
                           /\ changes'[k].state = "redeemed"]_vars
=============================================================================
