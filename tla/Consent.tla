------------------------------ MODULE Consent ------------------------------
(***************************************************************************)
(* What a customer agreed to: acceptances of the terms, each itemised by   *)
(* the channels consented to with the text shown for each.  From the       *)
(* options of the command line, over the statements of the two doors that  *)
(* write them, to the read that answers "what did they agree to".          *)
(*                                                                         *)
(* Several sessions run; each publishes what it has written at its commit. *)
(* The read takes one statement for the acceptances and then one for the   *)
(* channels of each, at READ COMMITTED.                                    *)
(***************************************************************************)
EXTENDS Naturals, Sequences, SequencesExt

CONSTANTS
  Customer,       \* customers.id
  AcceptanceId,   \* terms_acceptances.id, drawn at random by the INSERT
  Session,        \* connections, each running one door at a time
  Channel,        \* the fixed set of channel names
  Name,           \* what --channel may be given before its "="
  Text,           \* what a file of consent text may hold
  BlankText,      \* one that holds nothing
  MaxPairs,       \* bound: --channel options on one command line
  NoCustomer,     \* no such row, no door, no reader
  NoAcceptance    \* the door is not running

ASSUME ChannelsAreNames == Channel \subseteq Name
ASSUME BlankIsAText == BlankText \in Text
ASSUME PairsAreBounded == MaxPairs \in Nat
ASSUME NullsAreApart == NoCustomer \notin Customer /\ NoAcceptance \notin AcceptanceId

VARIABLES
  customers,     \* the committed customers rows
  acceptances,   \* the committed acceptances: the customer of each
  channels,      \* the committed acceptance_channels rows
  given,         \* history: the --channel options each acceptance was made from
  tx,            \* what each session's door is doing
  reading        \* the show_acceptances under way

vars == <<customers, acceptances, channels, given, tx, reading>>

\* The --channel options of a command line, in order.
Pair  == [name : Name, text : Text]
Pairs == SeqOf(Pair, MaxPairs)

\* The columns' own checks: a known channel, a text that is not blank.
ChannelRow == [acceptance : AcceptanceId, channel : Channel, text : Text \ {BlankText}]

Idle ==
  [c |-> NoCustomer, id |-> NoAcceptance, new |-> FALSE, next |-> "customer",
   left |-> {}, wrote |-> {}]

NoReading == [c |-> NoCustomer, listed |-> {}, left |-> {}, shown |-> {}]

TypeOK ==
  /\ customers \subseteq Customer
  /\ acceptances \in [AcceptanceId -> Customer \cup {NoCustomer}]
  /\ channels \subseteq ChannelRow
  /\ given \in [AcceptanceId -> Pairs]
  /\ \A s \in Session :
       tx[s] \in [c : Customer \cup {NoCustomer}, id : AcceptanceId \cup {NoAcceptance},
                  new : BOOLEAN, next : {"customer", "acceptance", "channels"},
                  left : SUBSET ChannelRow, wrote : SUBSET ChannelRow]
  /\ reading \in [c : Customer \cup {NoCustomer}, listed : SUBSET AcceptanceId,
                  left : SUBSET AcceptanceId, shown : SUBSET ChannelRow]

Init ==
  /\ customers = {}
  /\ acceptances = [a \in AcceptanceId |-> NoCustomer]
  /\ channels = {}
  /\ given = [a \in AcceptanceId |-> << >>]
  /\ tx = [s \in Session |-> Idle]
  /\ reading = NoReading

-----------------------------------------------------------------------------
(* From the options to the rows.                                           *)

\* Mutant: the options go straight into the dict.
NeverRepeated(pairs) == FALSE

\* _channels: a name given twice is refused before the dict collapses it.
Repeated(pairs) ==
  \E i, j \in DOMAIN pairs : i < j /\ pairs[i].name = pairs[j].name

\* The dict of what was given: of two pairs with one name, the later.
Collapsed(pairs) ==
  {pairs[i] : i \in {j \in DOMAIN pairs :
                       \A k \in DOMAIN pairs : pairs[k].name = pairs[j].name => k <= j}}

\* build_acceptance: every channel parsed, every text held to its rule.
Buildable(dict) ==
  \A pair \in dict : pair.name \in Channel /\ pair.text # BlankText

RowsOf(a, dict) ==
  {[acceptance |-> a, channel |-> pair.name, text |-> pair.text] : pair \in dict}

-----------------------------------------------------------------------------
(* create-account and record-terms-acceptance.                             *)

Running(s) == tx[s].id # NoAcceptance

\* A key the server draws is nobody else's.
Drawn(a) == acceptances[a] # NoCustomer \/ \E s \in Session : tx[s].id = a

\* The options are judged before the first statement: a refusal writes nothing.
Begin(s, first, new, c, a, pairs) ==
  /\ ~Running(s)
  /\ ~Drawn(a)
  /\ ~Repeated(pairs)
  /\ Buildable(Collapsed(pairs))
  /\ given' = [given EXCEPT ![a] = pairs]
  /\ tx' = [tx EXCEPT ![s] = [Idle EXCEPT !.c = c, !.id = a, !.new = new, !.next = first,
                                          !.left = RowsOf(a, Collapsed(pairs))]]
  /\ UNCHANGED <<customers, acceptances, channels, reading>>

BeginCreate(s, c, a, pairs) ==
  /\ c \notin customers
  /\ \A q \in Session : tx[q].new => tx[q].c # c
  /\ Begin(s, "customer", TRUE, c, a, pairs)

BeginRecord(s, c, a, pairs) == Begin(s, "acceptance", FALSE, c, a, pairs)

NextIs(s, statement) == Running(s) /\ tx[s].next = statement

InsertCustomer(s) ==
  /\ NextIs(s, "customer")
  /\ tx' = [tx EXCEPT ![s].next = "acceptance"]
  /\ UNCHANGED <<customers, acceptances, channels, given, reading>>

\* Mutant: record_acceptance does not load the customer.
AnyCustomer(s) == TRUE

\* load_customer: its own new row, or a committed one.
CustomerFound(s) == tx[s].new \/ tx[s].c \in customers

InsertAcceptance(s) ==
  /\ NextIs(s, "acceptance")
  /\ CustomerFound(s)
  /\ tx' = [tx EXCEPT ![s].next = "channels"]
  /\ UNCHANGED <<customers, acceptances, channels, given, reading>>

InsertChannel(s) ==
  /\ NextIs(s, "channels")
  /\ \E row \in tx[s].left :
       tx' = [tx EXCEPT ![s].left = @ \ {row}, ![s].wrote = @ \cup {row}]
  /\ UNCHANGED <<customers, acceptances, channels, given, reading>>

\* Mutant: the acceptance is committed before its channels.
AfterTheAcceptance(s) == tx[s].next = "channels"

\* The one commit is at the end of the door.
Finished(s) == tx[s].next = "channels" /\ tx[s].left = {}

\* A commit publishes what the transaction has written by then.
Commit(s) ==
  /\ Running(s)
  /\ Finished(s)
  /\ customers' = customers \cup (IF tx[s].new /\ tx[s].next # "customer" THEN {tx[s].c} ELSE {})
  /\ acceptances' = IF tx[s].next = "channels"
                    THEN [acceptances EXCEPT ![tx[s].id] = tx[s].c] ELSE acceptances
  /\ channels' = channels \cup tx[s].wrote
  /\ tx' = [tx EXCEPT ![s] = Idle]
  /\ UNCHANGED <<given, reading>>

\* A refusal, a driver error, a crash: possible at any statement.
Abort(s) ==
  /\ Running(s)
  /\ tx' = [tx EXCEPT ![s] = Idle]
  /\ UNCHANGED <<customers, acceptances, channels, given, reading>>

-----------------------------------------------------------------------------
(* show_acceptances.                                                       *)

\* The first statement: the acceptances of the customer.
Show(c) ==
  /\ reading = NoReading
  /\ c \in customers
  /\ LET listed == {a \in AcceptanceId : acceptances[a] = c}
     IN  reading' = [c |-> c, listed |-> listed, left |-> listed, shown |-> {}]
  /\ UNCHANGED <<customers, acceptances, channels, given, tx>>

\* Then one statement for the channels of each.
ShowChannels(a) ==
  /\ a \in reading.left
  /\ reading' = [reading EXCEPT !.left = @ \ {a},
                   !.shown = @ \cup {row \in channels : row.acceptance = a}]
  /\ UNCHANGED <<customers, acceptances, channels, given, tx>>

Shown == reading.c # NoCustomer /\ reading.left = {}

Render ==
  /\ Shown
  /\ reading' = NoReading
  /\ UNCHANGED <<customers, acceptances, channels, given, tx>>

-----------------------------------------------------------------------------

Next ==
  \/ \E s \in Session, c \in Customer, a \in AcceptanceId, pairs \in Pairs :
       BeginCreate(s, c, a, pairs) \/ BeginRecord(s, c, a, pairs)
  \/ \E s \in Session :
       \/ InsertCustomer(s) \/ InsertAcceptance(s) \/ InsertChannel(s)
       \/ Commit(s) \/ Abort(s)
  \/ \E c \in Customer : Show(c)
  \/ \E a \in AcceptanceId : ShowChannels(a)
  \/ Render

Spec == Init /\ [][Next]_vars

-----------------------------------------------------------------------------
(* What the record of consent says.                                        *)

\* An account is created with its terms accepted or not at all, and nobody but
\* an account has accepted any.
AccountsAreThoseWithTerms ==
  customers = {acceptances[a] : a \in AcceptanceId} \ {NoCustomer}

\* These rows are the options given: each --channel on one row, with its own
\* text, and no row beside them.
AreWhatWasGiven(rows, a) ==
  /\ \A i \in DOMAIN given[a] :
       [acceptance |-> a, channel |-> given[a][i].name, text |-> given[a][i].text] \in rows
  /\ \A row \in rows : [name |-> row.channel, text |-> row.text] \in ToSet(given[a])

\* "What did they agree to": on record for an acceptance is every text its
\* customer was shown, on its channel, and nothing else; no option given is
\* dropped for another (REFUSAL_CHANNEL_REPEATED).
ConsentIsWhatWasShown ==
  \A a \in AcceptanceId : acceptances[a] # NoCustomer =>
    AreWhatWasGiven({row \in channels : row.acceptance = a}, a)

\* The read never shows an acceptance without the consents it was given with,
\* though it asks for them by statements of their own.
ShownAcceptancesAreWhole ==
  Shown => \A a \in reading.listed :
             AreWhatWasGiven({row \in reading.shown : row.acceptance = a}, a)
=============================================================================
