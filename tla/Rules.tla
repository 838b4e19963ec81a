------------------------------- MODULE Rules -------------------------------
(***************************************************************************)
(* The parts of the code that keep no state, put to the question one input *)
(* at a time: the window of a token, one value at the boundary of the      *)
(* command line, one command line, one table of the catalogue and one      *)
(* contract document.                                                      *)
(***************************************************************************)
EXTENDS Instants, Boundary, Catalogue

Published == INSTANCE Contract

CONSTANTS
  Window,         \* the issues and windows asked about
  Given,          \* the values, with their source and the field they are for
  CommandLine,    \* sequences of options, each with a value or without
  Declared,       \* tables, with the role of the connection
  Document        \* documents, with the registry and the names of its blocks

\* An option that takes a value, and the value, if it was typed; the name of an
\* option is no value.
IsItem(item) ==
  /\ Len(item) \in {1, 2} /\ item[1] \in Valued
  /\ Len(item) = 2 => item[2] \notin Option

ASSUME InputsAreReal ==
  /\ \A w \in Window : /\ w.issued \in [wall : Int, offset : Int] /\ IsAware(w.issued)
                        /\ w.hours \in Nat
  /\ \A g \in Given : g.way \in Way /\ g.text \in Seq(Class)
  /\ \A l \in CommandLine : l \in Seq(Seq(STRING)) /\ \A i \in DOMAIN l : IsItem(l[i])
  /\ \A d \in Declared : d.role \in Role /\ d.table \in TableShape

VARIABLE asked    \* the input at hand, with the kind of question

NothingAsked == [of |-> "nothing"]

RulesInit == asked = NothingAsked

AskWindow    == \E w \in Window : asked' = [of |-> "window", input |-> w]
AskGiven     == \E g \in Given : asked' = [of |-> "given", input |-> g]
AskLine      == \E l \in CommandLine : asked' = [of |-> "line", input |-> l]
AskDeclared  == \E d \in Declared : asked' = [of |-> "declared", input |-> d]
AskDocument  == \E d \in Document : asked' = [of |-> "document", input |-> d]

RulesNext ==
  /\ asked = NothingAsked
  /\ AskWindow \/ AskGiven \/ AskLine \/ AskDeclared \/ AskDocument

RulesSpec == RulesInit /\ [][RulesNext]_asked

Asked(kind) == asked.of = kind

-----------------------------------------------------------------------------

\* A window is refused exactly when its end could not be read back a margin
\* from either end of time, and an accepted end reads back in every session
\* time zone, whatever the offset the issue was stated with.
WindowsReadBack ==
  Asked("window") =>
    LET issued == asked.input.issued
        end    == ExpiryOf(issued, asked.input.hours)
    IN  /\ ExpiryAccepted(issued, asked.input.hours) <=> WithinTheBounds(end)
        /\ ExpiryAccepted(issued, asked.input.hours) => ReadsBackEverywhere(Utc(end))

\* What the module's rules let through, the schema's CHECKs admit, so that no
\* raw constraint answers an operator (a text shown that carries a NUL is the
\* one the column has no room for), and held to its rule again it is the same.
\* What comes by a file or on standard input ends in one of those answers:
\* refused by name, kept, or met by the driver, and in no locale a traceback.
AcceptedMeansStored ==
  Asked("given") =>
    LET way   == asked.input.way
        field == way[2]
    IN  /\ \A kept \in Rule(field, asked.input.text) :
             /\ SchemaAdmits(field, kept) \/ (field = "shown" /\ Has(kept, {"0"}))
             /\ Rule(field, kept) = {kept}
        /\ way[1] \in {"stdin", "file"} => AnswerTo(way, asked.input.text) # "escaped"

\* The options of the line at hand as the module gets them.
Arrived == Parsed(FlattenSeq(asked.input))

\* No value an operator gives, by any way in, escapes as a traceback.
NothingEscapes ==
  /\ Asked("given") => AnswerTo(asked.input.way, asked.input.text) # "escaped"
  /\ Asked("line") => \A i \in DOMAIN asked.input :
                        Used(Arrived[i][1], Arrived[i][2]) # "escaped"

\* An option gets the value that was typed after it, dashes or not, or the
\* usage error where none was; no option swallows another one.
DashedValuesArrive ==
  Asked("line") =>
    \A i \in DOMAIN asked.input :
      LET typed == asked.input[i]
      IN  /\ Arrived[i][1] = typed[1]
          /\ Len(typed) = 1 => Arrived[i][2] = "usage"
          /\ Len(typed) = 2 /\ typed[2] # "--" => Arrived[i][2] = typed[2]

\* Where the catalogue's answers are all green, no statement of the connection
\* runs past the policies, the owner's included, and no row of a tenant refers
\* to the customer of another.
GreenMeansIsolated ==
  Asked("declared") =>
    LET role  == asked.input.role
        table == asked.input.table
    IN  GreenCatalogue(role, table) =>
          PoliciesApply(role, table) /\ ReferencesStayHome(table)

\* Where the check of the contract is green each block says what its registry
\* does; writing the document makes it green, and moves no word between blocks.
GreenMeansDerived ==
  Asked("document") =>
    LET doc     == asked.input.doc
        blocks  == asked.input.blocks
        reg     == asked.input.registry
        written == Published!Render(doc, blocks, reg)
    IN  /\ Published!GreenContract(doc, blocks, reg) =>
             \A n \in DOMAIN blocks :
               Published!Inside(doc, blocks[n]) = <<Published!Text(reg[blocks[n]])>>
        /\ Published!Apart(doc, blocks) =>
             /\ Published!GreenContract(written, blocks, reg)
             /\ Published!Prose(written, blocks) = Published!Prose(doc, blocks)
=============================================================================
