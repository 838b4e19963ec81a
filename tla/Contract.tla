------------------------------ MODULE Contract ------------------------------
(***************************************************************************)
(* scripts/generate_contract.py: the published contract is a document with *)
(* marked blocks, each derived from a registry of the code (refusals,      *)
(* guarantees, channels, commands, ...).  A document is a sequence of      *)
(* pieces: the two markers of a block, and pieces of text.                 *)
(***************************************************************************)
EXTENDS Naturals, Sequences, SequencesExt

Begin(name) == <<"begin", name>>
End(name)   == <<"end", name>>
Text(what)  == <<"text", what>>

\* Where the markers of a block are: the first begin, and the first end after it.
Opens(doc, name)  == {i \in DOMAIN doc : doc[i] = Begin(name)}
Closes(doc, name) ==
  {j \in DOMAIN doc : doc[j] = End(name) /\ Opens(doc, name) # {} /\ Min(Opens(doc, name)) < j}

HasBlock(doc, name) == Closes(doc, name) # {}

From(doc, name) == Min(Opens(doc, name))
Upto(doc, name)  == Min(Closes(doc, name))

\* What stands in the block.
Inside(doc, name) == SubSeq(doc, From(doc, name) + 1, Upto(doc, name) - 1)

\* Mutant: what stood in the block is kept behind what is derived.
FilledBefore(doc, name, what) ==
  SubSeq(doc, 1, From(doc, name)) \o <<Text(what)>>
    \o SubSeq(doc, From(doc, name) + 1, Len(doc))

\* The block filled with what its builder derives, and nothing else moved.
Filled(doc, name, what) ==
  SubSeq(doc, 1, From(doc, name)) \o <<Text(what)>> \o SubSeq(doc, Upto(doc, name), Len(doc))

\* Nothing is written.
NoPiece    == <<"none">>
NoDocument == <<NoPiece>>

\* render(): every block in turn; a block that is missing stops it.
Render(doc, blocks, registry) ==
  FoldLeft(LAMBDA out, name :
             IF out # NoDocument /\ HasBlock(out, name)
             THEN Filled(out, name, registry[name]) ELSE NoDocument,
           doc, blocks)

\* --check: the document is the one that would be written.
GreenContract(doc, blocks, registry) == doc = Render(doc, blocks, registry)

\* The document without what stands in its blocks.
Prose(doc, blocks) ==
  SelectSeq([i \in DOMAIN doc |->
               IF \E n \in DOMAIN blocks : /\ HasBlock(doc, blocks[n])
                                           /\ From(doc, blocks[n]) < i
                                           /\ i < Upto(doc, blocks[n])
               THEN NoPiece ELSE doc[i]],
            LAMBDA piece : piece # NoPiece)

\* Every block of its own: each marker once, and no marker inside a block.
Apart(doc, blocks) ==
  \A n \in DOMAIN blocks :
    /\ HasBlock(doc, blocks[n])
    /\ \A i, j \in DOMAIN doc : doc[i] = doc[j] /\ doc[i][1] # "text" => i = j
    /\ \A i \in (From(doc, blocks[n]) + 1)..(Upto(doc, blocks[n]) - 1) : doc[i][1] = "text"
=============================================================================
