----------------------------- MODULE Extraction -----------------------------
(***************************************************************************)
(* Checklists and regulatory values drawn from a document by a model       *)
(* (checklist.py, ai.py): its units are grouped into blocks, the blocks    *)
(* packed into as few calls as fit the context, and a call that fails is   *)
(* made again for each of its blocks.  A checklist says what it could not  *)
(* read.                                                                   *)
(***************************************************************************)
EXTENDS Naturals, SequencesExt

CONSTANTS
  UnitBound, \* units in a document
  BlockSize, \* MAX_BLOCK_WORDS
  FewWords,  \* words up to which a passage may introduce a form or a table
  Budget     \* resolve_context_budget

VARIABLES
  subject, \* the document's units, whether they lie in one named part of it, whether some
           \* of it is missing, and what is drawn from it
  work     \* how far the extraction is

extractionVars == <<subject, work>>

\* form: forms and tables; na: a unit automatic_na_reason finds nothing to do in.
Units == [kind: {"text", "na", "form"}, heading: {1, 2}, words: {1, 2}]
Modes == {"schema", "object", "text"}

Atomic(u) == u.kind = "form"
Words(units, block) == FoldLeft(LAMBDA n, i : n + units[i].words, 0, block)
Missing == <<0>> \* the gap of a document that has no text or file, or could not be converted

-----------------------------------------------------------------------------
(* build_analysis_blocks.  A block is the sequence of its units' numbers.  *)

\* Only a block with something to do in it is kept.
Flushed(units, acc) ==
  [closed |-> IF acc.open # <<>> /\ \E i \in Range(acc.open) : units[i].kind # "na"
              THEN Append(acc.closed, acc.open) ELSE acc.closed,
   open |-> <<>>]

Fits(units, open, i) ==
  open = <<>> \/ /\ units[Head(open)].heading = units[i].heading
                 /\ Words(units, open) + units[i].words <= BlockSize

\* A form or table is a block of its own; other units join the block that is open if they fit.
Grouped(units, acc, i) ==
  IF Atomic(units[i]) THEN Flushed(units, [Flushed(units, acc) EXCEPT !.open = <<i>>])
  ELSE LET ready == IF Fits(units, acc.open, i) THEN acc ELSE Flushed(units, acc)
       IN [ready EXCEPT !.open = Append(@, i)]

\* What the first n units have come to.
Grouping(units) ==
  LET grouped[n \in 0..Len(units)] ==
        IF n = 0 THEN [closed |-> <<>>, open |-> <<>>] ELSE Grouped(units, grouped[n - 1], n)
  IN grouped

\* Faulty variant: the block still open at the end is not closed.
SectionsOpen(units) == Grouping(units)[Len(units)].closed
Sections(units) == Flushed(units, Grouping(units)[Len(units)]).closed

IsForm(units, block) == \E i \in Range(block) : Atomic(units[i])

\* Forms and tables of one named part are put together, with the few words before them.
Merges(units, before, block) ==
  /\ subject.parted /\ IsForm(units, block)
  /\ IsForm(units, before) \/ Words(units, before) <= FewWords
  /\ Words(units, before) + Words(units, block) <= BlockSize
Put(units, done, block) ==
  IF done # <<>> /\ Merges(units, Last(done), block)
  THEN Append(Front(done), Last(done) \o block) ELSE Append(done, block)
Blocks(units) ==
  LET sections == Sections(units)
      blocks[n \in 0..Len(sections)] ==
        IF n = 0 THEN <<>> ELSE Put(units, blocks[n - 1], sections[n])
  IN blocks[Len(sections)]

\* build_extraction_batches: in order, as many as the budget holds.
Size(units, batch) == FoldLeft(LAMBDA n, block : n + Words(units, block), 0, batch)
Pack(units, done, block) ==
  IF done # <<>> /\ Size(units, Last(done)) + Words(units, block) <= Budget
  THEN Append(Front(done), Append(Last(done), block)) ELSE Append(done, <<block>>)
Batches(units) ==
  LET blocks == Blocks(units)
      batches[n \in 0..Len(blocks)] ==
        IF n = 0 THEN <<>> ELSE Pack(units, batches[n - 1], blocks[n])
  IN batches[Len(blocks)]

-----------------------------------------------------------------------------
(* The calls.  work.batches are still to be sent, work.alone are blocks of *)
(* a batch that failed, read is what the model answered for.               *)

Unstarted == [at |-> "start", batches |-> <<>>, alone |-> <<>>, read |-> {}, gaps |-> {}, mode |-> "schema"]
ExtractionInit ==
  /\ \E n \in 0..UnitBound : \E units \in [1..n -> Units], parted, lacking \in BOOLEAN,
        wants \in {"checklist", "values"} :
       subject = [units |-> units, parted |-> parted, lacking |-> lacking, wants |-> wants]
  /\ work = Unstarted

\* What a checklist lacks is recorded as a gap; values are drawn from what there is.
Gap(gaps, block) == IF subject.wants = "checklist" THEN gaps \union {block} ELSE gaps

Convert ==
  /\ work.at = "start"
  /\ \E failed \in BOOLEAN : work' =
       [work EXCEPT !.at = "calls",
          !.batches = IF failed THEN <<>> ELSE Batches(subject.units),
          !.gaps = IF failed \/ subject.lacking \/ subject.units = <<>> THEN Gap(@, Missing) ELSE @]
  /\ UNCHANGED subject

Pending == work.at = "calls" /\ (work.batches # <<>> \/ work.alone # <<>>)

\* The provider refuses structured output, or the model answers prose: the client asks for
\* less from then on, and asks again.
AskForLess ==
  /\ Pending /\ work.mode # "text"
  /\ work' = [work EXCEPT !.mode = IF @ = "schema" THEN "object" ELSE "text"]
  /\ UNCHANGED subject

Calling == work.at = "calls" /\ work.alone = <<>> /\ work.batches # <<>>

ReadBatch ==
  /\ Calling
  /\ work' = [work EXCEPT !.batches = Tail(@), !.read = @ \union Range(Head(work.batches))]
  /\ UNCHANGED subject

\* An answer malformed twice, or a context that is too long after all: each block is sent on
\* its own, unless there was one.
BatchFails ==
  /\ Calling
  /\ work' = IF Len(Head(work.batches)) = 1
             THEN [work EXCEPT !.batches = Tail(@), !.gaps = Gap(@, Head(work.batches)[1])]
             ELSE [work EXCEPT !.batches = Tail(@), !.alone = Head(work.batches)]
  /\ UNCHANGED subject

ReadAlone ==
  /\ work.at = "calls" /\ work.alone # <<>>
  /\ work' = [work EXCEPT !.alone = Tail(@), !.read = @ \union {Head(work.alone)}]
  /\ UNCHANGED subject

\* Faulty variant: a block that fails on its own is passed over.
LeftOutSilently(x) == x.gaps
LeftOut(x) == Gap(x.gaps, Head(x.alone))
AloneFails ==
  /\ work.at = "calls" /\ work.alone # <<>>
  /\ work' = [work EXCEPT !.alone = Tail(@), !.gaps = LeftOut(work)]
  /\ UNCHANGED subject

\* A rate limit ends everything; so does any other error, but for that of a checklist's block
\* on its own, which AloneFails records.
Abort ==
  /\ Pending
  /\ work' = [Unstarted EXCEPT !.at = "aborted"]
  /\ UNCHANGED subject

Status == IF work.gaps = {} THEN "completed" ELSE "completed_with_gaps"
Finish ==
  /\ work.at = "calls" /\ work.batches = <<>> /\ work.alone = <<>>
  /\ work' = [work EXCEPT !.at = Status]
  /\ UNCHANGED subject

ExtractionNext == Convert \/ AskForLess \/ ReadBatch \/ BatchFails \/ ReadAlone \/ AloneFails \/ Abort \/ Finish
ExtractionSpec == ExtractionInit /\ [][ExtractionNext]_extractionVars

ExtractionTypeOK ==
  /\ \A i \in DOMAIN subject.units : subject.units[i] \in Units
  /\ work.at \in {"start", "calls", "aborted", "completed", "completed_with_gaps"}
  /\ work.mode \in Modes

-----------------------------------------------------------------------------
(* Properties.                                                             *)

Within(i, blocks) == \E block \in blocks : i \in Range(block)

\* A checklist is complete, or says where it is not: each unit with something to do in it was
\* sent to the model in a block that was answered, or lies in a block or a document listed as a
\* gap, and "completed" is a checklist without gaps.
ChecklistSaysWhatItLacks ==
  subject.wants = "checklist" /\ work.at \in {"completed", "completed_with_gaps"} =>
    /\ \A i \in DOMAIN subject.units : subject.units[i].kind # "na" =>
         Within(i, work.read) \/ Within(i, work.gaps) \/ Missing \in work.gaps
    /\ subject.lacking => work.at = "completed_with_gaps"
=============================================================================
