------------------------------- MODULE Feedback -------------------------------
(***************************************************************************)
(* Reports of customers (feedback.ts): a line each in an append-only file, *)
(* with a picture in a directory beside it.  A report is added by writing  *)
(* the picture under a temporary name, renaming it and appending the line; *)
(* a status or a deletion rewrites the file and replaces it by a rename.   *)
(* The process may end, or a write fail, at each of these steps.           *)
(*                                                                         *)
(* A line appended to one that was cut short continues it: neither can be  *)
(* read afterwards.  Reports are numbered in the order of their attempts.  *)
(* wrote, cut, acked and deleted are history: the attempts that reached    *)
(* the file, those of them without their line end, the reports the         *)
(* customer was told are stored, and those an operator deleted.            *)
(***************************************************************************)
EXTENDS Naturals, Sequences, FiniteSets, FiniteSetsExt, SequencesExt

CONSTANTS
    Licences,
    MaxRows, MaxOwn,              \* reports of the Hub, of one licence
    MaxPictures, MaxOwnPictures,  \* pictures of the Hub, of one licence
    MaxReports                    \* bound

VARIABLES
    lines,      \* the file: [id, reads, ended], the pieces of a line as one
    files,      \* the attachments directory: reports with a picture or a temporary
    report,     \* number -> [owner, pic]
    wrote, cut, acked, deleted

feedbackVars == <<lines, files, report, wrote, cut, acked, deleted>>

Init ==
    /\ lines = <<>> /\ files = {} /\ report = <<>>
    /\ wrote = {} /\ cut = {} /\ acked = {} /\ deleted = {}

\* What a reader lists: lines that cannot be read are passed over.
Readable == SelectSeq(lines, LAMBDA l : l.reads)
Rows == {l.id : l \in ToSet(Readable)}
Of(who) == {n \in Rows : report[n].owner = who}

\* The directory is counted as it is on disk, a licence's share as recorded.
Pictures(rows) == {n \in rows : report[n].pic}

\* A mistake: only pictures of listed reports count towards the limit.
StoredListed == Pictures(Rows)

Stored == files

Room(who, pic) ==
    /\ Cardinality(Rows) < MaxRows /\ Cardinality(Of(who)) < MaxOwn
    /\ pic => /\ Cardinality(Stored) < MaxPictures
              /\ Cardinality(Pictures(Of(who))) < MaxOwnPictures

\* What reaches the file of a line: nothing, a part, all but its end, all.
Reaches == {"none", "part", "bare", "whole"}

Appended(n, much) ==
    CASE much = "none" -> lines
      [] lines # <<>> /\ ~Last(lines).ended ->
           Append(Front(lines), [id |-> n, reads |-> FALSE, ended |-> much = "whole"])
      [] OTHER ->
           Append(lines, [id |-> n, reads |-> much # "part", ended |-> much = "whole"])

\* One attempt, as far as its line and its picture got.
Attempted(who, pic, much, left) ==
    LET n == Len(report) + 1
    IN  /\ n <= MaxReports /\ Room(who, pic)
        /\ report' = Append(report, [owner |-> who, pic |-> pic])
        /\ lines' = Appended(n, much)
        /\ files' = IF left THEN files \cup {n} ELSE files
        /\ wrote' = IF much = "none" THEN wrote ELSE wrote \cup {n}
        /\ cut' = IF much \in {"part", "bare"} THEN cut \cup {n} ELSE cut
        /\ UNCHANGED deleted

\* Picture and line are in place before the customer is told.
Store(who, pic) ==
    /\ Attempted(who, pic, "whole", pic)
    /\ acked' = acked \cup {Len(report')}

\* A write fails, and takes the picture away if it can, or the process ends.
\* The line may be in the file all the same, also with its picture gone.
StoreFails(who, pic) ==
    /\ \E much \in Reaches, left \in {FALSE, pic} : Attempted(who, pic, much, left)
    /\ UNCHANGED acked

Rewritten(rows) ==
    [i \in 1..Len(rows) |-> [id |-> rows[i].id, reads |-> TRUE, ended |-> TRUE]]

SetStatus(n) ==
    /\ n \in Rows
    /\ lines' = Rewritten(Readable)
    /\ UNCHANGED <<files, report, wrote, cut, acked, deleted>>

\* The file first, then the pictures, as far as they can be removed.
Delete(kill, unlinked) ==
    /\ kill # {} /\ kill \subseteq Rows /\ unlinked \subseteq kill
    /\ lines' = Rewritten(SelectSeq(Readable, LAMBDA l : l.id \notin kill))
    /\ files' = files \ unlinked
    /\ deleted' = deleted \cup kill
    /\ UNCHANGED <<report, wrote, cut, acked>>

Next ==
    \/ \E who \in Licences, pic \in BOOLEAN : Store(who, pic) \/ StoreFails(who, pic)
    \/ \E n \in Rows : SetStatus(n)
    \/ \E kill \in SUBSET Rows : \E unlinked \in SUBSET kill : Delete(kill, unlinked)

Spec == Init /\ [][Next]_feedbackVars

-----------------------------------------------------------------------------
\* A report the customer was told is stored stays listed with its picture until
\* an operator deletes it, unless the write just before it was cut short; a
\* deleted one does not come back; the directory never outgrows its limit,
\* whatever crashes left in it.
EvidenceIsKept ==
    /\ \A n \in (acked \ deleted) \ Rows :
         LET prior == {k \in wrote : k < n} IN prior # {} /\ Max(prior) \in cut
    /\ Pictures(acked \cap Rows) \subseteq files
    /\ deleted \cap Rows = {}
    /\ Cardinality(files) <= MaxPictures
=============================================================================
