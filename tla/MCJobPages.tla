----------------------------- MODULE MCJobPages -----------------------------
(* Of each tool an end that passes and one that does not; two jobs of a    *)
(* kind, which share its file; sounds of two rates, and one that is        *)
(* missing.                                                                *)
EXTENDS JobPages, Integers

MCResult(itself, code, late) ==
  [exited |-> itself, code |-> code, timed_out |-> late, error |-> FALSE]
MCOk == MCResult(TRUE, 0, FALSE)
MCLate == MCResult(FALSE, -1, TRUE)
MCSummary(good, bad) == [passed |-> good, failed |-> bad, untrustworthy |-> bad]
MCDoc(errors, bandwidth) ==
  [json |-> TRUE, job |-> TRUE, errors |-> errors, bandwidth |-> bandwidth]

MCJobEnds ==
  [CPU |-> {[process |-> MCOk, events |-> TRUE], [process |-> MCLate, events |-> TRUE]},
   MEM |-> {[process |-> MCOk, summary |-> MCSummary(2, 0), yaml |-> "first"],
            [process |-> MCLate, summary |-> MCSummary(2, -1), yaml |-> "none"]},
   SD |-> {[process |-> MCOk, doc |-> MCDoc(0, TRUE)],
           [process |-> MCResult(TRUE, 1, FALSE), doc |-> MCDoc(5, FALSE)]}]
MCJobTours == {<<"MEM", "MEM">>, <<"SD", "SD">>, <<"CPU">>}
MCClip(frames, rate) == [frames |-> frames, rate |-> rate]
MCClips == <<MCClip(0, 0), MCClip(3, 1), MCClip(1, 1), MCClip(2, 2)>>
MCFile(name, part, size) ==
  [run |-> [name |-> name, collision |-> 0], part |-> part, size |-> size]
MCOldFiles == {<<MCFile("a", 1, 4), MCFile("b", 0, 7), MCFile("a", 0, 2)>>}
MCDefaults ==
  [kind |-> "fields", language |-> "en", sounds |-> "on", baud |-> "9600",
   segment |-> 2, directory |-> 4]
MCFoundFiles ==
  {[MCDefaults EXCEPT !.kind = k] : k \in {"none", "malformed", "other schema"}} \cup
  {[MCDefaults EXCEPT !.sounds = "bad", !.segment = 5],
   [MCDefaults EXCEPT !.language = "zh_CN", !.directory = 0]}
=============================================================================
