--------------------------- MODULE SessionJournal ---------------------------
(***************************************************************************)
(* What the full-test session store promises to a reader of its files:     *)
(* an append-only journal of sessions, of which only the newest may        *)
(* change, and only while it is in progress; a judged test stays judged;   *)
(* and a session is closed together with the report of its own verdicts.   *)
(* SessionManager implements it, whatever writes fail and wherever the     *)
(* program stops (property Journal of SessionManager).                     *)
(***************************************************************************)
EXTENDS Naturals, Sequences

CONSTANTS NoReport   (* a session whose report was never written            *)

VARIABLE journal

Outcomes == {"PASS", "FAIL"}
Unjudged == "NONE"

AllJudged(vs) == \A i \in DOMAIN vs : vs[i] \in Outcomes

Report(vs) ==
  [status   |-> IF \A i \in DOMAIN vs : vs[i] = "PASS" THEN "PASS" ELSE "FAIL",
   verdicts |-> vs]

Newest == journal[Len(journal)]
Open   == Len(journal) > 0 /\ Newest.phase = "IN_PROGRESS"

Fresh(n) ==
  [phase |-> "IN_PROGRESS", verdicts |-> [i \in 1..n |-> Unjudged],
   report |-> NoReport]

(* The journal after the newest session was given up.                      *)
GivenUp == [journal EXCEPT ![Len(journal)].phase = "ABANDONED"]

GiveUp == Open /\ journal' = GivenUp

(* A new session, after giving up the open one or beside it.               *)
Begin(n) ==
  /\ n > 0
  /\ \/ journal' = Append(journal, Fresh(n))
     \/ Open /\ journal' = Append(GivenUp, Fresh(n))

(* From verdicts old to new: what is judged may be judged again, never     *)
(* unjudged.                                                               *)
Judges(old, new) ==
  /\ DOMAIN new = DOMAIN old
  /\ \A i \in DOMAIN old : new[i] # old[i] => new[i] \in Outcomes

(* The open session moves on: it may stay open, with a report only of      *)
(* verdicts that are all there, or close with the report of its verdicts.  *)
Progress(e) ==
  /\ Open
  /\ Judges(Newest.verdicts, e.verdicts)
  /\ \/ e.phase = "IN_PROGRESS" /\ e.report = Newest.report
     \/ /\ e.phase \in {"IN_PROGRESS", "COMPLETED"}
        /\ AllJudged(e.verdicts)
        /\ e.report = Report(e.verdicts)
  /\ journal' = [journal EXCEPT ![Len(journal)] = e]

JInit == journal = <<>>

JNext ==
  \/ GiveUp
  \/ Len(journal') > 0 /\ Begin(Len(journal'[Len(journal')].verdicts))
  \/ Open /\ Progress(journal'[Len(journal)])

JSpec == JInit /\ [][JNext]_journal

=============================================================================
