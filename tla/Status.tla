------------------------------- MODULE Status -------------------------------
(***************************************************************************)
(* ui/status/status.go: Status adds up the counts of the tools (ninja,     *)
(* kati, commands, products).  A tool's counts and the sums have a lock    *)
(* each; a call updates the tool's counts, releases that lock, and then    *)
(* updates the sums and calls the outputs.  Several goroutines may start   *)
(* and finish actions of one tool; only one sets its total, and not        *)
(* while others start actions (multiproduct_kati, the readers of ninja's   *)
(* and kati's output).                                                     *)
(***************************************************************************)
EXTENDS Integers, FiniteSets, FiniteSetsExt

CONSTANTS Tools,
          Callers,     \* the goroutines
          ToolOf,      \* the tool each of them reports to
          MaxTotal,    \* bound: the argument of SetTotalActions
          MaxStarted   \* bound: actions of a tool

ASSUME StatusAssumption == ToolOf \in [Callers -> Tools] /\ MaxTotal \in Nat /\ MaxStarted \in Nat

VARIABLES tool,        \* each tool's [total, started, finished] and whether Finish was called
          counts,      \* the sums
          pc,          \* what each caller is about to do to the sums
          diff,        \* its update of the total
          running      \* how many actions each caller has started and not finished

vars == <<tool, counts, pc, diff, running>>

Init ==
  /\ tool = [t \in Tools |-> [total |-> 0, started |-> 0, finished |-> 0, done |-> FALSE]]
  /\ counts = [total |-> 0, started |-> 0, finished |-> 0, running |-> 0]
  /\ pc = [c \in Callers |-> "idle"]
  /\ diff = [c \in Callers |-> 0]
  /\ running = [c \in Callers |-> 0]

Others(c) == {d \in Callers \ {c} : ToolOf[d] = ToolOf[c]}
Calls(c) == pc[c] = "idle" /\ ~tool[ToolOf[c]].done
\* No other goroutine of the tool is in a call, or will be before this one ends.
Alone(c) == \A d \in Others(c) : pc[d] = "idle"
NoneAlone(c) == \A d \in Others(c) : pc[d] # "setTotal"

\* The tool's part of SetTotalActions; a total below the started actions is ignored.
MutAccepted(total, t) == total # t.total
Accepted(total, t) == total >= t.started /\ total # t.total

SetTotalActions(c, total) ==
  LET t == ToolOf[c] IN
  /\ Calls(c) /\ Alone(c) /\ Accepted(total, tool[t])
  /\ tool' = [tool EXCEPT ![t].total = total]
  /\ diff' = [diff EXCEPT ![c] = total - tool[t].total]
  /\ pc' = [pc EXCEPT ![c] = "setTotal"]
  /\ UNCHANGED <<counts, running>>

\* The tool's part of StartAction; it raises the total if it must.
StartAction(c) ==
  LET t == ToolOf[c]
      n == tool[t].started + 1
  IN
  /\ Calls(c) /\ NoneAlone(c) /\ n <= MaxStarted
  /\ tool' = [tool EXCEPT ![t].started = n, ![t].total = IF n > @ THEN n ELSE @]
  /\ diff' = [diff EXCEPT ![c] = tool'[t].total - tool[t].total]
  /\ pc' = [pc EXCEPT ![c] = IF diff'[c] # 0 THEN "raiseTotal" ELSE "start"]
  /\ UNCHANGED <<counts, running>>

\* The tool's part of FinishAction, for an action that this caller started.
FinishAction(c) ==
  /\ Calls(c) /\ NoneAlone(c) /\ running[c] > 0
  /\ tool' = [tool EXCEPT ![ToolOf[c]].finished = @ + 1]
  /\ pc' = [pc EXCEPT ![c] = "finish"]
  /\ UNCHANGED <<counts, diff, running>>

\* Status.updateTotalActions.
MutUpdateTotalActions(c) ==
  /\ pc[c] \in {"setTotal", "raiseTotal"}
  /\ counts' = [counts EXCEPT !.total = IF diff[c] > 0 THEN @ + diff[c] ELSE @]
  /\ diff' = [diff EXCEPT ![c] = 0]
  /\ pc' = [pc EXCEPT ![c] = IF @ = "setTotal" THEN "idle" ELSE "start"]
  /\ UNCHANGED <<tool, running>>

UpdateTotalActions(c) ==
  /\ pc[c] \in {"setTotal", "raiseTotal"}
  /\ counts' = [counts EXCEPT !.total = @ + diff[c]]
  /\ diff' = [diff EXCEPT ![c] = 0]
  /\ pc' = [pc EXCEPT ![c] = IF @ = "setTotal" THEN "idle" ELSE "start"]
  /\ UNCHANGED <<tool, running>>

\* Status.startAction: the outputs see these counts.
StatusStart(c) ==
  /\ pc[c] = "start"
  /\ counts' = [counts EXCEPT !.running = @ + 1, !.started = @ + 1]
  /\ running' = [running EXCEPT ![c] = @ + 1]
  /\ pc' = [pc EXCEPT ![c] = "idle"]
  /\ UNCHANGED <<tool, diff>>

\* Status.finishAction.
StatusFinish(c) ==
  /\ pc[c] = "finish"
  /\ counts' = [counts EXCEPT !.running = @ - 1, !.finished = @ + 1]
  /\ running' = [running EXCEPT ![c] = @ - 1]
  /\ pc' = [pc EXCEPT ![c] = "idle"]
  /\ UNCHANGED <<tool, diff>>

\* toolStatus.Finish, which takes the second lock inside the first.  A tool
\* may finish although actions still run: ninja was killed.
Finish(c) ==
  LET t == ToolOf[c] IN
  /\ Calls(c) /\ Alone(c)
  /\ counts' = [counts EXCEPT !.total = @ + tool[t].started - tool[t].total]
  /\ tool' = [tool EXCEPT ![t].total = tool[t].started, ![t].done = TRUE]
  /\ UNCHANGED <<pc, diff, running>>

Next ==
  \E c \in Callers :
    \/ \E total \in 0 .. MaxTotal : SetTotalActions(c, total)
    \/ StartAction(c) \/ FinishAction(c) \/ Finish(c)
    \/ UpdateTotalActions(c) \/ StatusStart(c) \/ StatusFinish(c)

Spec == Init /\ [][Next]_vars

-----------------------------------------------------------------------------
SumOver(field(_)) == MapThenSumSet(field, Tools)

\* Type invariant; no count is negative.
TypeOK ==
  /\ \A t \in Tools : tool[t].total \in Nat /\ tool[t].finished \in 0 .. tool[t].started
  /\ counts \in [total : Nat, started : Nat, finished : Nat, running : Nat]

\* "TotalActions ... should never go below the number of StartedActions", in
\* the counts that the outputs are given, whatever is between the two locks.
TotalNotBelowStarted == counts.total >= counts.started

\* When no call is under way, the sums are the sums of the tools' counts, the
\* finished tools included.
SumsExact ==
  (\A c \in Callers : pc[c] = "idle") =>
    /\ counts.total = SumOver(LAMBDA t : tool[t].total)
    /\ counts.started = SumOver(LAMBDA t : tool[t].started)
    /\ counts.finished = SumOver(LAMBDA t : tool[t].finished)
    /\ counts.running = counts.started - counts.finished

\* When all tools have finished, the progress is complete: all that was
\* expected was started.
ProgressComplete ==
  (\A t \in Tools : tool[t].done) /\ (\A c \in Callers : pc[c] = "idle") => counts.total = counts.started
=============================================================================
