---------------------------- MODULE SmartStatus ----------------------------
(***************************************************************************)
(* ui/terminal/smart_status.go: the status line and the table of running   *)
(* actions on a terminal.  Status calls StartAction, FinishAction, Message *)
(* and Flush one at a time, the logger calls Write, a ticker redraws the   *)
(* table every second and a handler on SIGWINCH; they share s.lock.  All   *)
(* but Flush hold the lock for one step.                                   *)
(***************************************************************************)
EXTENDS Integers, Sequences, FiniteSets, SequencesExt

CONSTANTS Actions,
          TableMode,    \* SOONG_UI_TABLE_HEIGHT > 0
          MaxHeight     \* bound: requestedTableHeight

ASSUME SmartAssumption == TableMode \in BOOLEAN /\ MaxHeight \in Nat \ {0}

VARIABLES running,   \* runningActions
          life,      \* of each action: "new", "started" or "ended"
          line,      \* the last line on the screen: "blank", "status" or "mixed"
          blank,     \* haveBlankLine
          shown,     \* the rows of the table
          height,    \* tableHeight
          margins,   \* does the table have its own region of the screen?
          locked,    \* Flush holds s.lock
          flush,     \* "no", "stopTick" (sends on s.done) or "flushed"
          ticker,    \* its goroutine: "select", "lock" or "end"
          tick,      \* a value is in ticker.C
          winch      \* the handler's goroutine: "receive", "lock" or "end"

screen == <<line, blank, shown, height, margins>>
routines == <<ticker, tick, winch>>
vars == <<running, life, screen, locked, flush, routines>>

\* The rows that fit.
Top(s, n) == SubSeq(s, 1, IF Len(s) < n THEN Len(s) ELSE n)

Init ==
  /\ running = <<>> /\ life = [a \in Actions |-> "new"] /\ line = "blank" /\ blank = TRUE
  /\ height \in 0 .. MaxHeight
  /\ shown = <<>> /\ margins = TableMode
  /\ locked = FALSE /\ flush = "no"
  /\ ticker = IF TableMode THEN "select" ELSE "end"
  /\ tick = FALSE /\ winch = "receive"

-----------------------------------------------------------------------------
\* statusLine overwrites the last line; print clears a status first.
StatusLine == line' = "status" /\ blank' = FALSE
PrintLine == line' = (IF blank /\ line # "blank" THEN "mixed" ELSE "blank") /\ blank' = TRUE

StartAction(a) ==
  /\ flush = "no" /\ ~locked /\ life[a] = "new"
  /\ running' = Append(running, a)
  /\ life' = [life EXCEPT ![a] = "started"]
  /\ StatusLine
  /\ UNCHANGED <<shown, height, margins, locked, flush, routines>>

\* The entry of the action is removed; then the status, and below it the output
\* if there is any.
MutRemoved(a) == Tail(running)
Removed(a) == SelectSeq(running, LAMBDA b : b # a)

FinishAction(a) ==
  /\ flush = "no" /\ ~locked /\ life[a] = "started"
  /\ running' = Removed(a)
  /\ life' = [life EXCEPT ![a] = "ended"]
  /\ \/ StatusLine
     \/ line' = "blank" /\ blank' = TRUE
  /\ UNCHANGED <<shown, height, margins, locked, flush, routines>>

\* Message above the status level, or Write: the logger writes after Flush too.
Message ==
  /\ ~locked
  /\ PrintLine
  /\ UNCHANGED <<running, life, shown, height, margins, locked, flush, routines>>

StatusMessage ==
  /\ flush = "no" /\ ~locked
  /\ StatusLine
  /\ UNCHANGED <<running, life, shown, height, margins, locked, flush, routines>>

\* Flush takes the lock, stops SIGWINCH, ends the status line and clears the
\* running actions; in table mode it then stops the ticker, still with the lock.
Flush ==
  /\ flush = "no" /\ ~locked
  /\ winch' = IF winch = "receive" THEN "end" ELSE winch
  /\ line' = "blank" /\ blank' = TRUE
  /\ running' = <<>>
  /\ flush' = IF TableMode THEN "stopTick" ELSE "flushed"
  /\ locked' = TableMode
  /\ UNCHANGED <<life, shown, height, margins, ticker, tick>>

\* The ticker's goroutine receives from s.done; Flush clears the table, gives
\* the screen back and releases the lock.
StopTick ==
  /\ flush = "stopTick" /\ ticker = "select"
  /\ ticker' = "end"
  /\ shown' = Top(running, height) /\ margins' = FALSE
  /\ flush' = "flushed" /\ locked' = FALSE
  /\ UNCHANGED <<running, life, line, blank, height, tick, winch>>

-----------------------------------------------------------------------------
\* The ticker has room for one tick, until Flush stops it.
Tick ==
  /\ TableMode /\ flush = "no" /\ ~tick
  /\ tick' = TRUE
  /\ UNCHANGED <<running, life, screen, locked, flush, ticker, winch>>

TakeTick ==
  /\ ticker = "select" /\ tick
  /\ ticker' = "lock" /\ tick' = FALSE
  /\ UNCHANGED <<running, life, screen, locked, flush, winch>>

MutTickTable ==
  /\ ticker = "lock" /\ ~locked
  /\ ticker' = "select"
  /\ UNCHANGED <<running, life, screen, locked, flush, tick, winch>>

TickTable ==
  /\ ticker = "lock" /\ ~locked
  /\ shown' = Top(running, height) /\ margins' = TRUE
  /\ ticker' = "select"
  /\ UNCHANGED <<running, life, line, blank, height, locked, flush, tick, winch>>

\* A SIGWINCH reaches the handler if it is receiving; updateTermSize and the
\* table follow when it has the lock, and it receives again until the channel
\* is closed.
Sigwinch ==
  /\ winch = "receive" /\ flush = "no"
  /\ winch' = "lock"
  /\ UNCHANGED <<running, life, screen, locked, flush, ticker, tick>>

Resized ==
  /\ winch = "lock" /\ ~locked
  /\ winch' = IF flush = "no" THEN "receive" ELSE "end"
  /\ height' \in 0 .. MaxHeight
  /\ IF TableMode THEN shown' = Top(running, height') /\ margins' = TRUE ELSE UNCHANGED <<shown, margins>>
  /\ UNCHANGED <<running, life, line, blank, locked, flush, ticker, tick>>

Next ==
  \/ \E a \in Actions : StartAction(a) \/ FinishAction(a)
  \/ Message \/ StatusMessage \/ Flush \/ StopTick
  \/ Tick \/ TakeTick \/ TickTable \/ Sigwinch \/ Resized

\* Goroutines run, the clock ticks, and Flush, once it has begun, goes on.
Fairness ==
  /\ WF_vars(StopTick) /\ WF_vars(Tick) /\ WF_vars(TakeTick) /\ WF_vars(TickTable) /\ WF_vars(Resized)

Spec == Init /\ [][Next]_vars
FairSpec == Spec /\ Fairness

-----------------------------------------------------------------------------
\* Type invariant.
TypeOK ==
  /\ Range(running) \cup Range(shown) \subseteq Actions
  /\ height \in 0 .. MaxHeight /\ Len(shown) <= MaxHeight
  /\ line \in {"blank", "status", "mixed"} /\ flush \in {"no", "stopTick", "flushed"}

\* Until Flush, runningActions has the actions that were started and have not
\* finished, each once, in whatever order FinishAction removes them.
RunningExact ==
  flush = "no" => /\ IsInjective(running)
                  /\ Range(running) = {a \in Actions : life[a] = "started"}

\* No message is put behind the status that is on the line, and none is
\* overwritten: haveBlankLine tells what is on the screen.
BlankLineTracked == line # "mixed" /\ (blank <=> line = "blank")

\* The ticker catches up: an action that stays among the first runningActions
\* that fit in tableHeight gets a row of the table.
ShownInTime ==
  \A a \in Actions :
    Contains(Top(running, height), a)
      ~> Contains(shown, a) \/ ~Contains(Top(running, height), a)

\* Flush returns once it has begun to stop the ticker.  status.go: "Finish will
\* call Flush on all the outputs, generally flushing or closing all of their
\* outputs".
FlushReturns == flush = "stopTick" ~> flush = "flushed"

\* After Flush no redraw gives the table its own region again.  smart_status.go:
\* "Reset the scrolling region to the whole terminal".
MarginsReset == flush = "flushed" => ~margins
=============================================================================
