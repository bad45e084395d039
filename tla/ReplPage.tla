------------------------------ MODULE ReplPage ------------------------------
(***************************************************************************)
(* The REPL of the DevConsole: its page (devconsole/src/views/ReplView.vue)*)
(* with the box for code, the list of completions, the commands so far and *)
(* the results; and the process that evaluates and completes               *)
(* (src/devconsole/devconsole.ws.ts, handleReplEval, handleReplComplete).  *)
(*                                                                         *)
(* A code is a value of a small set, as what is evaluated is the           *)
(* application's.  An evaluation writes lines to its console, marked here  *)
(* with its number, and may go on when its request has failed.             *)
(***************************************************************************)
EXTENDS Integers, Sequences

CONSTANTS
    Code, Multiline,        \* what may be in the box, and what of it has several lines
    MaxItems,               \* completions offered (50)
    \* Bounds
    MaxCommands, MaxAsked   \* commands run, and completions asked for at a time

VARIABLES
    text,       \* the box; "" has nothing but blanks
    popup,      \* the completions: how many, and which is selected, from 0
    timer,      \* acDebounceTimer is set
    asked,      \* requests for completions in flight
    commands,   \* commandHistory
    recalled,   \* historyIndex, from 0; -1 is none
    running,
    results,    \* history: [code, lines, failed]
    evals,      \* the process: for each command [at, lines]
    online      \* the connection is established

vars == <<text, popup, timer, asked, commands, recalled, running, results, evals, online>>

NoPopup == [items |-> 0, selected |-> 0]
page   == <<text, popup, timer, asked, commands, recalled>>
result == <<running, results, evals>>

-----------------------------------------------------------------------------
(* Evaluation. *)

\* `capture` of the console that the function of this evaluation was given.
WriteLine(n) ==
    evals' = [evals EXCEPT ![n].lines = @ \cup {n}]

Goes(n, at) == evals' = [evals EXCEPT ![n].at = at]

Evaluate(n) ==
    /\ evals[n].at = "sent" /\ Goes(n, "evaluating")
    /\ UNCHANGED <<page, running, results, online>>

Log(n) ==
    /\ evals[n].at = "evaluating" /\ n \notin evals[n].lines /\ WriteLine(n)
    /\ UNCHANGED <<page, running, results, online>>

\* Its value, or what it throws, is on its way.
Evaluated(n) ==
    /\ evals[n].at = "evaluating" /\ \E end \in {"value", "error"} : Goes(n, end)
    /\ UNCHANGED <<page, running, results, online>>

\* The rest of run(), for the last command.
Shows(lines, failed) ==
    /\ results' = Append(results, [code |-> commands[Len(commands)], lines |-> lines, failed |-> failed])
    /\ running' = FALSE

Answered(n) ==
    /\ online /\ running /\ n = Len(commands) /\ evals[n].at \in {"value", "error"}
    /\ Shows(evals[n].lines, evals[n].at = "error") /\ Goes(n, "answered")
    /\ UNCHANGED <<page, online>>

\* The request expires; its evaluation goes on.
Expires ==
    /\ running /\ evals[Len(commands)].at # "waiting"
    /\ Shows({}, TRUE)
    /\ UNCHANGED <<page, evals, online>>

\* The connection goes, or comes; what was sent may have been lost.
Disconnected ==
    /\ online /\ online' = FALSE
    /\ LET n == Len(commands) IN
       IF running
       THEN /\ Shows({}, TRUE)
            /\ evals' \in {evals, IF evals[n].at = "sent" THEN [evals EXCEPT ![n].at = "lost"] ELSE evals}
       ELSE UNCHANGED result
    /\ UNCHANGED page

\* readyPromise: what invoke() was given while there was no connection is sent.
Connected ==
    /\ ~online /\ online' = TRUE
    /\ evals' = [n \in DOMAIN evals |-> IF evals[n].at = "waiting" THEN [evals[n] EXCEPT !.at = "sent"] ELSE evals[n]]
    /\ UNCHANGED <<page, running, results>>

-----------------------------------------------------------------------------
(* Completion. *)

Dismiss == popup' = NoPopup /\ timer' = FALSE

Requests == asked < MaxAsked /\ asked' = asked + 1

\* The 100 ms of triggerCompletionDebounced() are over.
Debounced ==
    /\ timer /\ timer' = FALSE /\ Requests
    /\ UNCHANGED <<text, popup, commands, recalled, result, online>>

\* A reply, whatever is in the box by now: some items, or none, which is what a failure shows too.
Completed ==
    /\ asked > 0 /\ asked' = asked - 1
    /\ \/ \E n \in 1..MaxItems : popup' = [items |-> n, selected |-> 0] /\ UNCHANGED timer
       \/ Dismiss
    /\ UNCHANGED <<text, commands, recalled, result, online>>

\* Slices at the offsets of the popup make some other text.
AcceptCompletion ==
    /\ popup.items > 0 /\ text' \in Code /\ Dismiss
    /\ UNCHANGED <<asked, commands, recalled, result, online>>

-----------------------------------------------------------------------------
(* Keys. *)

Open == popup.items > 0

Select(index) ==
    /\ Open /\ popup' = [popup EXCEPT !.selected = index]
    /\ UNCHANGED <<text, timer, asked, commands, recalled, result, online>>

Least(a, b) == IF a < b THEN a ELSE b

ArrowDown == Select((popup.selected + 1) % popup.items)
ArrowUp   == Select((popup.selected - 1 + popup.items) % popup.items)
PageDown  == Select(Least(popup.selected + 10, popup.items - 1))
PageUp    == Select(IF popup.selected > 10 THEN popup.selected - 10 ELSE 0)

Escape ==
    /\ Open /\ Dismiss
    /\ UNCHANGED <<text, asked, commands, recalled, result, online>>

\* Tab without a popup.
Complete ==
    /\ ~Open /\ Requests
    /\ UNCHANGED <<text, popup, timer, commands, recalled, result, online>>

\* Enter without a popup, or the button with or without one.
RunCode ==
    /\ text # "" /\ ~running /\ Len(commands) < MaxCommands
    /\ Dismiss /\ text' = "" /\ recalled' = -1
    /\ commands' = Append(commands, text) /\ running' = TRUE
    /\ evals' = Append(evals, [at |-> IF online THEN "sent" ELSE "waiting", lines |-> {}])
    /\ UNCHANGED <<asked, results, online>>

\* The arrows recall a command when no popup takes them and the box has one line.
Recalls(index) ==
    /\ ~Open /\ text \notin Multiline
    /\ recalled' = index /\ text' = IF index = -1 THEN "" ELSE commands[index + 1]
    /\ Dismiss
    /\ UNCHANGED <<asked, commands, result, online>>

Earlier ==
    /\ commands # <<>>
    /\ Recalls(IF recalled = -1 THEN Len(commands) - 1 ELSE IF recalled > 0 THEN recalled - 1 ELSE 0)

Later ==
    /\ recalled >= 0
    /\ Recalls(IF recalled + 1 >= Len(commands) THEN -1 ELSE recalled + 1)

\* A character of a name asks for completions, a deleted one if a popup is there; any other
\* closes the popup.
Type ==
    /\ text' \in Code \cup {""}
    /\ \/ UNCHANGED popup /\ timer' = TRUE
       \/ ~Open /\ UNCHANGED <<popup, timer>>
       \/ Open /\ Dismiss
    /\ UNCHANGED <<asked, commands, recalled, result, online>>

-----------------------------------------------------------------------------
Init ==
    /\ text = "" /\ popup = NoPopup /\ timer = FALSE /\ asked = 0
    /\ commands = <<>> /\ recalled = -1
    /\ running = FALSE /\ results = <<>> /\ evals = <<>>
    /\ online \in BOOLEAN

Next ==
    \/ \E n \in DOMAIN evals : Evaluate(n) \/ Log(n) \/ Evaluated(n) \/ Answered(n)
    \/ Expires \/ Disconnected \/ Connected
    \/ Debounced \/ Completed \/ AcceptCompletion
    \/ ArrowDown \/ ArrowUp \/ PageDown \/ PageUp \/ Escape \/ Complete
    \/ RunCode \/ Earlier \/ Later \/ Type

Spec == Init /\ [][Next]_vars

-----------------------------------------------------------------------------
(* Properties. *)

\* The page shows one result for each command, in order, also when requests expire, connections go
\* and an earlier evaluation still runs in the process; each has only lines that its own
\* evaluation has written (ReplView.vue, run; devconsole.ws.ts, handleReplEval).  A popup always
\* has the item that Enter would accept, and the arrows recall commands that there are.
EachItsOwn ==
    /\ Len(commands) = Len(results) + (IF running THEN 1 ELSE 0)
    /\ \A n \in DOMAIN results : results[n].code = commands[n] /\ results[n].lines \subseteq {n}
    /\ Open => popup.selected \in 0..(popup.items - 1)
    /\ recalled \in -1..(Len(commands) - 1)
=============================================================================
