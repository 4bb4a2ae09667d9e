------------------------------- MODULE Memory -------------------------------
(***************************************************************************)
(* Long-term memory: the shadow journaler (plugins/memory/file), which     *)
(* writes down what a finished turn told, in a goroutine of its own per    *)
(* turn (kernel/events); the consolidation pass                            *)
(* (plugins/trigger/memconsolidate), which reads the journal of the last   *)
(* days and rewrites MEMORY.md; and Apply, which reads MEMORY.md into the  *)
(* system prompt of the next runtime (kernel/memory).  What the models     *)
(* decide to write is free.                                                *)
(***************************************************************************)
EXTENDS Integers, Sequences, FiniteSets

CONSTANTS
  Facts,       \* what a conversation may tell
  Day,         \* ticks of a day; there is a journal file per day
  Behind,      \* ticks the local clock is behind UTC, negative east of Greenwich
  ReviewDays,  \* journalDaysToReview
  Shown,       \* lines of a file that fit maxJournalCharsPerFile
  Interval,    \* ticks between two passes
  MaxTime,     \* bound: clock
  MaxApplies,  \* bound: Applies
  MaxTurns     \* bound: turns that complete

VARIABLES
  now,       \* local time
  gateway,   \* where its one lifecycle goroutine is: "idle", "stopped", "built" or "down"
  applies,
  built,     \* facts of MEMORY.md in the prompt that Apply has just built
  known,     \* facts in the prompt of the current runtime
  longTerm,  \* facts in MEMORY.md
  made, rt,  \* shadow runtimes made so far, and Plugin.rt (0 for nil)
  closing,   \* runtimes a goroutine is about to close
  closes,    \* how often each was closed
  shadows,   \* the goroutines of the completed turns
  journal,   \* lines of all the files, in the order written
  next,      \* time of the ticker's next tick, 0 without a ticker
  pass,      \* the consolidation pass that holds the lane
  reviewed,  \* lines some pass has had in its prompt
  upset      \* time of the last restart of the ticker, skipped tick or failed pass

vars == <<now, gateway, applies, built, known, longTerm, made, rt, closing, closes,
          shadows, journal, next, pass, reviewed, upset>>
applyVars   == <<gateway, applies, built, known>>
runtimeVars == <<made, rt, closing, closes>>
passVars    == <<next, pass, reviewed, upset>>

\* intervalHours is free.
MemoryAssumption ==
  /\ Day \in Nat \ {0} /\ MaxApplies \in Nat \ {0} /\ Behind \in Int
  /\ {ReviewDays, Shown, Interval, MaxTime, MaxTurns} \subseteq Nat

NoPass == [at |-> "none", lines |-> {}, knows |-> {}]

\* The file remember writes to is named by the local date.
DayOf(t) == t \div Day

Init ==
  /\ now = 0 /\ gateway = "stopped" /\ applies = 0
  /\ built = {} /\ known = {} /\ longTerm = {}
  /\ made = 0 /\ rt = 0 /\ closing = {} /\ closes = [r \in 1..MaxApplies |-> 0]
  /\ shadows = <<>> /\ journal = <<>>
  /\ next = 0 /\ pass = NoPass /\ reviewed = {} /\ upset = 0

-----------------------------------------------------------------------------
(* Apply and Shutdown                                                      *)

\* A reload stops the triggers first: the ticker is gone, a pass goes on with its ctx cancelled.
StopTriggers ==
  /\ gateway = "idle" /\ applies < MaxApplies
  /\ gateway' = "stopped" /\ next' = 0 /\ upset' = now
  /\ UNCHANGED <<now, applies, built, known, longTerm, runtimeVars, shadows, journal, pass, reviewed>>

\* buildSysPrompt; the Registry skips a source it cannot read within its budget.
BuildPrompt ==
  /\ gateway = "stopped"
  /\ gateway' = "built" /\ built' \in {longTerm, {}}
  /\ UNCHANGED <<now, applies, known, longTerm, runtimeVars, shadows, journal, passVars>>

\* Mutation of Adopt: a runtime that is replaced is not closed.
AdoptLeaks(new) ==
  /\ rt' = new /\ UNCHANGED closing

\* ConfigureTurnJournal puts a runtime in place and closes the last one beside it.
Adopt(new) ==
  /\ rt' = new /\ closing' = closing \cup ({rt} \ {0})

\* Reload drains the turns, a pass among them; the shadow runtime is rebuilt, switched off, or
\* left as it is when it cannot be built; the ticker starts anew, unless the pass is switched off
\* or another trigger does not start.
Reload ==
  /\ gateway = "built" /\ pass.at # "turn"
  /\ gateway' = "idle" /\ applies' = applies + 1 /\ known' = built
  /\ \/ made' = made + 1 /\ Adopt(made + 1)
     \/ UNCHANGED made /\ Adopt(0)
     \/ UNCHANGED <<made, rt, closing>>
  /\ next' \in {now + Interval, 0} /\ upset' = now
  /\ UNCHANGED <<now, built, longTerm, closes, shadows, journal, pass, reviewed>>

\* A step of Apply fails: the old runtime stays, the triggers stay stopped.
ApplyFails ==
  /\ gateway \in {"stopped", "built"} /\ 0 < applies /\ applies < MaxApplies
  /\ gateway' = "idle" /\ applies' = applies + 1
  /\ UNCHANGED <<now, built, known, longTerm, runtimeVars, shadows, journal, passVars>>

CloseOld ==
  \E r \in closing :
    /\ closing' = closing \ {r} /\ closes' = [closes EXCEPT ![r] = @ + 1]
    /\ UNCHANGED <<now, applyVars, longTerm, made, rt, shadows, journal, passVars>>

\* Mutation of Shutdown: Stop closes the runtime and keeps it.
ShutdownKeeps ==
  /\ gateway = "idle"
  /\ gateway' = "down" /\ next' = 0 /\ upset' = now
  /\ closes' = IF rt = 0 THEN closes ELSE [closes EXCEPT ![rt] = @ + 1]
  /\ UNCHANGED <<now, applies, built, known, longTerm, made, rt, closing, shadows, journal, pass, reviewed>>

\* Shutdown of the gateway with Plugin.Stop, after the last turn.
Shutdown ==
  /\ gateway = "idle"
  /\ gateway' = "down" /\ next' = 0 /\ upset' = now /\ rt' = 0
  /\ closes' = IF rt = 0 THEN closes ELSE [closes EXCEPT ![rt] = @ + 1]
  /\ UNCHANGED <<now, applies, built, known, longTerm, made, closing, shadows, journal, pass, reviewed>>

-----------------------------------------------------------------------------
(* Turns and their shadows                                                 *)

\* A conversation's turn completes; Publish starts the subscriber's goroutine.
TurnCompletes(f) ==
  /\ gateway # "down" /\ 0 < applies /\ Len(shadows) < MaxTurns
  /\ shadows' = Append(shadows, [fact |-> f, at |-> "event", rt |-> 0])
  /\ UNCHANGED <<now, applyVars, longTerm, runtimeVars, journal, passVars>>

\* onTurnCompleted takes the runtime under the lock and uses it without.
TakeRuntime(s) ==
  /\ shadows[s].at = "event"
  /\ shadows' = [shadows EXCEPT ![s].rt = rt, ![s].at = IF rt = 0 THEN "done" ELSE "search"]
  /\ UNCHANGED <<now, applyVars, longTerm, runtimeVars, journal, passVars>>

\* memory_search, over the day's file, then the model's decision.
Search(s) ==
  /\ shadows[s].at = "search" /\ closes[shadows[s].rt] = 0
  /\ LET today == {i \in DOMAIN journal : DayOf(journal[i].at) = DayOf(now)} IN
     \E to \in {"done"} \cup (IF \E i \in today : journal[i].fact = shadows[s].fact
                              THEN {} ELSE {"remember"}) :
       shadows' = [shadows EXCEPT ![s].at = to]
  /\ UNCHANGED <<now, applyVars, longTerm, runtimeVars, journal, passVars>>

\* remember appends to the file of the day.
Remember(s) ==
  /\ shadows[s].at = "remember" /\ closes[shadows[s].rt] = 0
  /\ journal' = Append(journal, [fact |-> shadows[s].fact, at |-> now])
  /\ shadows' = [shadows EXCEPT ![s].at = "done"]
  /\ UNCHANGED <<now, applyVars, longTerm, runtimeVars, passVars>>

\* Its timeout, an error, or a runtime closed under it.
ShadowFails(s) ==
  /\ shadows[s].at \in {"search", "remember"}
  /\ shadows' = [shadows EXCEPT ![s].at = "done"]
  /\ UNCHANGED <<now, applyVars, longTerm, runtimeVars, journal, passVars>>

-----------------------------------------------------------------------------
(* The consolidation pass                                                  *)

\* buildPrompt parses the name as a UTC date: the file's time is midnight there, Behind ticks
\* before it is midnight here. ReviewDays later the file leaves the window.
Leaves(i) == DayOf(journal[i].at) * Day - Behind + ReviewDays * Day

\* Mutation of InReview: the day that is just ReviewDays old is left out.
InReviewLess(i) == now < Leaves(i)

InReview(i) == now <= Leaves(i)

\* What exceeds the limit of a file is cut off its end.
Fits(i) ==
  Cardinality({j \in 1..i : DayOf(journal[j].at) = DayOf(journal[i].at)}) <= Shown

\* The tick finds the lane free and starts a pass over the files it can read; without lines
\* there is none.
Tick ==
  LET files == {DayOf(journal[i].at) : i \in {j \in DOMAIN journal : InReview(j)}} IN
  /\ next # 0 /\ now = next
  /\ next' = now + Interval
  /\ IF pass.at # "none" THEN upset' = now /\ UNCHANGED pass
     ELSE \E read \in SUBSET files :
            LET lines == {i \in DOMAIN journal : InReview(i) /\ Fits(i) /\ DayOf(journal[i].at) \in read} IN
            /\ pass' = IF lines = {} THEN NoPass ELSE [at |-> "prompt", lines |-> lines, knows |-> {}]
            /\ upset' = IF read = files THEN upset ELSE now
  /\ UNCHANGED <<now, applyVars, longTerm, runtimeVars, shadows, journal, reviewed>>

\* RunTurn gets in: its runtime has the prompt of the last Apply.
PassBegins ==
  /\ pass.at = "prompt"
  /\ pass' = [pass EXCEPT !.at = "turn", !.knows = known]
  /\ UNCHANGED <<now, applyVars, longTerm, runtimeVars, shadows, journal, next, reviewed, upset>>

\* The model leaves MEMORY.md alone, or rewrites the whole of it with what it has in its context.
PassEnds ==
  /\ pass.at = "turn"
  /\ reviewed' = reviewed \cup pass.lines /\ pass' = NoPass
  /\ LET told == {journal[i].fact : i \in pass.lines} IN
     longTerm' \in {longTerm} \cup {pass.knows \cup more : more \in SUBSET told}
  /\ UNCHANGED <<now, applyVars, runtimeVars, shadows, journal, next, upset>>

\* Its turn fails, or its ctx was cancelled by Stop.
PassFails ==
  /\ pass.at \in {"prompt", "turn"}
  /\ pass' = NoPass /\ upset' = now
  /\ UNCHANGED <<now, applyVars, longTerm, runtimeVars, shadows, journal, next, reviewed>>

Clock ==
  /\ now < MaxTime /\ (next # 0 => now < next)
  /\ now' = now + 1
  /\ UNCHANGED <<applyVars, longTerm, runtimeVars, shadows, journal, passVars>>

Next ==
  \/ StopTriggers \/ BuildPrompt \/ Reload \/ ApplyFails \/ CloseOld \/ Shutdown
  \/ \E f \in Facts : TurnCompletes(f)
  \/ \E s \in DOMAIN shadows : TakeRuntime(s) \/ Search(s) \/ Remember(s) \/ ShadowFails(s)
  \/ Tick \/ PassBegins \/ PassEnds \/ PassFails \/ Clock

Spec == Init /\ [][Next]_vars

-----------------------------------------------------------------------------
TypeOK ==
  /\ now \in 0..MaxTime /\ applies \in 0..MaxApplies /\ made \in 0..MaxApplies /\ rt \in 0..made
  /\ gateway \in {"idle", "stopped", "built", "down"}
  /\ built \cup known \cup longTerm \subseteq Facts /\ closing \subseteq 1..made
  /\ \A s \in DOMAIN shadows : shadows[s].at \in {"event", "search", "remember", "done"}
  /\ \A i \in DOMAIN journal : journal[i].fact \in Facts /\ journal[i].at <= now
  /\ pass.at \in {"none", "prompt", "turn"} /\ pass.lines \cup reviewed \subseteq DOMAIN journal

(* Every shadow runtime is in use, about to be closed, or closed once:     *)
(* whatever an Apply replaces, switches off or fails to build, and after   *)
(* Stop none is left.                                                      *)
ShadowsAreClosedOnce ==
  /\ \A r \in 1..made :
       closes[r] = (IF r \in closing \/ r = rt THEN 0 ELSE 1)
  /\ rt \notin closing
  /\ gateway = "down" => rt = 0

(* What was written in the journal, within the limit of its file and an    *)
(* Interval before its day leaves the window, comes before a pass by then, *)
(* unless since then the ticker was restarted, a tick skipped, a file not  *)
(* read or a pass failed (buildPrompt).                                    *)
ReviewedInTime ==
  \A i \in DOMAIN journal :
    /\ ~InReview(i) /\ Fits(i) /\ next # 0 /\ upset <= journal[i].at
    /\ journal[i].at + Interval <= Leaves(i)
    => i \in reviewed \cup pass.lines

(* The journaler's runtimes, and the journal before the consolidation.     *)
MemoryIsLookedAfter == TypeOK /\ ShadowsAreClosedOnce /\ ReviewedInTime

(* docs/guides/memory.md: one file "per UTC date", so that an interval of  *)
(* up to ReviewDays - 1 days leaves no line out. It fails west of UTC, as  *)
(* the dates are local ones: no run checks it.                             *)
EveryLineIsReviewed ==
  \A i \in DOMAIN journal :
    ~InReview(i) /\ Fits(i) /\ next # 0 /\ upset <= journal[i].at => i \in reviewed \cup pass.lines

(* docs/guides/workspace.md:68 says MEMORY.md is "promoted to the system   *)
(* prompt at every turn", and the pass is told that its current content is *)
(* "already in your context above" (memconsolidate/plugin.go): it may      *)
(* rewrite the whole file.  It fails: the prompt is the one of the last    *)
(* Apply, so a pass may drop what the one before it promoted; no run       *)
(* checks it.                                                              *)
PassesKnowTheMemory == pass.at = "turn" => longTerm \subseteq pass.knows

(* "Calls remember only for net-new information" (docs/guides/memory.md):  *)
(* it fails, as two shadows may both search before either remembers.       *)
NothingTwiceADay ==
  \A i, j \in DOMAIN journal :
    i # j /\ journal[i].fact = journal[j].fact => DayOf(journal[i].at) # DayOf(journal[j].at)
=============================================================================
