--------------------------- MODULE ActionHistory ---------------------------
(***************************************************************************)
(* The usage history of app/src/ActionHistory.cpp, the file it is kept in, *)
(* and the part of app/src/App.cpp that records launches, prunes with each *)
(* configuration, and looks up the n-th recent or frequent action for      *)
(* items on worker threads.                                                *)
(*                                                                         *)
(* The GUI thread launches, applies configurations and saves.  A save      *)
(* opens its file truncated and then writes it, and the process may die in *)
(* between.  A worker's lookup takes the history's lock once per rank and  *)
(* keeps a pointer into the library.  Ids are numbers, so that the last    *)
(* tie-break of the frequency order has an order to use.                   *)
(***************************************************************************)
EXTENDS Naturals, Sequences, FiniteSets, Functions, Filter

CONSTANTS
  Actions,        \* ids
  Libraries,      \* the libraries the user configures: ids, and among them those
                  \* of helpers, which look up the history or cancel
  Fallback,       \* the library used when the configuration does not load
  MaxRecent,
  MaxUses,        \* bound on the launches recorded
  MaxRank,        \* the n that items ask for
  MaxApplied,     \* bound on the configurations applied
  CanCrash,       \* the process may die at any point
  CanEdit         \* the user may break and repair the configuration by hand

VARIABLES
  app,            \* what the GUI thread does; "down" when there is no process
  library,        \* m_actionLibrary
  applied,        \* how often a configuration has been applied
  mem,            \* the history
  uses,           \* launches recorded
  config,         \* the configuration file
  file,           \* the history file
  opened,         \* the last save could open it
  saved,          \* actions with uses saved, not reset or pruned by the user
  worker,         \* a lookup on a worker thread
  answers         \* right answers to it, at one moment or another

vars == <<app, library, applied, mem, uses, config, file, opened, saved, worker, answers>>

None == 0
Empty == [recent |-> <<>>, counts |-> [a \in Actions |-> 0]]

Kinds == {"recent", "frequent"}

\* A lookup is plain while every rank it has read counts and, of the frequent
\* ones, no action has dropped off the recent ones.
Idle == [pc |-> "idle", kind |-> "recent", n |-> 1, rank |-> 1, found |-> 0,
         plain |-> TRUE, result |-> None, since |-> 0, of |-> 0]

Init ==
  /\ app = "down"
  /\ library = Fallback /\ applied = 0
  /\ mem = Empty /\ uses = 0
  /\ \E lib \in Libraries : config = [state |-> "good", lib |-> lib]
  /\ file = [state |-> "missing", mem |-> Empty]
  /\ opened = TRUE /\ saved = {}
  /\ worker = Idle /\ answers = {}

-----------------------------------------------------------------------------
(* The history.                                                            *)

Truncated(s) == IF Len(s) > MaxRecent THEN SubSeq(s, 1, MaxRecent) ELSE s

Recorded(m, a) ==
  [recent |-> Truncated(<<a>> \o Only(m.recent, Actions \ {a})),
   counts |-> [m.counts EXCEPT ![a] = @ + 1]]

Pruned(m, ids) ==
  [recent |-> Only(m.recent, ids),
   counts |-> [a \in Actions |-> IF a \in ids THEN m.counts[a] ELSE 0]]

Rank(m, a) ==
  IF a \in Range(m.recent) THEN CHOOSE i \in DOMAIN m.recent : m.recent[i] = a
  ELSE Len(m.recent) + 1

\* More launches first, then more recent, then by id.
Before(m, a, b) ==
  \/ m.counts[a] > m.counts[b]
  \/ m.counts[a] = m.counts[b] /\ Rank(m, a) < Rank(m, b)
  \/ m.counts[a] = m.counts[b] /\ Rank(m, a) = Rank(m, b) /\ a < b

Used(m) == {a \in Actions : m.counts[a] > 0}
Above(m, a) == {b \in Used(m) : Before(m, b, a)}

\* The n-th of the used actions has n - 1 of them before it.
ByFrequency(m) ==
  [n \in 1 .. Cardinality(Used(m)) |->
     CHOOSE a \in Used(m) : Cardinality(Above(m, a)) = n - 1]

Ranking(m, kind) == IF kind = "recent" THEN m.recent ELSE ByFrequency(m)

-----------------------------------------------------------------------------
(* The process and its files.                                              *)

\* A file that does not parse leaves the history empty.
Loaded(f) == IF f.state = "good" THEN f.mem ELSE Empty

Start ==
  /\ app = "down"
  /\ app' = "up"
  /\ library' = IF config.state = "good" THEN config.lib ELSE Fallback
  /\ mem' = Pruned(Loaded(file), library'.ids)
  /\ opened' = TRUE
  /\ worker' = Idle
  /\ UNCHANGED <<applied, uses, config, file, saved>>

\* Fault: the file is written when the application exits, and only then.
SaveLater(next) == app' = (IF next = "writing exit" THEN next ELSE "up") /\ UNCHANGED <<file, opened>>

\* Opens the file, if it can; what is written comes with FinishSave.
BeginSave(next) ==
  /\ app' = next
  /\ opened' \in BOOLEAN
  /\ file' = IF opened' THEN [file EXCEPT !.state = "torn"] ELSE file

FinishSave ==
  /\ app \in {"writing on", "writing exit"}
  /\ app' = IF app = "writing on" THEN "up" ELSE "down"
  /\ file' = IF opened THEN [state |-> "good", mem |-> mem] ELSE file
  /\ saved' = IF opened THEN saved \cup {a \in Actions : mem.counts[a] > 0} ELSE saved
  /\ worker' = IF app = "writing on" THEN worker ELSE Idle
  /\ UNCHANGED <<library, applied, mem, uses, config, opened>>

Watching == worker.pc = "walk" /\ worker.kind = "frequent"
Drops(a) == a \notin Range(mem.recent) /\ Len(mem.recent) = MaxRecent

\* executeActionById
Launch(a) ==
  /\ app = "up" /\ a \in library.ids
  /\ a \notin library.helpers
  /\ uses < MaxUses
  /\ uses' = uses + 1
  /\ mem' = Recorded(mem, a)
  /\ worker' = [worker EXCEPT !.plain = @ /\ (Watching => ~Drops(a))]
  /\ BeginSave("writing on")
  /\ UNCHANGED <<library, applied, config, saved>>

ResetActionFrequencies ==
  /\ app = "up"
  /\ mem' = [mem EXCEPT !.counts = Empty.counts]
  /\ saved' = {}
  /\ BeginSave("writing on")
  /\ UNCHANGED <<library, applied, uses, config, worker>>

\* The library is replaced and the configuration file opened; the macros that
\* run are asked to cancel, which a worker inside an item does not notice.
ApplyConfig(lib) ==
  /\ app = "up" /\ applied < MaxApplied
  /\ app' = "writing config"
  /\ applied' = applied + 1
  /\ library' = lib
  /\ config' = [state |-> "torn", lib |-> lib]
  /\ UNCHANGED <<mem, uses, file, opened, saved, worker>>

FinishConfig ==
  /\ app = "writing config"
  /\ config' = [config EXCEPT !.state = "good"]
  /\ mem' = Pruned(mem, library.ids)
  /\ saved' = saved \cap library.ids
  /\ BeginSave("writing on")
  /\ UNCHANGED <<library, applied, uses, worker>>

Exit ==
  /\ app = "up"
  /\ BeginSave("writing exit")
  /\ UNCHANGED <<library, applied, mem, uses, config, saved, worker>>

Crash ==
  /\ CanCrash
  /\ app # "down"
  /\ app' = "down"
  /\ worker' = Idle
  /\ UNCHANGED <<library, applied, mem, uses, config, file, opened, saved>>

\* The user breaks the configuration file, or repairs it, while the
\* application is down.
EditConfig ==
  /\ CanEdit /\ app = "down"
  /\ config' = [config EXCEPT !.state = IF @ = "good" THEN "torn" ELSE "good"]
  /\ UNCHANGED <<app, library, applied, mem, uses, file, opened, saved, worker>>

-----------------------------------------------------------------------------
(* A lookup: nthRecentAction, nthFrequentAction.                           *)

Answer(m, lib, kind, n) ==
  LET real == Only(Ranking(m, kind), lib.ids \ lib.helpers)
  IN  IF n <= Len(real) THEN real[n] ELSE None

BeginLookup(kind, n) ==
  /\ app # "down" /\ worker.pc = "idle"
  /\ worker' = [Idle EXCEPT !.pc = "walk", !.kind = kind, !.n = n,
                             !.since = applied]
  /\ UNCHANGED <<app, library, applied, mem, uses, config, file, opened, saved>>

\* Fault: every rank counts, those of helpers too.
CountsAnything(a) == TRUE

Counts(a) == a \in library.ids \ library.helpers

\* One rank, under the history's lock; then the candidate, with no lock.
LookRank ==
  /\ worker.pc = "walk"
  /\ LET ranking == Ranking(mem, worker.kind)
         id      == ranking[worker.rank]
         found   == IF Counts(id) THEN worker.found + 1 ELSE worker.found
     IN  worker' =
           IF worker.rank > Len(ranking) THEN [worker EXCEPT !.pc = "done"]
           ELSE IF Counts(id) /\ found = worker.n
                THEN [worker EXCEPT !.pc = "done", !.result = id, !.of = applied]
           ELSE [worker EXCEPT !.rank = @ + 1, !.found = found, !.plain = @ /\ Counts(id)]
  /\ UNCHANGED <<app, library, applied, mem, uses, config, file, opened, saved>>

\* The item copies the action it points to and schedules the copy.
CopyResult ==
  /\ worker.pc = "done"
  /\ worker' = Idle
  /\ UNCHANGED <<app, library, applied, mem, uses, config, file, opened, saved>>

-----------------------------------------------------------------------------
\* The answers that have been right since the lookup began.
Observe ==
  answers' = CASE worker'.pc = "walk" -> answers \cup {Answer(mem', library', worker'.kind, worker'.n)}
               [] worker'.pc = "done" -> answers
               [] OTHER -> {}

Next ==
  /\ \/ Start
     \/ FinishSave
     \/ \E a \in Actions : Launch(a)
     \/ ResetActionFrequencies
     \/ \E lib \in Libraries : ApplyConfig(lib)
     \/ FinishConfig
     \/ Exit
     \/ Crash
     \/ EditConfig
     \/ \E kind \in Kinds, n \in 1 .. MaxRank : BeginLookup(kind, n)
     \/ LookRank
     \/ CopyResult
  /\ Observe

Spec == Init /\ [][Next]_vars

-----------------------------------------------------------------------------
(* Properties.                                                             *)

\* While the application is up and at rest, dying would cost nothing: what a
\* restart would load and prune is the history in memory.  (executeActionById,
\* resetActionFrequencies and applyConfig each save before they return)  A save
\* that cannot open the file leaves it as it was, which nobody is told of, and
\* the next one that can makes up for it.
RestartKeepsHistory ==
  app = "up" /\ opened => mem = Pruned(Loaded(file), library.ids)

\* A lookup that met no helper gives an answer that was right at some moment
\* of the lookup, though launches move the ranks between its steps; of the
\* frequent ones, if no launch meanwhile dropped an action from the recent
\* ones, where it had its place among those as frequent.
\* (nthRecentId, nthFrequentId, nthRecentAction, nthFrequentAction)
PlainLookupConsistent ==
  worker.pc = "done" /\ worker.since = applied /\ worker.plain
    => worker.result \in answers

\* "Walk raw MRU ranks, skipping helpers / missing ids, until the Nth real
\* Action", with a class that is "Thread-safe": helpers or not, the answer was
\* right at some moment of the lookup, if the library was the same throughout.
\* The code does not keep this; the README says how it fails.
LookupConsistent ==
  worker.pc = "done" /\ worker.since = applied => worker.result \in answers

\* "Persistent MRU + frequency tracking": what was saved and not reset or
\* pruned with its action is there after the next start.
\* The code does not keep this; the README says how it fails.
HistoryPersists ==
  app = "up" => \A a \in saved \cap library.ids : mem.counts[a] > 0

\* "Drop in-flight macros that may reference old library Actions / menus":
\* an item does not copy from a library that has been replaced.
\* The code does not keep this; the README says how it fails.
CopiesFromCurrentLibrary ==
  worker.pc = "done" /\ worker.result # None => worker.of = applied
=============================================================================
