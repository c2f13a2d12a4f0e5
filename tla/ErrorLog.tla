---- MODULE ErrorLog ----
(***************************************************************************)
(* ErrorLogger.Log of internal/logging/logger.go, called by concurrent     *)
(* runs. The date is taken on entry, before the mutex; a line reaches its  *)
(* file in one write or, when the system takes only a part, in two.        *)
(***************************************************************************)
EXTENDS Naturals, Sequences

CONSTANTS Writers, NoOne, Days

\* What is assumed of the constants; a module that instantiates this one
\* assumes it of its own.
LogAssumption == NoOne \notin Writers /\ Days \in Nat \ {0}

VARIABLES
  daily,    \* the file name has the YYYY-MM-DD placeholder
  today,    \* the date
  stage,    \* stage[w]: "idle", "stamped", "locked", "half" written
  date,     \* date[w]: the date w's entry carries
  entry,    \* entry[w]: how many entries w has begun
  mu,       \* holder of the mutex, or NoOne
  files     \* files[d]: the pieces in the file of date d

vars == <<daily, today, stage, date, entry, mu, files>>

Dates == 1..Days
Piece == [writer : Writers, nth : Nat, part : {"head", "tail"}]

TypeOK ==
  /\ daily \in BOOLEAN /\ today \in Dates
  /\ stage \in [Writers -> {"idle", "stamped", "locked", "half"}]
  /\ date \in [Writers -> Dates] /\ entry \in [Writers -> Nat]
  /\ mu \in Writers \cup {NoOne}
  /\ files \in [Dates -> Seq(Piece)]

Init ==
  /\ daily \in BOOLEAN /\ today = 1
  /\ stage = [w \in Writers |-> "idle"] /\ date = [w \in Writers |-> 1]
  /\ entry = [w \in Writers |-> 0] /\ mu = NoOne
  /\ files = [d \in Dates |-> << >>]

----
\* Without a placeholder every entry goes to the one file, kept as the first.
path(w) == IF daily THEN date[w] ELSE 1

Put(w, part) ==
  files' = [files EXCEPT ![path(w)] =
              Append(@, [writer |-> w, nth |-> entry[w], part |-> part])]

\* Log is entered: the entry gets its date.
Log(w) ==
  /\ stage[w] = "idle"
  /\ stage' = [stage EXCEPT ![w] = "stamped"]
  /\ date' = [date EXCEPT ![w] = today]
  /\ entry' = [entry EXCEPT ![w] = @ + 1]
  /\ UNCHANGED <<daily, today, mu, files>>

\* Mutant: the mutex is not taken.
LockForgotten(w) ==
  /\ stage[w] = "stamped"
  /\ stage' = [stage EXCEPT ![w] = "locked"]
  /\ UNCHANGED <<daily, today, date, entry, mu, files>>

Lock(w) ==
  /\ stage[w] = "stamped" /\ mu = NoOne
  /\ mu' = w /\ stage' = [stage EXCEPT ![w] = "locked"]
  /\ UNCHANGED <<daily, today, date, entry, files>>

\* The mutex is released on every return; the date was a local of Log's.
Return(w) ==
  /\ mu' = NoOne /\ stage' = [stage EXCEPT ![w] = "idle"]
  /\ date' = [date EXCEPT ![w] = 1]

\* Mutant: an error path returns without unlocking.
FailHolding(w) ==
  /\ stage[w] \in {"locked", "half"}
  /\ stage' = [stage EXCEPT ![w] = "idle"]
  /\ UNCHANGED <<daily, today, date, entry, mu, files>>

\* The directory, the file or the write fails, at worst with the line begun.
Fail(w) ==
  /\ stage[w] \in {"locked", "half"} /\ Return(w)
  /\ UNCHANGED <<daily, today, entry, files>>

WriteSome(w) ==
  /\ stage[w] = "locked" /\ Put(w, "head")
  /\ stage' = [stage EXCEPT ![w] = "half"]
  /\ UNCHANGED <<daily, today, date, entry, mu>>

WriteRest(w) ==
  /\ stage[w] = "half" /\ Put(w, "tail") /\ Return(w)
  /\ UNCHANGED <<daily, today, entry>>

\* Only file names tell one date from another.
Midnight ==
  /\ daily /\ today < Days /\ today' = today + 1
  /\ UNCHANGED <<daily, stage, date, entry, mu, files>>

Step(w) == Lock(w) \/ Fail(w) \/ WriteSome(w) \/ WriteRest(w)

Next == Midnight \/ \E w \in Writers : Log(w) \/ Step(w)

\* What is fair is said where the writers are.
Spec == Init /\ [][Next]_vars

----
\* The entries of a file do not mix: a line begun is finished before any
\* other is begun, unless writing it failed, and one run's entries are in the
\* order in which they happened, each at most once.
LogIsWhole ==
  \A d \in Dates :
    LET f == files[d]
    IN /\ \A i \in DOMAIN f : f[i].part = "tail" =>
            /\ i > 1 /\ f[i-1] = [f[i] EXCEPT !.part = "head"]
       /\ \A i, j \in DOMAIN f :
            i < j /\ f[i].writer = f[j].writer =>
              f[i].nth < f[j].nth \/ (f[i].nth = f[j].nth /\ f[i].part # f[j].part)

====
