---- MODULE ServiceProofs ----
(***************************************************************************)
(* What the process promises for any number of requests, any settings and  *)
(* any bounds: a usable configuration, a truthful exit code and truthful   *)
(* replies, and an error log that stays whole.                             *)
(***************************************************************************)
EXTENDS Service, TLAPS

----
(* The error log: its inductive invariant.                                 *)

\* The mutex is held by whoever is between Lock and Return.
Exclusive == \A w \in Requests : stage[w] \in {"locked", "half"} <=> mu = w

\* A line that was begun is the last thing in its file.
HalfIsLast ==
  \A w \in Requests :
    LET f == files[Log!path(w)]
    IN stage[w] = "half" =>
         /\ f # << >>
         /\ f[Len(f)] = [writer |-> w, nth |-> entry[w], part |-> "head"]

\* Nothing is written of an entry before its line is begun, and no end of a
\* line before that.
Counted ==
  \A w \in Requests, d \in Log!Dates : \A i \in DOMAIN files[d] :
    files[d][i].writer = w =>
      /\ files[d][i].nth <= entry[w]
      /\ stage[w] \in {"stamped", "locked"} => files[d][i].nth < entry[w]
      /\ stage[w] = "half" /\ files[d][i].part = "tail" => files[d][i].nth < entry[w]

\* The two halves of LogIsWhole.
TailsFollow(f) ==
  \A i \in DOMAIN f : f[i].part = "tail" => i > 1 /\ f[i-1] = [f[i] EXCEPT !.part = "head"]
EntriesInOrder(f) ==
  \A i, j \in DOMAIN f :
    i < j /\ f[i].writer = f[j].writer =>
      f[i].nth < f[j].nth \/ (f[i].nth = f[j].nth /\ f[i].part # f[j].part)

LInv == Log!TypeOK /\ Log!LogIsWhole /\ Exclusive /\ HalfIsLast /\ Counted

LEMMA WholeIsBoth == Log!LogIsWhole <=> \A d \in Log!Dates : TailsFollow(files[d]) /\ EntriesInOrder(files[d])
BY DEF Log!LogIsWhole, TailsFollow, EntriesInOrder

\* A sequence grows by the element appended, and keeps the others.
LEMMA Appended ==
  ASSUME NEW S, NEW s \in Seq(S), NEW e \in S
  PROVE  /\ Append(s, e) \in Seq(S) /\ Len(Append(s, e)) = Len(s) + 1
         /\ DOMAIN Append(s, e) = 1..Len(s)+1 /\ DOMAIN s = 1..Len(s) /\ Len(s) \in Nat
         /\ \A i \in 1..Len(s) : Append(s, e)[i] = s[i] /\ s[i] \in S
         /\ Append(s, e)[Len(s)+1] = e
OBVIOUS

\* What may be appended to a file that is whole.
LEMMA AppendKeeps ==
  ASSUME NEW f \in Seq(Log!Piece), NEW p \in Log!Piece, TailsFollow(f), EntriesInOrder(f),
         p.part = "tail" => f # << >> /\ f[Len(f)] = [p EXCEPT !.part = "head"],
         \A i \in DOMAIN f : f[i].writer = p.writer =>
           f[i].nth < p.nth \/ (f[i].nth = p.nth /\ f[i].part # p.part)
  PROVE  TailsFollow(Append(f, p)) /\ EntriesInOrder(Append(f, p))
<1> DEFINE g == Append(f, p)
           n == Len(f)
<1>1. /\ DOMAIN g = 1..n+1 /\ DOMAIN f = 1..n /\ n \in Nat
      /\ \A i \in 1..n : g[i] = f[i]
      /\ g[n+1] = p
  BY Appended
<1> HIDE DEF g
<1>2. TailsFollow(g)
  <2> SUFFICES ASSUME NEW i \in DOMAIN g, g[i].part = "tail"
               PROVE  i > 1 /\ g[i-1] = [g[i] EXCEPT !.part = "head"]
    BY DEF TailsFollow
  <2>1. CASE i \in 1..n
    <3>1. i > 1 /\ f[i-1] = [f[i] EXCEPT !.part = "head"]
      BY <1>1, <2>1 DEF TailsFollow
    <3> QED BY <1>1, <2>1, <3>1
  <2>2. CASE i = n+1
    <3>1. f # << >> /\ f[n] = [p EXCEPT !.part = "head"]
      BY <1>1, <2>2
    <3>2. n > 0
      BY <3>1, <1>1
    <3> QED BY <1>1, <2>2, <3>1, <3>2
  <2> QED BY <1>1, <2>1, <2>2
<1>3. EntriesInOrder(g)
  <2> SUFFICES ASSUME NEW i \in DOMAIN g, NEW j \in DOMAIN g,
                      i < j, g[i].writer = g[j].writer
               PROVE  g[i].nth < g[j].nth \/ (g[i].nth = g[j].nth /\ g[i].part # g[j].part)
    BY DEF EntriesInOrder
  <2>1. i \in 1..n /\ g[i] = f[i]
    BY <1>1
  <2>2. CASE j \in 1..n
    BY <1>1, <2>1, <2>2 DEF EntriesInOrder
  <2>3. CASE j = n+1
    BY <1>1, <2>1, <2>3
  <2> QED BY <1>1, <2>2, <2>3
<1> QED BY <1>2, <1>3 DEF g

----
(* The error log: what its actions do to the invariant.                                   *)

\* A step that writes nothing and takes no mutex away keeps LInv when the
\* writer it moves has begun no line, or drops the mutex.
LEMMA QuietStep ==
  ASSUME LInv, NEW w \in Requests, UNCHANGED <<daily, today, files>>,
         \/ Log!Log(w) \/ Log!Lock(w) \/ Log!Fail(w)
  PROVE  LInv'
<1> USE DEF LInv, Log!Dates
<1>1. Log!TypeOK'
  <2>1. CASE Log!Log(w)
    BY <2>1 DEF Log!TypeOK, Log!Log
  <2>2. CASE Log!Lock(w)
    BY <2>2 DEF Log!TypeOK, Log!Lock
  <2>3. CASE Log!Fail(w)
    <3>1. 1 \in 1..Days
      BY ServiceAssumption
    <3> QED BY <2>3, <3>1 DEF Log!TypeOK, Log!Fail, Log!Return
  <2> QED BY <2>1, <2>2, <2>3
<1>2. Log!LogIsWhole'
  BY DEF Log!LogIsWhole
<1>3. Exclusive'
  BY ServiceAssumption DEF Exclusive, Log!Log, Log!Lock, Log!Fail, Log!Return, Log!TypeOK
<1>4. HalfIsLast'
  BY DEF HalfIsLast, Log!path, Log!Log, Log!Lock, Log!Fail, Log!Return, Log!TypeOK
<1>5. Counted'
  <2> SUFFICES ASSUME NEW v \in Requests, NEW d \in Log!Dates, NEW i \in DOMAIN files[d],
                      files[d][i].writer = v
               PROVE  /\ files[d][i].nth <= entry'[v]
                      /\ stage'[v] \in {"stamped", "locked"} => files[d][i].nth < entry'[v]
                      /\ stage'[v] = "half" /\ files[d][i].part = "tail"
                           => files[d][i].nth < entry'[v]
    BY DEF Counted
  <2>1. files[d][i].nth \in Nat /\ entry[v] \in Nat
    <3>1. files[d] \in Seq(Log!Piece)
      BY DEF Log!TypeOK
    <3>2. files[d][i] \in Log!Piece
      BY <3>1
    <3> QED BY <3>2 DEF Log!TypeOK, Log!Piece
  <2>2. /\ files[d][i].nth <= entry[v]
        /\ stage[v] \in {"stamped", "locked"} => files[d][i].nth < entry[v]
        /\ stage[v] = "half" /\ files[d][i].part = "tail" => files[d][i].nth < entry[v]
    BY DEF Counted
  <2>3. CASE Log!Log(w)
    <3>1. CASE v = w
      BY <2>1, <2>2, <2>3, <3>1 DEF Log!Log, Log!TypeOK
    <3>2. CASE v # w
      <4>1. entry'[v] = entry[v] /\ stage'[v] = stage[v]
        BY <2>3, <3>2 DEF Log!Log, Log!TypeOK
      <4> QED BY <2>2, <4>1
    <3> QED BY <3>1, <3>2
  <2>4. CASE Log!Lock(w)
    BY <2>1, <2>2, <2>4 DEF Log!Lock, Log!TypeOK
  <2>5. CASE Log!Fail(w)
    BY <2>1, <2>2, <2>5 DEF Log!Fail, Log!Return, Log!TypeOK
  <2> QED BY <2>3, <2>4, <2>5
<1> QED BY <1>1, <1>2, <1>3, <1>4, <1>5

\* Whoever writes holds the mutex: nobody else is in the middle of a line.
LEMMA Alone ==
  ASSUME LInv, NEW w \in Requests, stage[w] \in {"locked", "half"},
         NEW v \in Requests, stage[v] \in {"locked", "half"}
  PROVE  v = w
BY DEF LInv, Exclusive

\* The file of an entry, and what may already be in it.
LEMMA Room ==
  ASSUME LInv, NEW w \in Requests, NEW part \in {"head", "tail"},
         \/ part = "head" /\ stage[w] = "locked"
         \/ part = "tail" /\ stage[w] = "half"
  PROVE  LET p == [writer |-> w, nth |-> entry[w], part |-> part]
             f == files[Log!path(w)]
         IN /\ Log!path(w) \in Log!Dates /\ f \in Seq(Log!Piece) /\ p \in Log!Piece
            /\ TailsFollow(f) /\ EntriesInOrder(f)
            /\ p.part = "tail" => f # << >> /\ f[Len(f)] = [p EXCEPT !.part = "head"]
            /\ \A i \in DOMAIN f : f[i].writer = p.writer =>
                 f[i].nth < p.nth \/ (f[i].nth = p.nth /\ f[i].part # p.part)
<1> DEFINE p == [writer |-> w, nth |-> entry[w], part |-> part]
           f == files[Log!path(w)]
<1>1. Log!path(w) \in Log!Dates
  BY ServiceAssumption DEF LInv, Log!TypeOK, Log!path, Log!Dates
<1>2. f \in Seq(Log!Piece) /\ p \in Log!Piece /\ entry[w] \in Nat
  BY <1>1 DEF LInv, Log!TypeOK, Log!Piece
<1>3. TailsFollow(f) /\ EntriesInOrder(f)
  BY <1>1, WholeIsBoth DEF LInv
<1>4. p.part = "tail" => f # << >> /\ f[Len(f)] = [p EXCEPT !.part = "head"]
  BY DEF LInv, HalfIsLast
<1>5. ASSUME NEW i \in DOMAIN f, f[i].writer = p.writer
      PROVE  f[i].nth < p.nth \/ (f[i].nth = p.nth /\ f[i].part # p.part)
  <2>1. /\ f[i].nth <= entry[w]
        /\ stage[w] \in {"stamped", "locked"} => f[i].nth < entry[w]
        /\ stage[w] = "half" /\ f[i].part = "tail" => f[i].nth < entry[w]
    BY <1>1, <1>5 DEF LInv, Counted
  <2>2. f[i] \in Log!Piece
    BY <1>2
  <2>3. f[i].nth \in Nat
    BY <2>2 DEF Log!Piece
  <2> QED BY <1>2, <2>1, <2>3
<1> QED BY <1>1, <1>2, <1>3, <1>4, <1>5

\* A step that writes.
LEMMA WriteStep ==
  ASSUME LInv, NEW w \in Requests, Log!WriteSome(w) \/ Log!WriteRest(w)
  PROVE  LInv'
<1> DEFINE part == IF stage[w] = "half" THEN "tail" ELSE "head"
           p == [writer |-> w, nth |-> entry[w], part |-> part]
           f == files[Log!path(w)]
<1>1. /\ stage[w] \in {"locked", "half"}
      /\ Log!Put(w, part)
      /\ part \in {"head", "tail"}
      /\ UNCHANGED <<daily, today, entry>>
      /\ \/ part = "head" /\ stage[w] = "locked"
         \/ part = "tail" /\ stage[w] = "half"
  BY DEF Log!WriteSome, Log!WriteRest
<1>2. /\ Log!path(w) \in Log!Dates /\ f \in Seq(Log!Piece) /\ p \in Log!Piece
      /\ TailsFollow(Append(f, p)) /\ EntriesInOrder(Append(f, p))
  BY <1>1, Room, AppendKeeps
<1>3. files' = [files EXCEPT ![Log!path(w)] = Append(f, p)] /\ files \in [Log!Dates -> Seq(Log!Piece)]
  BY <1>1 DEF Log!Put, LInv, Log!TypeOK
<1>4. files'[Log!path(w)] = Append(f, p) /\ \A d \in Log!Dates \ {Log!path(w)} : files'[d] = files[d]
  BY <1>2, <1>3
<1>5. Append(f, p) \in Seq(Log!Piece)
  BY <1>2, Appended
<1> HIDE DEF part, p
<1>6. Log!TypeOK'
  <2>1. files' \in [Log!Dates -> Seq(Log!Piece)]
    BY <1>3, <1>5
  <2>2. 1 \in Log!Dates
    BY ServiceAssumption DEF Log!Dates
  <2> QED BY <1>1, <2>1, <2>2 DEF LInv, Log!TypeOK, Log!Dates, Log!WriteSome, Log!WriteRest, Log!Return
<1>7. Log!LogIsWhole'
  <2>1. \A d \in Log!Dates : TailsFollow(files'[d]) /\ EntriesInOrder(files'[d])
    BY <1>2, <1>4, WholeIsBoth DEF LInv
  <2> QED BY <2>1 DEF Log!LogIsWhole, TailsFollow, EntriesInOrder, Log!Dates
<1>8. Exclusive'
  BY ServiceAssumption DEF LInv, Exclusive, Log!WriteSome, Log!WriteRest, Log!Return, Log!TypeOK
<1>9. HalfIsLast'
  <2> SUFFICES ASSUME NEW v \in Requests, stage'[v] = "half"
               PROVE  LET g == files'[Log!path(v)']
                      IN g # << >> /\ g[Len(g)] = [writer |-> v, nth |-> entry'[v], part |-> "head"]
    BY DEF HalfIsLast
  <2>1. v = w /\ Log!WriteSome(w)
    BY Alone DEF Log!WriteSome, Log!WriteRest, Log!Return, LInv, Log!TypeOK
  <2>2. Log!path(v)' = Log!path(w) /\ part = "head"
    BY <2>1 DEF Log!WriteSome, Log!path, part
  <2>3. Append(f, p) # << >> /\ Append(f, p)[Len(Append(f, p))] = p
    BY <1>2, Appended
  <2>4. p = [writer |-> v, nth |-> entry'[v], part |-> "head"]
    BY <1>1, <2>1, <2>2 DEF p
  <2> QED BY <1>4, <2>2, <2>3, <2>4
<1>10. Counted'
  <2> SUFFICES ASSUME NEW v \in Requests, NEW d \in Log!Dates, NEW i \in DOMAIN files'[d],
                      files'[d][i].writer = v
               PROVE  /\ files'[d][i].nth <= entry'[v]
                      /\ stage'[v] \in {"stamped", "locked"} => files'[d][i].nth < entry'[v]
                      /\ stage'[v] = "half" /\ files'[d][i].part = "tail"
                           => files'[d][i].nth < entry'[v]
    BY DEF Counted, Log!Dates
  <2>0. entry' = entry /\ entry[v] \in Nat
    BY <1>1 DEF LInv, Log!TypeOK
  <2>1. CASE i \in DOMAIN files[d] /\ files'[d][i] = files[d][i]
    <3>1. /\ files[d][i].nth <= entry[v]
          /\ stage[v] \in {"stamped", "locked"} => files[d][i].nth < entry[v]
          /\ stage[v] = "half" /\ files[d][i].part = "tail" => files[d][i].nth < entry[v]
      BY <2>1 DEF LInv, Counted
    <3>2. stage'[v] \in {"stamped", "locked"} => stage[v] = stage'[v]
      BY DEF Log!WriteSome, Log!WriteRest, Log!Return, LInv, Log!TypeOK
    <3>3. stage'[v] = "half" => stage[v] \in {"locked", "half"}
      BY DEF Log!WriteSome, Log!WriteRest, Log!Return, LInv, Log!TypeOK
    <3> QED BY <2>0, <2>1, <3>1, <3>2, <3>3
  <2>2. CASE d = Log!path(w) /\ i = Len(f) + 1
    <3>1. files'[d][i] = p
      BY <1>2, <1>4, <2>2, Appended
    <3>2. v = w /\ p.nth = entry[v]
      BY <3>1 DEF p
    <3>3. stage'[v] \notin {"stamped", "locked"}
      BY <3>2 DEF Log!WriteSome, Log!WriteRest, Log!Return, LInv, Log!TypeOK
    <3>4. stage'[v] = "half" => p.part = "head"
      BY <3>2 DEF Log!WriteSome, Log!WriteRest, Log!Return, LInv, Log!TypeOK, p, part
    <3> QED BY <2>0, <3>1, <3>2, <3>3, <3>4
  <2> QED BY <1>2, <1>4, <2>1, <2>2, Appended
<1> QED BY <1>6, <1>7, <1>8, <1>9, <1>10 DEF LInv

\* Midnight changes what new entries are stamped with.
LEMMA MidnightStep ==
  ASSUME LInv, Log!Midnight
  PROVE  LInv'
<1>1. Log!TypeOK'
  BY ServiceAssumption DEF LInv, Log!TypeOK, Log!Midnight, Log!Dates
<1> QED BY <1>1 DEF LInv, Log!Midnight, Log!LogIsWhole, Exclusive, HalfIsLast, Log!path, Counted, Log!Dates

LEMMA LInit == Log!Init => LInv
<1> SUFFICES ASSUME Log!Init PROVE LInv
  OBVIOUS
<1>1. 1 \in Log!Dates
  BY ServiceAssumption DEF Log!Dates
<1>2. Log!TypeOK
  BY <1>1 DEF Log!Init, Log!TypeOK
<1>3. \A d \in Log!Dates : files[d] = << >>
  BY DEF Log!Init
<1>4. Log!LogIsWhole /\ Counted
  BY <1>3 DEF Log!LogIsWhole, Counted
<1>5. Exclusive /\ HalfIsLast
  BY ServiceAssumption DEF Log!Init, Exclusive, HalfIsLast
<1> QED BY <1>2, <1>4, <1>5 DEF LInv

LEMMA LStep == LInv /\ [Log!Next]_(Log!vars) => LInv'
<1> SUFFICES ASSUME LInv, [Log!Next]_(Log!vars) PROVE LInv'
  OBVIOUS
<1>1. CASE Log!Midnight
  BY <1>1, MidnightStep
<1>2. ASSUME NEW w \in Requests, Log!Log(w) \/ Log!Lock(w) \/ Log!Fail(w) PROVE LInv'
  <2>1. UNCHANGED <<daily, today, files>>
    BY <1>2 DEF Log!Log, Log!Lock, Log!Fail
  <2> QED BY <1>2, <2>1, QuietStep
<1>3. ASSUME NEW w \in Requests, Log!WriteSome(w) \/ Log!WriteRest(w) PROVE LInv'
  BY <1>3, WriteStep
<1>4. CASE UNCHANGED Log!vars
  <2> USE <1>4 DEF Log!vars, LInv
  <2>0. Log!TypeOK'
    BY DEF Log!TypeOK, Log!Dates
  <2>1. Log!LogIsWhole'
    BY DEF Log!LogIsWhole, Log!Dates
  <2>2. Exclusive' /\ HalfIsLast'
    BY DEF Exclusive, HalfIsLast, Log!path
  <2>3. Counted'
    BY DEF Counted, Log!Dates
  <2> QED BY <2>0, <2>1, <2>2, <2>3
<1> QED BY <1>1, <1>2, <1>3, <1>4 DEF Log!Next, Log!Step

----
(* The error log: its theorems, and the process that writes it.            *)

\* For any number of concurrent runs and days the entries of a file of the
\* error log do not mix and keep each run's order: ErrorLogger.Log holds its
\* mutex from the first piece of a line to the last.
THEOREM LogStaysWhole == Log!Spec => []Log!LogIsWhole
<1>1. LInv => Log!LogIsWhole
  BY DEF LInv
<1> QED BY <1>1, LInit, LStep, PTL DEF Log!Spec

\* Every step of the process is one of the error log's, or leaves it alone.
LEMMA LogRefined ==
  ASSUME [Next]_vars
  PROVE  [Log!Next]_(Log!vars)
<1>1. CASE UNCHANGED logVars
  BY <1>1 DEF logVars, Log!vars
<1>2. CASE Midnight
  BY <1>2 DEF Midnight, Log!Next
<1>3. ASSUME NEW r \in Requests, LogFailure(r) \/ LogStep(r)
      PROVE  [Log!Next]_(Log!vars)
  BY <1>3 DEF LogFailure, LogStep, Log!Next
<1>4. CASE Main \/ Killed \/ Signal \/ ShutdownTimesOut \/ Listens \/ ServerFails
  BY <1>1, <1>4 DEF Main, Killed, Signal, ShutdownTimesOut, Listens, ServerFails, StartFails, Start,
       Notify, TakeSignal, TakeServerErr, ShutdownEnds, Exit
<1>5. ASSUME NEW r \in Requests,
             Accept(r) \/ RejectBody(r) \/ StartRun(r) \/ Handler(r) \/ Expire(r)
      PROVE  UNCHANGED logVars
  BY <1>5 DEF Accept, RejectBody, StartRun, Handler, RunAsks, RunReturns, Reply, Expire
<1>6. CASE UNCHANGED vars
  BY <1>1, <1>6 DEF vars
<1> QED BY <1>1, <1>2, <1>3, <1>4, <1>5, <1>6 DEF Next

\* The invariant of the error log is one of the process.
LEMMA LogInvariant == Spec => []LInv
<1>1. Init => Log!Init
  BY DEF Init
<1>2. LInv /\ [Next]_vars => LInv'
  BY LogRefined, LStep
<1> QED BY <1>1, <1>2, LInit, PTL DEF Spec

\* However many requests there are and however they interleave, the error log
\* the process writes stays whole.
THEOREM ServiceLogIsWhole == Spec => []LogIsWhole
<1>1. LInv => LogIsWhole
  BY DEF LInv, LogIsWhole
<1> QED BY <1>1, LogInvariant, PTL

----
(* The configuration.                                                      *)

\* Every field with a default is set, and what validation found holds; a
\* variable of the environment is overridden by nothing.
LEMMA ValidIsUsable ==
  ASSUME NEW f, Configuration(f), NEW e \in Overrides, Validate(loaded(f, e))
  PROVE  Usable(loaded(f, e)) /\ EnvironmentWins(loaded(f, e), e)
<1> DEFINE c == applyEnvOverrides(f, e)
<1>1. /\ DOMAIN Defaults \subseteq Fields /\ Required \subseteq Fields /\ Numbers \subseteq Fields
      /\ "level" \in DOMAIN Defaults /\ "port" \in DOMAIN Defaults
      /\ \A x \in Required : x \notin DOMAIN Defaults
  BY DEF Fields, Defaults, Required, Numbers
<1>2. \A x \in Fields :
        loaded(f, e)[x] = IF x \in DOMAIN Defaults /\ c[x] = Zero[x] THEN Defaults[x] ELSE c[x]
  BY DEF loaded, applyDefaults
<1>3. \A x \in Fields : Zero[x] = IF x \in Numbers THEN 0 ELSE ""
  BY DEF Zero
<1>4. \A x \in DOMAIN Defaults : Defaults[x] # Zero[x]
  <2>1. \A x \in Numbers : Defaults[x] # 0
    BY DEF Defaults, Numbers
  <2>2. \A x \in DOMAIN Defaults \ Numbers : Defaults[x] # ""
    <3> SUFFICES ASSUME NEW x \in DOMAIN Defaults, x \notin Numbers PROVE Defaults[x] # ""
      OBVIOUS
    <3>1. x \in {"mode", "strategy", "fallback_strategy", "source_field", "fallback_field",
                 "level", "format", "output"}
      BY DEF Defaults, Numbers
    <3>2. /\ Defaults.mode = "react" /\ Defaults.strategy = "react"
          /\ Defaults.fallback_strategy = "fuzzy" /\ Defaults.source_field = "reasoning"
          /\ Defaults.fallback_field = "content" /\ Defaults.level = "info"
          /\ Defaults.format = "json" /\ Defaults.output = "stdout"
      BY DEF Defaults
    <3> QED BY <3>1, <3>2
  <2> QED BY <1>1, <1>3, <2>1, <2>2
<1>5. \A x \in DOMAIN Defaults : loaded(f, e)[x] # Zero[x]
  BY <1>1, <1>2, <1>4
<1>6. Usable(loaded(f, e))
  <2>1. loaded(f, e).max_iterations \in Int /\ loaded(f, e).run_timeout \in Int
    <3>1. c.max_iterations \in Int /\ c.run_timeout \in Int
      BY <1>1 DEF applyEnvOverrides, Configuration, Numbers, Required
    <3>2. "max_iterations" \in Fields /\ "run_timeout" \in Fields
      BY <1>1 DEF Numbers
    <3>3. Defaults.max_iterations \in Int /\ Defaults.run_timeout \in Int
      BY DEF Defaults
    <3> QED BY <1>2, <3>1, <3>2, <3>3
  <2>2. loaded(f, e).max_iterations \in Nat \ {0} /\ loaded(f, e).run_timeout \in Nat \ {0}
    <3>1. loaded(f, e).max_iterations >= 1 /\ loaded(f, e).run_timeout >= 1
      BY Zenon DEF Validate
    <3> DEFINE m == loaded(f, e).max_iterations
               t == loaded(f, e).run_timeout
    <3>2. m \in Int /\ t \in Int /\ m >= 1 /\ t >= 1
      BY <2>1, <3>1
    <3> HIDE DEF m, t
    <3>3. m \in Nat \ {0} /\ t \in Nat \ {0}
      BY <3>2
    <3> QED BY <3>3 DEF m, t
  <2> QED BY <1>5, <2>2 DEF Validate, Usable
<1>7. EnvironmentWins(loaded(f, e), e)
  <2>1. ASSUME NEW x \in Required \cup {"level"}, e[x] # ""
        PROVE  loaded(f, e)[x] = e[x]
    <3>1. x \in Fields /\ x \notin Numbers /\ x # "port"
      BY <1>1 DEF Numbers, Required
    <3>2. c[x] = e[x]
      BY <2>1, <3>1 DEF applyEnvOverrides
    <3> QED BY <1>2, <1>3, <2>1, <3>1, <3>2
  <2>2. ASSUME e.port # << >>, e.port[1] # 0
        PROVE  loaded(f, e).port = e.port[1]
    <3>1. "port" \in Fields /\ "port" \in Numbers
      BY <1>1 DEF Numbers
    <3>2. c.port = e.port[1]
      BY <2>2, <3>1 DEF applyEnvOverrides
    <3> QED BY <1>2, <1>3, <2>2, <3>1, <3>2
  <2> QED BY <2>1, <2>2 DEF EnvironmentWins
<1> QED BY <1>6, <1>7

----
(* The process.                                                            *)

Places == {"none", "body", "running", "replying", "over", "cut"}

\* What main runs with was validated; requests are cut off only by an exit,
\* a signal is caught only while main serves or stops, and Shutdown is called
\* only for a signal.
PInv ==
  /\ proc \in {"starting", "started", "serving", "stopping", "exited"}
  /\ at \in [Requests -> Places]
  /\ [file |-> file, env |-> env] \in Settings
  /\ Up \/ proc = "stopping" => config = loaded(file, env) /\ Validate(config)
  /\ proc = "starting" => \A r \in Requests : at[r] = "none"
  /\ proc # "exited" => exitCode = -1 /\ \A r \in Requests : at[r] # "cut"
  /\ proc \in {"starting", "started"} => ~signalled
  /\ proc = "stopping" => signalled
  /\ ExitTellsTruth

LEMMA SettingsTyped ==
  ASSUME [file |-> file, env |-> env] \in Settings
  PROVE  Configuration(file) /\ env \in Overrides
<1> DEFINE s == [file |-> file, env |-> env]
<1>1. s.file = file /\ s.env = env
  OBVIOUS
<1>2. Configuration(s.file) /\ s.env \in Overrides
  BY ServiceAssumption
<1> QED BY <1>1, <1>2

LEMMA PInit == Init => PInv
<1> SUFFICES ASSUME Init PROVE PInv
  OBVIOUS
<1>1. PICK s \in Settings : file = s.file /\ env = s.env
  BY DEF Init
<1>2. [file |-> file, env |-> env] \in Settings
  BY <1>1, ServiceAssumption
<1>3. at \in [Requests -> Places] /\ \A r \in Requests : at[r] = "none"
  BY DEF Init, Places
<1> QED BY <1>2, <1>3 DEF Init, PInv, ExitTellsTruth, Up

\* An exit cuts off the requests that are open, and says so with its code.
LEMMA ExitStep ==
  ASSUME PInv, NEW n \in {0, 1, 143}, Exit(n), UNCHANGED signalled, proc # "exited",
         n = 0 => Open = {} /\ signalled,
         n = 1 => Open = {} \/ signalled \/ server' = "failed",
         n = 143 => ~signalled
  PROVE  PInv'
<1>1. at' \in [Requests -> Places]
  BY DEF PInv, Exit, Places
<1>2. \A r \in Requests : at'[r] = "cut" <=> r \in Open
  BY DEF PInv, Exit, Open
<1>3. exitCode' = n /\ proc' = "exited" /\ UNCHANGED <<file, env>>
  BY DEF Exit
<1>4. ExitTellsTruth'
  BY <1>2, <1>3 DEF ExitTellsTruth
<1> QED BY <1>1, <1>3, <1>4 DEF PInv, Up

\* A step of a request, or of its log entry.
LEMMA RequestStep ==
  ASSUME PInv, UNCHANGED mainVars, proc # "exited", proc # "starting",
         \/ UNCHANGED at
         \/ \E r \in Requests, p \in Places \ {"cut"} : at' = [at EXCEPT ![r] = p]
  PROVE  PInv'
<1>1. at' \in [Requests -> Places] /\ \A r \in Requests : at'[r] # "cut"
  BY DEF PInv
<1>2. ExitTellsTruth'
  BY <1>1 DEF mainVars, PInv, ExitTellsTruth
<1> QED BY <1>1, <1>2 DEF PInv, mainVars, Up

LEMMA PStep == PInv /\ [Next]_vars => PInv'
<1> SUFFICES ASSUME PInv, [Next]_vars PROVE PInv'
  OBVIOUS
<1>1. proc = "starting" => Open = {}
  BY DEF PInv, Open
<1>2. CASE StartFails
  BY <1>2, <1>1, ExitStep DEF StartFails
<1>3. CASE Killed
  BY <1>3, ExitStep DEF Killed, PInv
<1>4. CASE Start
  <2>1. config' = loaded(file, env) /\ Validate(loaded(file, env))
    BY <1>4 DEF Start, StartSucceeds, LoadSucceeds
  <2> QED BY <1>4, <2>1 DEF Start, PInv, ExitTellsTruth, reqVars, Up
<1>12. CASE Notify
  BY <1>12 DEF Notify, PInv, ExitTellsTruth, reqVars, Up
<1>5. CASE Signal \/ Listens \/ ServerFails
  <2>1. /\ UNCHANGED <<proc, exitCode, file, env, config, at>>
        /\ proc # "exited" /\ (signalled => signalled')
        /\ proc \in {"starting", "started"} => UNCHANGED signalled
    BY <1>5 DEF Signal, Listens, ServerFails, reqVars, Up
  <2>2. ExitTellsTruth'
    BY <2>1 DEF PInv, ExitTellsTruth
  <2> QED BY <2>1, <2>2 DEF PInv, Up
<1>6. CASE TakeSignal
  <2>1. CASE Open = {} /\ Exit(0)
    BY <1>6, <2>1, ExitStep DEF TakeSignal
  <2>2. CASE proc' = "stopping" /\ UNCHANGED <<exitCode, file, env, reqVars, logVars>>
    BY <1>6, <2>2 DEF TakeSignal, PInv, ExitTellsTruth, reqVars, Up
  <2> QED BY <1>6, <2>1, <2>2 DEF TakeSignal
<1>7. CASE TakeServerErr \/ ShutdownTimesOut
  BY <1>7, ExitStep DEF TakeServerErr, ShutdownTimesOut, PInv
<1>8. CASE ShutdownEnds
  BY <1>8, ExitStep DEF ShutdownEnds, PInv
<1>9. CASE Midnight
  BY <1>9, RequestStep DEF Midnight, reqVars, Up
<1>10. ASSUME NEW r \in Requests,
              \/ Accept(r) \/ RejectBody(r) \/ StartRun(r) \/ Handler(r)
              \/ Expire(r) \/ LogFailure(r) \/ LogStep(r)
       PROVE  PInv'
  <2>1. UNCHANGED mainVars /\ proc # "exited"
    BY <1>10 DEF Accept, RejectBody, StartRun, Handler, RunAsks, RunReturns, Reply, Expire,
         LogFailure, LogStep, Running, Up
  <2>2. proc # "starting"
    BY <1>10 DEF PInv, Accept, RejectBody, StartRun, Handler, RunAsks, RunReturns, Reply, Expire,
         LogFailure, LogStep, Running, Up
  <2>3. \/ UNCHANGED at
        \/ \E p \in Places \ {"cut"} : at' = [at EXCEPT ![r] = p]
    BY <1>10 DEF Places, Accept, RejectBody, StartRun, Handler, RunAsks, RunReturns, Reply, Expire,
         LogFailure, LogStep, Respond, reqVars
  <2> QED BY <2>1, <2>2, <2>3, RequestStep
<1>11. CASE UNCHANGED vars
  BY <1>11 DEF vars, mainVars, reqVars, PInv, ExitTellsTruth, Up
<1> QED BY <1>2, <1>3, <1>4, <1>5, <1>6, <1>7, <1>8, <1>9, <1>10, <1>11, <1>12 DEF Next, Main

\* For any number of requests: exit code 0 means a signal and no request cut
\* off, exit code 1 with a request cut off a signal or a failed server, and a
\* process killed is killed before main catches signals: main.run's returns.
THEOREM ExitsTruthfully == Spec => []ExitTellsTruth
<1>1. PInv => ExitTellsTruth
  BY DEF PInv
<1> QED BY <1>1, PInit, PStep, PTL DEF Spec

\* Whatever files and environments there are, main serves only with a
\* configuration whose defaults are set, that passed Validate and in which
\* the environment has won.
THEOREM RunsWithUsableConfig == Spec => []LoadedIsUsable
<1>1. PInv => LoadedIsUsable
  <2> SUFFICES ASSUME PInv, Up \/ proc = "stopping"
               PROVE  Usable(config) /\ EnvironmentWins(config, env)
    BY DEF LoadedIsUsable
  <2>1. Configuration(file) /\ env \in Overrides
    BY SettingsTyped DEF PInv
  <2>2. config = loaded(file, env) /\ Validate(loaded(file, env))
    BY DEF PInv
  <2> QED BY <2>1, <2>2, ValidIsUsable
<1> QED BY <1>1, PInit, PStep, PTL DEF Spec

----
(* The replies.                                                            *)

AnyRun == [outcome : Outcomes \cup {FreshRun.outcome},
           ctxDone : BOOLEAN, calls : 0..MaxCalls]

\* A handler has a run of its own between body and response, and a response
\* only while it writes one.
RInv ==
  /\ at \in [Requests -> Places]
  /\ runs \in [Requests -> AnyRun]
  /\ reply \in [Requests -> {<< >>} \cup ({200, 400, 500, 502, 504} \X ReplyCodes)]
  /\ \A r \in Requests :
       /\ at[r] \in {"none", "body", "over", "cut"} => runs[r] = FreshRun
       /\ at[r] = "running" => runs[r].outcome = FreshRun.outcome
       /\ at[r] # "replying" => reply[r] = << >>
  /\ ReplyIsTrue

\* ReplyIsTrue of one request.
TrueOf(run, answer) ==
  answer # << >> =>
    /\ answer[1] = 200 => run.outcome.answer # Empty /\ run.calls > 0
    /\ answer[1] = 504 => run.ctxDone
    /\ answer[1] = 400 => IF answer[2] = NoCode
                          THEN run = [FreshRun EXCEPT !.ctxDone = run.ctxDone]
                          ELSE run.calls > 0
    /\ run.outcome.code = ErrorOf[answer[2]]

LEMMA TrueOfAll == ReplyIsTrue <=> \A r \in Requests : TrueOf(runs[r], reply[r])
BY DEF ReplyIsTrue, TrueOf

LEMMA FreshTyped == FreshRun \in AnyRun
BY ServiceAssumption DEF FreshRun, AnyRun, Codes

Replies == {<< >>} \cup ({200, 400, 500, 502, 504} \X ReplyCodes)

\* What a step of one request has to show: the others are as they were.
LEMMA OneRequest ==
  ASSUME RInv, NEW r \in Requests,
         at' \in [Requests -> Places], runs' \in [Requests -> AnyRun],
         reply' \in [Requests -> Replies],
         \A q \in Requests \ {r} :
           at'[q] = at[q] /\ runs'[q] = runs[q] /\ reply'[q] = reply[q],
         at'[r] \in {"none", "body", "over", "cut"} => runs'[r] = FreshRun,
         at'[r] = "running" => runs'[r].outcome = FreshRun.outcome,
         at'[r] # "replying" => reply'[r] = << >>,
         TrueOf(runs'[r], reply'[r])
  PROVE  RInv'
<1>1. \A q \in Requests : TrueOf(runs'[q], reply'[q])
  BY TrueOfAll DEF RInv
<1>2. ReplyIsTrue'
  BY <1>1 DEF ReplyIsTrue, TrueOf
<1> QED BY <1>2 DEF RInv, Replies

\* A handler that begins to write its response.
LEMMA Replying ==
  ASSUME RInv, NEW r \in Requests,
         at' = [at EXCEPT ![r] = "replying"],
         runs' = [runs EXCEPT ![r] = runs'[r]], runs'[r] \in AnyRun,
         reply' = [reply EXCEPT ![r] = reply'[r]],
         reply'[r] \in {200, 400, 500, 502, 504} \X ReplyCodes,
         TrueOf(runs'[r], reply'[r])
  PROVE  RInv'
<1>1. at' \in [Requests -> Places] /\ at'[r] = "replying"
  BY DEF RInv, Places
<1>2. runs' \in [Requests -> AnyRun] /\ reply' \in [Requests -> Replies]
  BY DEF RInv, Replies
<1>3. \A q \in Requests \ {r} : at'[q] = at[q] /\ runs'[q] = runs[q] /\ reply'[q] = reply[q]
  BY DEF RInv
<1> QED BY <1>1, <1>2, <1>3, OneRequest

\* The table of classifyRunError.
LEMMA Classified ==
  ASSUME NEW code \in {NoCode, MaxIterationsExceeded, TimeoutExceeded, ContextWindowExceeded}
  PROVE  /\ classifyRunError(code) \in {400, 500, 502, 504} \X ReplyCodes
         /\ ErrorOf[classifyRunError(code)[2]] = code
         /\ classifyRunError(code)[1] = 504 => code = TimeoutExceeded
         /\ classifyRunError(code)[1] = 400 =>
              code = ContextWindowExceeded /\ classifyRunError(code)[2] # NoCode
BY DEF classifyRunError, isErr, Transient, IsTransientError, ReplyCodes, ErrorOf, NoCode,
       MaxIterationsExceeded, TimeoutExceeded, ContextWindowExceeded, GptOssUnreachable,
       ToolExecutionFailed

\* The response of a run that returns.
LEMMA ReturnStep ==
  ASSUME RInv, NEW r \in Requests, RunReturns(r)
  PROVE  RInv'
<1>1. PICK o \in Outcomes :
        /\ runs' = [runs EXCEPT ![r].outcome = o]
        /\ \/ Run(r)!Answer /\ Respond(r, 200, NoCode)
           \/ Run(r)!Fail
                /\ Respond(r, classifyRunError(o.code)[1], classifyRunError(o.code)[2])
  BY DEF RunReturns
<1> DEFINE run == [runs[r] EXCEPT !.outcome = o]
<1>2. runs[r] \in AnyRun /\ runs \in [Requests -> AnyRun] /\ at[r] = "running"
  BY DEF RInv, RunReturns, Running
<1>3. run \in AnyRun /\ runs' = [runs EXCEPT ![r] = run] /\ runs'[r].outcome = o
  BY <1>1, <1>2, ServiceAssumption DEF AnyRun, Outcomes, Codes
<1>4. run.outcome = o /\ run.ctxDone = runs[r].ctxDone /\ run.calls = runs[r].calls
  BY <1>2 DEF AnyRun
<1> HIDE DEF run
<1>5. CASE Run(r)!Answer /\ Respond(r, 200, NoCode)
  <2>1. runs[r].calls > 0 /\ \E a \in Texts \ {Empty} : o = Run(r)!Answered(a)
    BY <1>3, <1>5 DEF Run!Answer
  <2>2. o.answer # Empty /\ o.code = NoCode
    BY <2>1 DEF Run!Answered, Run!NoCode, NoCode
  <2>3. TrueOf(run, <<200, NoCode>>)
    BY <1>4, <2>1, <2>2 DEF TrueOf, ErrorOf, NoCode
  <2>4. <<200, NoCode>> \in {200, 400, 500, 502, 504} \X ReplyCodes
    BY DEF ReplyCodes
  <2>5. at' = [at EXCEPT ![r] = "replying"] /\ reply' = [reply EXCEPT ![r] = <<200, NoCode>>]
    BY <1>5 DEF Respond
  <2>6. reply'[r] = <<200, NoCode>> /\ runs'[r] = run
    BY <1>2, <1>3, <2>5 DEF RInv
  <2>7. runs' = [runs EXCEPT ![r] = runs'[r]] /\ reply' = [reply EXCEPT ![r] = reply'[r]]
    BY <1>3, <2>5, <2>6
  <2>8. runs'[r] \in AnyRun /\ TrueOf(runs'[r], reply'[r])
    BY <1>3, <2>3, <2>4, <2>6
  <2>9. reply'[r] \in {200, 400, 500, 502, 504} \X ReplyCodes
    BY <2>3, <2>4, <2>6
  <2>10. at' = [at EXCEPT ![r] = "replying"]
    BY <2>5
  <2> QED BY <2>7, <2>8, <2>9, <2>10, Replying, ZenonT(60)
<1>6. CASE /\ Run(r)!Fail
           /\ Respond(r, classifyRunError(o.code)[1], classifyRunError(o.code)[2])
  <2>1. PICK code \in {NoCode, MaxIterationsExceeded, TimeoutExceeded, ContextWindowExceeded} :
          /\ IF code = TimeoutExceeded THEN runs[r].ctxDone
             ELSE runs[r].calls > 0 \/ code = NoCode
          /\ o = Run(r)!Failed(code)
    BY <1>3, <1>6 DEF Run!Fail, Run!NoCode, NoCode, Run!TimeoutExceeded, TimeoutExceeded,
         Run!MaxIterationsExceeded, MaxIterationsExceeded,
         Run!ContextWindowExceeded, ContextWindowExceeded
  <2>2. o.code = code
    BY <2>1 DEF Run!Failed
  <2> DEFINE answer == <<classifyRunError(code)[1], classifyRunError(code)[2]>>
  <2>3. /\ answer \in {200, 400, 500, 502, 504} \X ReplyCodes
        /\ ErrorOf[answer[2]] = code
        /\ answer[1] # 200
        /\ answer[1] = 504 => code = TimeoutExceeded
        /\ answer[1] = 400 => code = ContextWindowExceeded /\ answer[2] # NoCode
    BY <2>1, Classified
  <2> HIDE DEF answer
  <2>4. TrueOf(run, answer)
    <3>1. ContextWindowExceeded # NoCode /\ ContextWindowExceeded # TimeoutExceeded
      BY DEF ContextWindowExceeded, NoCode, TimeoutExceeded
    <3> QED BY <1>4, <2>1, <2>2, <2>3, <3>1 DEF TrueOf
  <2>5. at' = [at EXCEPT ![r] = "replying"] /\ reply' = [reply EXCEPT ![r] = answer]
    BY <1>6, <2>2 DEF Respond, answer
  <2>6. reply'[r] = answer /\ runs'[r] = run
    BY <1>2, <1>3, <2>5 DEF RInv
  <2>7. runs' = [runs EXCEPT ![r] = runs'[r]] /\ reply' = [reply EXCEPT ![r] = reply'[r]]
    BY <1>3, <2>5, <2>6
  <2>8. runs'[r] \in AnyRun /\ TrueOf(runs'[r], reply'[r])
    BY <1>3, <2>3, <2>4, <2>6
  <2>9. reply'[r] \in {200, 400, 500, 502, 504} \X ReplyCodes
    BY <2>3, <2>4, <2>6
  <2>10. at' = [at EXCEPT ![r] = "replying"]
    BY <2>5
  <2> QED BY <2>7, <2>8, <2>9, <2>10, Replying, ZenonT(60)
<1> QED BY <1>1, <1>5, <1>6

\* A request that is moved on, with the run and the response it then has.
LEMMA Moved ==
  ASSUME RInv, NEW r \in Requests, NEW p \in Places \ {"replying"}, at' = [at EXCEPT ![r] = p],
         \/ UNCHANGED runs /\ (p = "running" \/ runs[r] = FreshRun)
         \/ runs' = [runs EXCEPT ![r] = FreshRun],
         runs[r].outcome = FreshRun.outcome \/ runs'[r] = FreshRun,
         \/ UNCHANGED reply /\ reply[r] = << >>
         \/ reply' = [reply EXCEPT ![r] = << >>]
  PROVE  RInv'
<1>1. at' \in [Requests -> Places] /\ at'[r] = p
  BY DEF RInv
<1>2. runs' \in [Requests -> AnyRun] /\ (p = "running" \/ runs'[r] = FreshRun)
  BY FreshTyped DEF RInv
<1>3. runs'[r].outcome = FreshRun.outcome
  BY <1>2
<1>4. reply' \in [Requests -> Replies] /\ reply'[r] = << >>
  BY DEF RInv, Replies
<1>5. \A q \in Requests \ {r} : at'[q] = at[q] /\ runs'[q] = runs[q] /\ reply'[q] = reply[q]
  BY DEF RInv
<1>6. TrueOf(runs'[r], reply'[r])
  BY <1>4 DEF TrueOf
<1> QED BY <1>1, <1>2, <1>3, <1>4, <1>5, <1>6, OneRequest

\* A step of a running run that does not end it.
LEMMA StillRunning ==
  ASSUME RInv, NEW r \in Requests, at[r] = "running", UNCHANGED <<at, reply>>,
         RunAsks(r) \/ Expire(r)
  PROVE  RInv'
<1>1. runs \in [Requests -> AnyRun] /\ runs[r] \in AnyRun /\ reply[r] = << >>
      /\ runs[r].outcome = FreshRun.outcome
  BY DEF RInv
<1>2. runs' \in [Requests -> AnyRun]
      /\ runs'[r].outcome = runs[r].outcome
  <2>1. CASE RunAsks(r)
    <3>1. runs[r].calls < MaxCalls /\ runs[r].calls + 1 \in 0..MaxCalls
      BY <1>1, <2>1, ServiceAssumption DEF RunAsks, Run!Ask, AnyRun
    <3>2. [runs[r] EXCEPT !.calls = @ + 1] \in AnyRun
      BY <1>1, <3>1 DEF AnyRun
    <3> QED BY <1>1, <2>1, <3>2 DEF RunAsks, AnyRun
  <2>2. CASE Expire(r)
    BY <1>1, <2>2 DEF Expire, AnyRun
  <2> QED BY <2>1, <2>2
<1>3. \A q \in Requests \ {r} : runs'[q] = runs[q]
  BY <1>1 DEF RunAsks, Expire
<1>4. TrueOf(runs'[r], reply'[r])
  BY <1>1 DEF TrueOf
<1>5. at' \in [Requests -> Places] /\ reply' \in [Requests -> Replies]
  BY DEF RInv, Replies
<1> QED BY <1>1, <1>2, <1>3, <1>4, <1>5, OneRequest

LEMMA RInit == Init => RInv
<1> SUFFICES ASSUME Init PROVE RInv
  OBVIOUS
<1>1. \A r \in Requests : at[r] = "none" /\ runs[r] = FreshRun /\ reply[r] = << >>
  BY DEF Init
<1>2. at \in [Requests -> Places] /\ runs \in [Requests -> AnyRun]
  BY FreshTyped DEF Init, Places
<1>3. reply \in [Requests -> {<< >>} \cup ({200, 400, 500, 502, 504} \X ReplyCodes)]
  BY DEF Init
<1>4. ReplyIsTrue
  BY <1>1 DEF ReplyIsTrue
<1> QED BY <1>1, <1>2, <1>3, <1>4 DEF RInv

LEMMA RStep == RInv /\ [Next]_vars => RInv'
<1> SUFFICES ASSUME RInv, [Next]_vars PROVE RInv'
  OBVIOUS
<1>1. CASE UNCHANGED reqVars
  BY <1>1 DEF reqVars, RInv, ReplyIsTrue
<1>2. ASSUME NEW n, Exit(n) PROVE RInv'
  <2>1. \A r \in Requests : /\ at'[r] \in {"none", "over", "cut"}
                            /\ runs'[r] = FreshRun /\ reply'[r] = << >>
    BY <1>2 DEF Exit, Open, RInv, Places
  <2>2. at' \in [Requests -> Places] /\ runs' \in [Requests -> AnyRun]
    BY <1>2, FreshTyped DEF Exit, RInv, Places
  <2>3. reply' \in [Requests -> {<< >>} \cup ({200, 400, 500, 502, 504} \X ReplyCodes)]
    BY <1>2 DEF Exit
  <2>4. ReplyIsTrue'
    BY <2>1 DEF ReplyIsTrue
  <2> QED BY <2>1, <2>2, <2>3, <2>4 DEF RInv
<1>3. CASE Main \/ Killed \/ Signal \/ ShutdownTimesOut \/ Listens \/ ServerFails \/ Midnight
  BY <1>1, <1>2, <1>3 DEF Main, StartFails, Start, Notify, TakeSignal, TakeServerErr,
       ShutdownEnds, Killed, Signal, ShutdownTimesOut, Listens, ServerFails, Midnight
<1>4. ASSUME NEW r \in Requests, Accept(r) PROVE RInv'
  <2>1. at' = [at EXCEPT ![r] = "body"] /\ UNCHANGED <<runs, reply>>
    BY <1>4 DEF Accept
  <2>2. runs[r] = FreshRun /\ reply[r] = << >>
    BY <1>4 DEF Accept, RInv
  <2>3. "body" \in Places \ {"replying"}
    BY DEF Places
  <2> QED BY <2>1, <2>2, <2>3, Moved
<1>5. ASSUME NEW r \in Requests, StartRun(r) PROVE RInv'
  <2>1. at' = [at EXCEPT ![r] = "running"] /\ UNCHANGED <<runs, reply>>
    BY <1>5 DEF StartRun
  <2>2. runs[r] = FreshRun /\ reply[r] = << >>
    BY <1>5 DEF StartRun, RInv
  <2>3. "running" \in Places \ {"replying"}
    BY DEF Places
  <2> QED BY <2>1, <2>2, <2>3, Moved
<1>6. ASSUME NEW r \in Requests, Reply(r) PROVE RInv'
  <2>1. /\ at' = [at EXCEPT ![r] = "over"] /\ runs' = [runs EXCEPT ![r] = FreshRun]
        /\ reply' = [reply EXCEPT ![r] = << >>]
    BY <1>6 DEF Reply
  <2>2. runs'[r] = FreshRun
    BY <2>1 DEF RInv
  <2>3. "over" \in Places \ {"replying"}
    BY DEF Places
  <2> QED BY <2>1, <2>2, <2>3, Moved
<1>7. ASSUME NEW r \in Requests, RejectBody(r) PROVE RInv'
  <2>1. at' = [at EXCEPT ![r] = "replying"] /\ reply' = [reply EXCEPT ![r] = <<400, NoCode>>]
        /\ UNCHANGED runs /\ at[r] = "body"
    BY <1>7 DEF RejectBody, Respond
  <2>2. runs[r] = FreshRun /\ runs \in [Requests -> AnyRun]
    BY <2>1 DEF RInv
  <2>3. reply'[r] = <<400, NoCode>> /\ reply' = [reply EXCEPT ![r] = reply'[r]]
    BY <2>1 DEF RInv
  <2>4. reply'[r] \in {200, 400, 500, 502, 504} \X ReplyCodes
    BY <2>3 DEF ReplyCodes
  <2>5. runs' = [runs EXCEPT ![r] = runs'[r]] /\ runs'[r] \in AnyRun
    BY <2>1, <2>2
  <2>6. TrueOf(runs'[r], reply'[r])
    <3>1. FreshRun = [FreshRun EXCEPT !.ctxDone = FreshRun.ctxDone]
          /\ FreshRun.outcome.code = NoCode
      BY DEF FreshRun
    <3>2. ErrorOf[NoCode] = NoCode
      BY DEF ErrorOf, NoCode
    <3> QED BY <2>1, <2>2, <2>3, <3>1, <3>2 DEF TrueOf
  <2>7. at' = [at EXCEPT ![r] = "replying"]
    BY <2>1
  <2> QED BY <2>3, <2>4, <2>5, <2>6, <2>7, Replying, ZenonT(60)
<1>8. ASSUME NEW r \in Requests, RunAsks(r) \/ Expire(r) PROVE RInv'
  BY <1>8, StillRunning DEF RunAsks, Expire, Running
<1>9. ASSUME NEW r \in Requests, RunReturns(r) PROVE RInv'
  BY <1>9, ReturnStep
<1>10. ASSUME NEW r \in Requests, LogFailure(r) \/ LogStep(r) PROVE RInv'
  BY <1>1, <1>10 DEF LogFailure, LogStep
<1>11. CASE UNCHANGED vars
  BY <1>1, <1>11 DEF vars
<1> QED BY <1>3, <1>4, <1>5, <1>6, <1>7, <1>8, <1>9, <1>10, <1>11 DEF Next, Handler

\* For any number of concurrent requests a response tells the truth about the
\* run it belongs to: handleChatCompletions and classifyRunError.
THEOREM RepliesAreTrue == Spec => []ReplyIsTrue
<1>1. RInv => ReplyIsTrue
  BY DEF RInv
<1> QED BY <1>1, RInit, RStep, PTL DEF Spec

----
(* The types.                                                              *)

\* What neither PInv nor RInv says of the types.
MInv ==
  /\ exitCode \in {-1, 0, 1, 143} /\ DOMAIN config = Fields
  /\ server \in {"opening", "accepting", "failed", "closed"} /\ signalled \in BOOLEAN

LEMMA MInit == Init => MInv
<1> SUFFICES ASSUME Init PROVE MInv
  OBVIOUS
<1>1. PICK s \in Settings : file = s.file
  BY DEF Init
<1>2. DOMAIN file = Fields
  BY <1>1, ServiceAssumption DEF Configuration
<1> QED BY <1>2 DEF Init, MInv

LEMMA MStep == MInv /\ [Next]_vars => MInv'
<1> SUFFICES ASSUME MInv, [Next]_vars PROVE MInv'
  OBVIOUS
<1>1. DOMAIN loaded(file, env) = Fields
  BY DEF loaded, applyDefaults
<1>2. CASE Main \/ Killed \/ ShutdownTimesOut
  <2>1. CASE StartFails \/ Start \/ Notify
    BY <1>1, <2>1 DEF MInv, StartFails, Start, Notify, Exit
  <2>2. CASE TakeSignal \/ TakeServerErr \/ ShutdownEnds
    BY <2>2 DEF MInv, TakeSignal, TakeServerErr, ShutdownEnds, Exit
  <2>3. CASE Killed \/ ShutdownTimesOut
    BY <2>3 DEF MInv, Killed, ShutdownTimesOut, Exit
  <2> QED BY <1>2, <2>1, <2>2, <2>3 DEF Main
<1>4. CASE Signal \/ Listens \/ ServerFails \/ Midnight
  <2>1. UNCHANGED <<exitCode, config>>
    BY <1>4 DEF Signal, Listens, ServerFails, Midnight, mainVars
  <2>2. signalled' \in {signalled, TRUE} /\ server' \in {server, "accepting", "failed"}
    BY <1>4 DEF Signal, Listens, ServerFails, Midnight, mainVars
  <2> QED BY <2>1, <2>2 DEF MInv
<1>3. ASSUME NEW r \in Requests,
             \/ Accept(r) \/ RejectBody(r) \/ StartRun(r) \/ Handler(r)
             \/ Expire(r) \/ LogFailure(r) \/ LogStep(r)
      PROVE  UNCHANGED mainVars
  BY <1>3 DEF Accept, RejectBody, StartRun, Handler, RunAsks, RunReturns, Reply, Expire,
       LogFailure, LogStep
<1>5. CASE UNCHANGED mainVars
  BY <1>5 DEF MInv, mainVars
<1> QED BY <1>2, <1>3, <1>4, <1>5 DEF Next, vars

\* For any requests, settings and bounds the variables of the process keep
\* their types; among them the statuses a response can have.
THEOREM ServiceTypeCorrect == Spec => []TypeOK
<1>1. LInv /\ PInv /\ RInv /\ MInv => TypeOK
  BY DEF LInv, PInv, RInv, MInv, TypeOK, Places, AnyRun
<1> QED BY <1>1, LogInvariant, PInit, PStep, RInit, RStep, MInit, MStep, PTL DEF Spec

====
