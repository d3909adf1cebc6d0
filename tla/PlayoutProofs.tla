---------------------------- MODULE PlayoutProofs ----------------------------
(***************************************************************************)
(* Proofs about Filters and Playout, for any sources, rates and settings   *)
(* and without the bounds on pushes, calls and faults.                     *)
(***************************************************************************)
EXTENDS Playout, TLAPS

-----------------------------------------------------------------------------
(* The filters: what relates the biquads, the two threads and the mutex    *)

Rate0 == Rates \cup {0}
AnyRate == Rate0 \cup {BuiltRate}
Coeffs == Nat \X AnyRate
TBiquad == [filter : Nat, rate : AnyRate, coeffs : Coeffs]

SetterState ==
  [pc : {"idle", "set", "store"}, i : Nat \ {0}, arg : Nat, new : Coeffs]
ProcessState ==
  [pc : {"idle", "volume", "lock", "rates", "store", "process", "done"},
   i : Nat \ {0}, arg : Rate0, new : Coeffs]

FiltersTypeOK ==
  /\ node \in Nodes
  /\ bq \in Seq(TBiquad)
  /\ mutex \in {"free", "app", "main"}
  /\ app \in SetterState
  /\ main \in ProcessState
  /\ used \in Seq(Coeffs)
  /\ conf \in Rate0
  /\ set \in Nat /\ due \in Nat /\ raced \in BOOLEAN

InFilters == {"rates", "store", "process"}

\* Peq and Crossover at any time, Loudness until a setLevel has run beside
\* the filters of a buffer.
Clean == node = "loudness" => ~raced

\* Who holds m_mutex; setLevel of Loudness never does.
MutexInv ==
  /\ mutex = "main" <=> main.pc \in InFilters
  /\ mutex = "app" <=> app.pc # "idle" /\ node # "loudness"

\* So setter and filters meet in a Loudness only, which then counts as raced.
ExclusionInv == Clean => app.pc = "idle" \/ main.pc \notin InFilters

\* Whoever is about to store coefficients stores them in a biquad there is,
\* and onProcess begins with the first one.
IndexInv ==
  /\ main.pc \in {"idle", "volume", "lock"} => main.i = 1
  /\ app.pc = "store" => app.i <= Len(bq)
  /\ main.pc = "store" => main.i <= Len(bq)

\* The biquads a setter has visited have its setting; once it returns all
\* have.  What is about to be stored is up to date.
SettingInv ==
  /\ app.pc = "idle" => \A j \in DOMAIN bq : bq[j].filter = set
  /\ app.pc # "idle" =>
       \A j \in DOMAIN bq : j < app.i => bq[j].filter = app.arg
  /\ app.pc = "store" =>
       bq[app.i].filter = app.arg /\ app.new = <<app.arg, bq[app.i].rate>>
  /\ main.pc = "store" => main.new = <<bq[main.i].filter, main.arg>>

\* Coefficients belong to the filter and the rate of their biquad, except
\* between the two halves of update().
CoeffInv ==
  \A j \in DOMAIN bq :
    \/ bq[j].coeffs = <<bq[j].filter, bq[j].rate>>
    \/ app.pc = "store" /\ j = app.i
    \/ main.pc = "store" /\ j = main.i

\* onProcess works with the setting it found, and has told its rate to the
\* biquads it has visited.
RateInv ==
  /\ main.pc \in InFilters => due = set
  /\ main.pc \in {"rates", "store"} =>
       \A j \in DOMAIN bq : j < main.i => bq[j].rate = main.arg
  /\ main.pc = "store" => bq[main.i].rate = main.arg
  /\ main.pc = "process" /\ node # "crossover" =>
       \A j \in DOMAIN bq : bq[j].rate = main.arg

\* What the buffer has been filtered with so far.
UsedInv ==
  \A i \in DOMAIN used :
    /\ used[i][1] = due
    /\ node # "crossover" => used[i][2] = main.arg

FiltersInv ==
  /\ FiltersTypeOK /\ MutexInv /\ ExclusionInv /\ IndexInv
  /\ main.pc \notin {"process", "done"} => used = <<>>
  /\ Clean => SettingInv /\ CoeffInv /\ RateInv /\ UsedInv

-----------------------------------------------------------------------------
(* The sinks *)

SourceRec == [started : BOOLEAN, pushed : Nat, receiving : BOOLEAN,
              buffer : Nat, conf : Rate0]
Frame == [src : Sources, id : Sources \X Nat, ec : {"pending", "ok", "error"}]
Device == [socket : {"closed", "opening", "up", "broken"}, stream : Rate0,
           runs : BOOLEAN, config : Rate0, by : Sources \cup {"none"},
           open : BOOLEAN, name : {1, 2}]
Output == [src : Sources, n : Nat, rate : Rate0, stream : Rate0,
           by : Sources \cup {"none"}]

SinksTypeOK ==
  /\ src \in [Sources -> SourceRec]
  /\ stack \in Seq(Frame)
  /\ current \in Sources \cup {"none"}
  /\ dev \in Device
  /\ out \in Seq(Output)

\* A push that waits is the last one of its source, which receives nothing
\* meanwhile and therefore waits once; so does the one in the filter.
WaitingOK(frames, sources, inFilter) ==
  /\ \A i \in DOMAIN frames :
       LET s == frames[i].src IN
       /\ ~sources[s].receiving
       /\ sources[s].buffer = sources[s].pushed
       /\ frames[i].id[2] = sources[s].pushed
       /\ s # inFilter
  /\ \A i, j \in DOMAIN frames : frames[i].src = frames[j].src => i = j
  /\ inFilter # "none" =>
       /\ ~sources[inFilter].receiving
       /\ sources[inFilter].buffer = sources[inFilter].pushed

\* What a source has had played was pushed, and before what waits.
OutOK(played, sources) ==
  /\ \A i \in DOMAIN played :
       LET s == played[i].src IN
       /\ played[i].n <= sources[s].pushed
       /\ ~sources[s].receiving => played[i].n < sources[s].pushed
  /\ \A i, j \in DOMAIN played :
       i < j /\ played[i].src = played[j].src => played[i].n < played[j].n

\* A stream that runs is open with the configuration.
StreamOK(d) == d.stream # 0 /\ d.runs => d.stream = d.config

\* PortAudioSink has the configuration of the source that pushed one last,
\* and the buffer in the filter that of its source.
ConfigInv ==
  /\ StreamOK(dev)
  /\ dev.by # "none" => dev.config = src[dev.by].conf
  /\ current # "none" => main.arg = src[current].conf

SinksInv ==
  /\ SinksTypeOK
  /\ WaitingOK(stack, src, current)
  /\ OutOK(out, src)
  /\ ConfigInv
-----------------------------------------------------------------------------
(* Filters: the first state *)

LEMMA FiltersStart == FiltersInit => FiltersInv
<1> SUFFICES ASSUME FiltersInit PROVE FiltersInv
  OBVIOUS
<1> DEFINE n == CASE node = "loudness" -> 3
                  [] node = "crossover" -> 2
                  [] node \in {"none", "peq"} -> 0
<1>1. n \in Nat
  BY DEF FiltersInit, Nodes
<1>2. bq = [i \in 1 .. n |-> Biquad(BuiltRate)]
  BY DEF FiltersInit
<1> HIDE DEF n
<1>3. Biquad(BuiltRate) \in TBiquad
  BY DEF Biquad, TBiquad, Coeffs, AnyRate
<1>4. bq \in Seq(TBiquad) /\ \A i \in DOMAIN bq : bq[i] = Biquad(BuiltRate)
  BY <1>1, <1>2, <1>3
<1>5. /\ app.pc = "idle" /\ main.pc = "idle" /\ main.i = 1 /\ used = <<>>
      /\ mutex = "free" /\ set = 0
  BY DEF FiltersInit, Idle
<1>6. FiltersTypeOK
  <2>1. <<0, 0>> \in Coeffs /\ 0 \in Rate0
    BY DEF Coeffs, AnyRate, Rate0
  <2>2. used \in Seq(Coeffs)
    BY <1>5
  <2>3. QED
    <3>1. /\ app = [pc |-> "idle", i |-> 1, arg |-> 0, new |-> <<0, 0>>]
          /\ main = app
      BY DEF FiltersInit, Idle
    <3>2. app \in SetterState /\ main \in ProcessState
      BY <2>1, <3>1 DEF SetterState, ProcessState
    <3>4. /\ node \in Nodes /\ conf \in Rate0 /\ set \in Nat /\ due \in Nat
          /\ raced \in BOOLEAN /\ mutex \in {"free", "app", "main"}
      BY <2>1 DEF FiltersInit
    <3>5. QED
      BY <1>4, <2>2, <3>2, <3>4 DEF FiltersTypeOK
<1>7. SettingInv /\ CoeffInv
  BY <1>4, <1>5 DEF SettingInv, CoeffInv, Biquad
<1>8. MutexInv /\ ExclusionInv /\ IndexInv /\ RateInv /\ UsedInv
  BY <1>5 DEF MutexInv, ExclusionInv, IndexInv, RateInv, UsedInv, InFilters
<1>9. QED
  BY <1>5, <1>6, <1>7, <1>8 DEF FiltersInv

(* The threads change one biquad at a time *)

LEMMA SeqChanged ==
  ASSUME NEW T, NEW q \in Seq(T), NEW i \in 1 .. Len(q), NEW e \in T
  PROVE  LET p == [q EXCEPT ![i] = e] IN
         /\ p \in Seq(T) /\ Len(p) = Len(q) /\ DOMAIN p = DOMAIN q
         /\ p[i] = e
         /\ \A j \in DOMAIN q : j # i => p[j] = q[j]
  OBVIOUS

LEMMA FilterChanged ==
  ASSUME NEW q \in Seq(TBiquad), NEW i \in 1 .. Len(q), NEW x \in Nat
  PROVE  LET p == [q EXCEPT ![i].filter = x] IN
         /\ p \in Seq(TBiquad) /\ Len(p) = Len(q) /\ DOMAIN p = DOMAIN q
         /\ p[i].filter = x /\ p[i].rate = q[i].rate
         /\ p[i].coeffs = q[i].coeffs
         /\ \A j \in DOMAIN q : j # i => p[j] = q[j]
<1> DEFINE e == [q[i] EXCEPT !.filter = x]
<1>1. q[i] \in TBiquad
  OBVIOUS
<1>2. /\ e \in TBiquad
      /\ e.filter = x /\ e.rate = q[i].rate /\ e.coeffs = q[i].coeffs
  BY <1>1 DEF TBiquad
<1>3. [q EXCEPT ![i].filter = x] = [q EXCEPT ![i] = e]
  OBVIOUS
<1> HIDE DEF e
<1>4. QED
  BY <1>2, <1>3, SeqChanged

LEMMA RateChanged ==
  ASSUME NEW q \in Seq(TBiquad), NEW i \in 1 .. Len(q), NEW x \in AnyRate
  PROVE  LET p == [q EXCEPT ![i].rate = x] IN
         /\ p \in Seq(TBiquad) /\ Len(p) = Len(q) /\ DOMAIN p = DOMAIN q
         /\ p[i].rate = x /\ p[i].filter = q[i].filter
         /\ p[i].coeffs = q[i].coeffs
         /\ \A j \in DOMAIN q : j # i => p[j] = q[j]
<1> DEFINE e == [q[i] EXCEPT !.rate = x]
<1>1. q[i] \in TBiquad
  OBVIOUS
<1>2. /\ e \in TBiquad
      /\ e.rate = x /\ e.filter = q[i].filter /\ e.coeffs = q[i].coeffs
  BY <1>1 DEF TBiquad
<1>3. [q EXCEPT ![i].rate = x] = [q EXCEPT ![i] = e]
  OBVIOUS
<1> HIDE DEF e
<1>4. QED
  BY <1>2, <1>3, SeqChanged

LEMMA CoeffsChanged ==
  ASSUME NEW q \in Seq(TBiquad), NEW i \in 1 .. Len(q), NEW x \in Coeffs
  PROVE  LET p == [q EXCEPT ![i].coeffs = x] IN
         /\ p \in Seq(TBiquad) /\ Len(p) = Len(q) /\ DOMAIN p = DOMAIN q
         /\ p[i].coeffs = x /\ p[i].filter = q[i].filter
         /\ p[i].rate = q[i].rate
         /\ \A j \in DOMAIN q : j # i => p[j] = q[j]
<1> DEFINE e == [q[i] EXCEPT !.coeffs = x]
<1>1. q[i] \in TBiquad
  OBVIOUS
<1>2. /\ e \in TBiquad
      /\ e.coeffs = x /\ e.filter = q[i].filter /\ e.rate = q[i].rate
  BY <1>1 DEF TBiquad
<1>3. [q EXCEPT ![i].coeffs = x] = [q EXCEPT ![i] = e]
  OBVIOUS
<1> HIDE DEF e
<1>4. QED
  BY <1>2, <1>3, SeqChanged
-----------------------------------------------------------------------------
(* Filters: the thread of the application *)

\* The setter comes to the next biquad.
LEMMA SetOneKeeps ==
  ASSUME FiltersInv, SetOne
  PROVE  FiltersInv'
<1> USE DEF FiltersInv
<1>1. /\ main' = main /\ node' = node /\ mutex' = mutex /\ used' = used
      /\ conf' = conf /\ set' = set /\ due' = due /\ raced' = raced
  BY DEF SetOne, ghosts
<1>2. /\ app.pc = "set" /\ app.i \in 1 .. Len(bq) /\ app.arg \in Nat
      /\ bq \in Seq(TBiquad) /\ DOMAIN bq = 1 .. Len(bq)
      /\ bq[app.i] \in TBiquad /\ app \in SetterState
  BY DEF SetOne, NumBiquads, FiltersTypeOK, SetterState
<1>3. CASE bq[app.i].filter = app.arg
  <2>1. bq' = bq /\ app' = [app EXCEPT !.i = app.i + 1]
    BY <1>3 DEF SetOne, setFilter
  <2>2. /\ app' \in SetterState
        /\ app'.pc = "set" /\ app'.i = app.i + 1 /\ app'.arg = app.arg
    BY <1>2, <2>1 DEF SetterState
  <2>3. FiltersTypeOK' /\ MutexInv' /\ ExclusionInv' /\ IndexInv'
    BY <1>1, <1>2, <2>1, <2>2
    DEF FiltersTypeOK, MutexInv, ExclusionInv, IndexInv, Clean
  <2>4. Clean' => SettingInv' /\ CoeffInv' /\ RateInv' /\ UsedInv'
    BY <1>1, <1>2, <1>3, <2>1, <2>2
    DEF SettingInv, CoeffInv, RateInv, UsedInv, Clean
  <2>5. QED
    BY <1>1, <2>3, <2>4
<1>4. CASE bq[app.i].filter # app.arg
  <2>1. /\ bq' = [bq EXCEPT ![app.i].filter = app.arg]
        /\ app' = [app EXCEPT !.pc = "store",
                              !.new = <<app.arg, bq[app.i].rate>>]
    BY <1>4 DEF SetOne, setFilter
  <2>2. /\ app' \in SetterState
        /\ app'.pc = "store" /\ app'.i = app.i /\ app'.arg = app.arg
        /\ app'.new = <<app.arg, bq[app.i].rate>>
    BY <1>2, <2>1 DEF SetterState, TBiquad, Coeffs
  <2>3. /\ bq' \in Seq(TBiquad) /\ Len(bq') = Len(bq)
        /\ DOMAIN bq' = DOMAIN bq
        /\ bq'[app.i].filter = app.arg /\ bq'[app.i].rate = bq[app.i].rate
        /\ \A j \in DOMAIN bq : j # app.i => bq'[j] = bq[j]
    BY <1>2, <2>1, FilterChanged
  <2>4. FiltersTypeOK' /\ MutexInv' /\ ExclusionInv' /\ IndexInv'
    BY <1>1, <1>2, <2>2, <2>3
    DEF FiltersTypeOK, MutexInv, ExclusionInv, IndexInv, Clean
  <2>5. ASSUME Clean PROVE SettingInv' /\ CoeffInv' /\ RateInv' /\ UsedInv'
    <3>1. main.pc \notin InFilters
      BY <1>2, <2>5 DEF ExclusionInv
    <3>2. SettingInv' /\ CoeffInv'
      BY <1>1, <1>2, <2>2, <2>3, <2>5, <3>1
      DEF SettingInv, CoeffInv, InFilters
    <3>3. RateInv' /\ UsedInv'
      BY <1>1, <2>5, <3>1 DEF RateInv, UsedInv, InFilters
    <3>4. QED
      BY <3>2, <3>3
  <2>6. QED
    BY <1>1, <2>4, <2>5 DEF Clean
<1>5. QED
  BY <1>3, <1>4

\* The second half of update() in the setter.
LEMMA StoreOneKeeps ==
  ASSUME FiltersInv, StoreOne
  PROVE  FiltersInv'
<1> USE DEF FiltersInv
<1>1. /\ main' = main /\ node' = node /\ mutex' = mutex /\ used' = used
      /\ conf' = conf /\ set' = set /\ due' = due /\ raced' = raced
  BY DEF StoreOne, ghosts
<1>2. /\ app.pc = "store" /\ app.i \in 1 .. Len(bq) /\ app.new \in Coeffs
      /\ bq \in Seq(TBiquad) /\ DOMAIN bq = 1 .. Len(bq)
      /\ app \in SetterState
  BY DEF StoreOne, IndexInv, FiltersTypeOK, SetterState
<1>3. /\ bq' = [bq EXCEPT ![app.i].coeffs = app.new]
      /\ app' = [app EXCEPT !.pc = "set", !.i = app.i + 1]
  BY DEF StoreOne, update
<1>4. /\ app' \in SetterState
      /\ app'.pc = "set" /\ app'.i = app.i + 1 /\ app'.arg = app.arg
  <2>1. app' = [pc |-> "set", i |-> app.i + 1, arg |-> app.arg,
                new |-> app.new]
    BY <1>2, <1>3 DEF SetterState
  <2>2. QED
    BY <1>2, <2>1 DEF SetterState
<1>5. /\ bq' \in Seq(TBiquad) /\ Len(bq') = Len(bq)
      /\ DOMAIN bq' = DOMAIN bq
      /\ bq'[app.i].filter = bq[app.i].filter
      /\ bq'[app.i].rate = bq[app.i].rate
      /\ bq'[app.i].coeffs = app.new
      /\ \A j \in DOMAIN bq : j # app.i => bq'[j] = bq[j]
  BY <1>2, <1>3, CoeffsChanged
<1>6. FiltersTypeOK' /\ MutexInv' /\ ExclusionInv' /\ IndexInv'
  BY <1>1, <1>2, <1>4, <1>5
  DEF FiltersTypeOK, MutexInv, ExclusionInv, IndexInv, Clean
<1>7. ASSUME Clean PROVE SettingInv' /\ CoeffInv' /\ RateInv' /\ UsedInv'
  <2>1. main.pc \notin InFilters
    BY <1>2, <1>7 DEF ExclusionInv
  <2>2. SettingInv' /\ CoeffInv'
    BY <1>1, <1>2, <1>4, <1>5, <1>7, <2>1
    DEF SettingInv, CoeffInv, InFilters
  <2>3. RateInv' /\ UsedInv'
    BY <1>1, <1>7, <2>1 DEF RateInv, UsedInv, InFilters
  <2>4. QED
    BY <2>2, <2>3
<1>8. QED
  BY <1>1, <1>6, <1>7 DEF Clean

\* The setter returns: every biquad has its setting.
LEMMA EndSetterKeeps ==
  ASSUME FiltersInv, EndSetter
  PROVE  FiltersInv'
<1> USE DEF FiltersInv
<1>1. /\ main' = main /\ node' = node /\ bq' = bq /\ used' = used
      /\ conf' = conf /\ due' = due /\ raced' = raced
      /\ set' = app.arg /\ app' = Idle
      /\ mutex' = IF node = "loudness" THEN mutex ELSE "free"
  BY DEF EndSetter
<1>2. app.pc = "set" /\ app.i > Len(bq) /\ app.i \in Nat /\ app.arg \in Nat
  BY DEF EndSetter, NumBiquads, FiltersTypeOK, SetterState
<1>3. app' \in SetterState /\ app'.pc = "idle"
  BY <1>1 DEF SetterState, Idle, Coeffs, AnyRate, Rate0
<1>4. \A j \in DOMAIN bq : j < app.i
  BY <1>2 DEF FiltersTypeOK
<1>5. FiltersTypeOK' /\ MutexInv' /\ ExclusionInv' /\ IndexInv'
  BY <1>1, <1>2, <1>3
  DEF FiltersTypeOK, MutexInv, ExclusionInv, IndexInv, InFilters
<1>6. ASSUME Clean PROVE SettingInv' /\ CoeffInv' /\ RateInv' /\ UsedInv'
  <2>1. main.pc \notin InFilters
    BY <1>2, <1>6 DEF ExclusionInv
  <2>2. SettingInv' /\ CoeffInv'
    BY <1>1, <1>2, <1>3, <1>4, <1>6, <2>1
    DEF SettingInv, CoeffInv, InFilters
  <2>3. RateInv' /\ UsedInv'
    BY <1>1, <1>6, <2>1 DEF RateInv, UsedInv, InFilters
  <2>4. QED
    BY <2>2, <2>3
<1>7. QED
  BY <1>1, <1>5, <1>6 DEF Clean
\* Peq's deque resized: the biquads that stay are as they were.
LEMMA ResizedFacts ==
  ASSUME FiltersTypeOK, NEW n \in Nat
  PROVE  /\ Resized(n) \in Seq(TBiquad)
         /\ DOMAIN Resized(n) = 1 .. n
         /\ \A j \in 1 .. n : \/ j \in DOMAIN bq /\ Resized(n)[j] = bq[j]
                              \/ Resized(n)[j] = Biquad(conf)
<1>1. Biquad(conf) \in TBiquad
  BY DEF FiltersTypeOK, Biquad, TBiquad, Coeffs, AnyRate
<1>2. bq \in Seq(TBiquad) /\ DOMAIN bq = 1 .. Len(bq)
  BY DEF FiltersTypeOK
<1>3. \A j \in 1 .. n : (IF j <= NumBiquads THEN bq[j] ELSE Biquad(conf))
                           \in TBiquad
  BY <1>1, <1>2 DEF NumBiquads
<1>4. QED
  BY <1>1, <1>2, <1>3 DEF Resized, NumBiquads

\* A setter begins: under the mutex or, in Loudness, without.
LEMMA CallSetterKeeps ==
  ASSUME FiltersInv, CallSetter
  PROVE  FiltersInv'
<1> USE DEF FiltersInv
<1>1. /\ main' = main /\ node' = node /\ used' = used /\ conf' = conf
      /\ due' = due /\ set' = set
      /\ raced' = (raced \/ main.pc \in InFilters)
      /\ app.pc = "idle"
  BY DEF CallSetter, Setter, InFilters
<1>2. PICK arg \in Settings :
         /\ Setter(arg)
         /\ bq' = IF node = "peq" THEN Resized(arg) ELSE bq
  BY DEF CallSetter
<1>3. /\ app' = [pc |-> "set", i |-> 1, arg |-> arg, new |-> <<0, 0>>]
      /\ IF node = "loudness" THEN mutex' = mutex
         ELSE mutex = "free" /\ mutex' = "app"
  BY <1>2 DEF Setter, Idle
<1>4. /\ app' \in SetterState
      /\ app'.pc = "set" /\ app'.i = 1 /\ app'.arg = arg
  BY <1>3, SettingsAssumption DEF SetterState, Coeffs, AnyRate, Rate0
<1>5. arg \in Nat /\ bq \in Seq(TBiquad)
  BY SettingsAssumption DEF FiltersTypeOK
<1>6. /\ bq' \in Seq(TBiquad)
      /\ \A j \in DOMAIN bq' : \/ j \in DOMAIN bq /\ bq'[j] = bq[j]
                              \/ bq'[j] = Biquad(conf)
      /\ node # "peq" => bq' = bq
  BY <1>2, <1>5, ResizedFacts
<1>7. /\ mutex' \in {"free", "app", "main"} /\ raced' \in BOOLEAN
      /\ \A j \in DOMAIN bq' : j >= 1
  BY <1>1, <1>3, <1>6 DEF FiltersTypeOK
<1>8. FiltersTypeOK' /\ MutexInv' /\ ExclusionInv'
  <2>1. FiltersTypeOK'
    BY <1>1, <1>4, <1>6, <1>7 DEF FiltersTypeOK
  <2>2. MutexInv'
    BY <1>1, <1>3, <1>4 DEF MutexInv
  <2>3. ExclusionInv'
    BY <1>1, <1>3 DEF MutexInv, ExclusionInv, Clean
  <2>4. QED
    BY <2>1, <2>2, <2>3
<1>9. IndexInv'
  BY <1>1, <1>3, <1>4, <1>6 DEF IndexInv, MutexInv, InFilters
<1>10. ASSUME Clean' PROVE SettingInv' /\ CoeffInv' /\ RateInv' /\ UsedInv'
  <2>1. Clean /\ main.pc \notin InFilters
    BY <1>1, <1>3, <1>10 DEF Clean, MutexInv, FiltersTypeOK
  <2>2. SettingInv'
    BY <1>1, <1>4, <1>7, <2>1 DEF SettingInv, InFilters
  <2>3. CoeffInv'
    BY <1>1, <1>6, <2>1 DEF CoeffInv, Biquad, InFilters
  <2>4. RateInv' /\ UsedInv'
    BY <1>1, <2>1 DEF RateInv, UsedInv, InFilters
  <2>5. QED
    BY <2>2, <2>3, <2>4
<1>11. QED
  BY <1>1, <1>8, <1>9, <1>10

-----------------------------------------------------------------------------
(* Filters: the thread of the main loop *)

\* A buffer comes to the filter.
LEMMA EnterProcessKeeps ==
  ASSUME FiltersInv, NEW rate \in Rates, EnterProcess(rate)
  PROVE  FiltersInv' /\ main'.arg = rate
<1> USE DEF FiltersInv
<1>1. /\ node' = node /\ bq' = bq /\ mutex' = mutex /\ app' = app
      /\ conf' = conf /\ set' = set /\ due' = due /\ raced' = raced
      /\ used' = <<>> /\ main.pc = "idle"
  BY DEF EnterProcess, ghosts
<1>2. PICK pc \in {"done", "volume", "lock"} :
        main' = [pc |-> pc, i |-> 1, arg |-> rate, new |-> <<0, 0>>]
  BY DEF EnterProcess, Idle, FiltersTypeOK, Nodes
<1>3. /\ main' \in ProcessState /\ main'.arg = rate /\ main'.i = 1
      /\ main'.pc \in {"done", "volume", "lock"}
  BY <1>2 DEF ProcessState, Coeffs, AnyRate, Rate0
<1>4. FiltersTypeOK' /\ MutexInv' /\ ExclusionInv' /\ IndexInv'
  <2>1. used' \in Seq(Coeffs)
    BY <1>1
  <2>2. QED
    BY <1>1, <1>3, <2>1
    DEF FiltersTypeOK, MutexInv, ExclusionInv, IndexInv, InFilters
<1>5. Clean' => SettingInv' /\ CoeffInv' /\ RateInv' /\ UsedInv'
  BY <1>1, <1>3
  DEF SettingInv, CoeffInv, RateInv, UsedInv, Clean, InFilters
<1>6. QED
  BY <1>1, <1>3, <1>4, <1>5

\* The volume, before the mutex is taken.
LEMMA AfterVolumeKeeps ==
  ASSUME FiltersInv, AfterVolume
  PROVE  FiltersInv' /\ main'.arg = main.arg
<1> USE DEF FiltersInv
<1>1. /\ node' = node /\ bq' = bq /\ mutex' = mutex /\ app' = app
      /\ conf' = conf /\ set' = set /\ due' = due /\ raced' = raced
      /\ used' = used /\ main.pc = "volume" /\ main \in ProcessState
  BY DEF AfterVolume, ghosts, FiltersTypeOK
<1>2. PICK pc \in {"done", "lock"} : main' = [main EXCEPT !.pc = pc]
  BY DEF AfterVolume
<1>3. /\ main' \in ProcessState /\ main'.arg = main.arg
      /\ main'.i = main.i /\ main'.pc \in {"done", "lock"}
  BY <1>1, <1>2 DEF ProcessState
<1>4. FiltersTypeOK' /\ MutexInv' /\ ExclusionInv' /\ IndexInv'
  BY <1>1, <1>3
  DEF FiltersTypeOK, MutexInv, ExclusionInv, IndexInv, InFilters
<1>5. Clean' => SettingInv' /\ CoeffInv' /\ RateInv' /\ UsedInv'
  BY <1>1, <1>3
  DEF SettingInv, CoeffInv, RateInv, UsedInv, Clean, InFilters
<1>6. QED
  BY <1>1, <1>3, <1>4, <1>5

\* onProcess takes the mutex; a Loudness being set then counts as raced.
LEMMA LockKeeps ==
  ASSUME FiltersInv, Lock
  PROVE  FiltersInv' /\ main'.arg = main.arg
<1> USE DEF FiltersInv
<1>1. /\ node' = node /\ bq' = bq /\ app' = app /\ used' = used
      /\ conf' = (IF node = "peq" THEN main.arg ELSE conf)
      /\ set' = set /\ due' = set /\ mutex = "free" /\ mutex' = "main"
      /\ raced' = (raced \/ app.pc # "idle")
      /\ main.pc = "lock" /\ main \in ProcessState /\ used = <<>>
  BY DEF Lock, FiltersTypeOK
<1>2. main' = [main EXCEPT !.pc = IF node = "crossover" THEN "process"
                                  ELSE "rates"]
  BY DEF Lock
<1>3. /\ main' \in ProcessState /\ main'.arg = main.arg
      /\ main'.i = main.i
      /\ main'.pc = IF node = "crossover" THEN "process" ELSE "rates"
  BY <1>1, <1>2 DEF ProcessState
<1>4. FiltersTypeOK' /\ MutexInv' /\ ExclusionInv' /\ IndexInv'
  <2>1. conf' \in Rate0 /\ raced' \in BOOLEAN
    BY <1>1 DEF FiltersTypeOK, ProcessState
  <2>2. FiltersTypeOK'
    BY <1>1, <1>3, <2>1 DEF FiltersTypeOK
  <2>3. MutexInv' /\ IndexInv'
    BY <1>1, <1>3 DEF MutexInv, IndexInv, InFilters
  <2>4. ExclusionInv'
    BY <1>1, <1>3 DEF MutexInv, ExclusionInv, Clean
  <2>5. QED
    BY <2>2, <2>3, <2>4
<1>5. ASSUME Clean' PROVE SettingInv' /\ CoeffInv' /\ RateInv' /\ UsedInv'
  <2>1. Clean /\ app.pc = "idle"
    BY <1>1, <1>5 DEF Clean, MutexInv, FiltersTypeOK
  <2>2. \A j \in DOMAIN bq : ~(j < main.i)
    BY <1>1 DEF IndexInv, FiltersTypeOK
  <2>3. SettingInv' /\ CoeffInv' /\ RateInv' /\ UsedInv'
    BY <1>1, <1>3, <2>1, <2>2 DEF SettingInv, CoeffInv, RateInv, UsedInv
  <2>4. QED
    BY <2>3
<1>6. QED
  BY <1>1, <1>3, <1>4, <1>5

\* onProcess tells its rate to the next biquad, or turns to filtering.
LEMMA SetRatesKeeps ==
  ASSUME FiltersInv, SetRates
  PROVE  FiltersInv' /\ main'.arg = main.arg
<1> USE DEF FiltersInv
<1>1. /\ node' = node /\ mutex' = mutex /\ app' = app /\ used' = used
      /\ conf' = conf /\ set' = set /\ due' = due /\ raced' = raced
      /\ main.pc = "rates" /\ main \in ProcessState /\ used = <<>>
  BY DEF SetRates, ghosts, FiltersTypeOK
<1>2. /\ bq \in Seq(TBiquad) /\ DOMAIN bq = 1 .. Len(bq) /\ Len(bq) \in Nat
      /\ main.i \in Nat \ {0} /\ main.arg \in AnyRate
  BY <1>1 DEF FiltersTypeOK, ProcessState, AnyRate
<1>3. Clean => app.pc = "idle"
  BY <1>1 DEF ExclusionInv, InFilters
<1>4. CASE main.i > Len(bq)
  <2>1. bq' = bq /\ main' = [main EXCEPT !.pc = "process", !.i = 1]
    BY <1>2, <1>4 DEF SetRates, NumBiquads
  <2>2. main' = [pc |-> "process", i |-> 1, arg |-> main.arg,
                 new |-> main.new]
    BY <1>1, <2>1 DEF ProcessState
  <2>3. /\ main' \in ProcessState /\ main'.arg = main.arg
        /\ main'.pc = "process" /\ main'.i = 1
    BY <1>1, <2>2 DEF ProcessState
  <2>4. FiltersTypeOK' /\ MutexInv' /\ ExclusionInv' /\ IndexInv'
    BY <1>1, <2>1, <2>3
    DEF FiltersTypeOK, MutexInv, ExclusionInv, IndexInv, InFilters, Clean
  <2>5. \A j \in DOMAIN bq : j < main.i
    BY <1>2, <1>4
  <2>6. Clean' => SettingInv' /\ CoeffInv' /\ RateInv' /\ UsedInv'
    BY <1>1, <1>3, <2>1, <2>3, <2>5
    DEF SettingInv, CoeffInv, RateInv, UsedInv, Clean, InFilters
  <2>7. QED
    BY <1>1, <2>3, <2>4, <2>6
<1>5. CASE main.i <= Len(bq) /\ bq[main.i].rate = main.arg
  <2>1. bq' = bq /\ main' = [main EXCEPT !.i = main.i + 1]
    BY <1>2, <1>5 DEF SetRates, NumBiquads, setRate
  <2>2. /\ main' \in ProcessState /\ main'.arg = main.arg
        /\ main'.pc = "rates" /\ main'.i = main.i + 1
    BY <1>1, <1>2, <2>1 DEF ProcessState
  <2>3. FiltersTypeOK' /\ MutexInv' /\ ExclusionInv' /\ IndexInv'
    BY <1>1, <2>1, <2>2
    DEF FiltersTypeOK, MutexInv, ExclusionInv, IndexInv, InFilters, Clean
  <2>4. \A j \in DOMAIN bq : j < main.i + 1 => j < main.i \/ j = main.i
    BY <1>2
  <2>5. Clean' => SettingInv' /\ CoeffInv' /\ RateInv' /\ UsedInv'
    BY <1>1, <1>3, <1>5, <2>1, <2>2, <2>4
    DEF SettingInv, CoeffInv, RateInv, UsedInv, Clean, InFilters
  <2>6. QED
    BY <1>1, <2>2, <2>3, <2>5
<1>6. CASE main.i <= Len(bq) /\ bq[main.i].rate # main.arg
  <2>1. /\ bq' = [bq EXCEPT ![main.i].rate = main.arg]
        /\ main' = [main EXCEPT !.pc = "store",
                                !.new = <<bq[main.i].filter, main.arg>>]
    BY <1>2, <1>6 DEF SetRates, NumBiquads, setRate
  <2>2. main.i \in 1 .. Len(bq)
    BY <1>2, <1>6
  <2>3. <<bq[main.i].filter, main.arg>> \in Coeffs
    <3>1. bq[main.i] \in TBiquad
      BY <1>2, <2>2
    <3>2. bq[main.i].filter \in Nat
      BY <3>1 DEF TBiquad
    <3>3. QED
      BY <1>2, <3>2 DEF Coeffs
  <2>4. main' = [pc |-> "store", i |-> main.i, arg |-> main.arg,
                 new |-> <<bq[main.i].filter, main.arg>>]
    BY <1>1, <2>1 DEF ProcessState
  <2>5. /\ main' \in ProcessState /\ main'.arg = main.arg
        /\ main'.pc = "store" /\ main'.i = main.i
        /\ main'.new = <<bq[main.i].filter, main.arg>>
    BY <1>1, <2>3, <2>4 DEF ProcessState
  <2>6. /\ bq' \in Seq(TBiquad) /\ Len(bq') = Len(bq)
        /\ DOMAIN bq' = DOMAIN bq
        /\ bq'[main.i].rate = main.arg
        /\ bq'[main.i].filter = bq[main.i].filter
        /\ \A j \in DOMAIN bq : j # main.i => bq'[j] = bq[j]
    BY <1>2, <2>1, <2>2, RateChanged
  <2>7. FiltersTypeOK' /\ MutexInv' /\ ExclusionInv' /\ IndexInv'
    BY <1>1, <1>6, <2>5, <2>6
    DEF FiltersTypeOK, MutexInv, ExclusionInv, IndexInv, InFilters, Clean
  <2>8. ASSUME Clean' PROVE SettingInv' /\ CoeffInv' /\ RateInv' /\ UsedInv'
    <3>1. Clean /\ app.pc = "idle"
      BY <1>1, <1>3, <2>8 DEF Clean
    <3>2. SettingInv' /\ CoeffInv'
      BY <1>1, <1>2, <2>2, <2>5, <2>6, <3>1 DEF SettingInv, CoeffInv
    <3>3. RateInv' /\ UsedInv'
      BY <1>1, <1>2, <2>2, <2>5, <2>6, <3>1 DEF RateInv, UsedInv, InFilters
    <3>4. QED
      BY <3>2, <3>3
  <2>9. QED
    BY <1>1, <2>5, <2>7, <2>8
<1>7. QED
  BY <1>2, <1>4, <1>5, <1>6

\* The second half of update() in onProcess.
LEMMA StoreRateKeeps ==
  ASSUME FiltersInv, StoreRate
  PROVE  FiltersInv' /\ main'.arg = main.arg
<1> USE DEF FiltersInv
<1>1. /\ node' = node /\ mutex' = mutex /\ app' = app /\ used' = used
      /\ conf' = conf /\ set' = set /\ due' = due /\ raced' = raced
      /\ main.pc = "store" /\ main \in ProcessState /\ used = <<>>
  BY DEF StoreRate, ghosts, FiltersTypeOK
<1>2. /\ bq \in Seq(TBiquad) /\ DOMAIN bq = 1 .. Len(bq) /\ Len(bq) \in Nat
      /\ main.i \in 1 .. Len(bq) /\ main.new \in Coeffs
  BY <1>1 DEF FiltersTypeOK, ProcessState, IndexInv
<1>3. /\ bq' = [bq EXCEPT ![main.i].coeffs = main.new]
      /\ main' = [main EXCEPT !.pc = "rates", !.i = main.i + 1]
  BY DEF StoreRate, update
<1>4. main' = [pc |-> "rates", i |-> main.i + 1, arg |-> main.arg,
               new |-> main.new]
  BY <1>1, <1>3 DEF ProcessState
<1>5. /\ main' \in ProcessState /\ main'.arg = main.arg
      /\ main'.pc = "rates" /\ main'.i = main.i + 1
  BY <1>1, <1>2, <1>4 DEF ProcessState
<1>6. /\ bq' \in Seq(TBiquad) /\ Len(bq') = Len(bq)
      /\ DOMAIN bq' = DOMAIN bq
      /\ bq'[main.i].filter = bq[main.i].filter
      /\ bq'[main.i].rate = bq[main.i].rate
      /\ bq'[main.i].coeffs = main.new
      /\ \A j \in DOMAIN bq : j # main.i => bq'[j] = bq[j]
  BY <1>2, <1>3, CoeffsChanged
<1>7. FiltersTypeOK' /\ MutexInv' /\ ExclusionInv' /\ IndexInv'
  BY <1>1, <1>5, <1>6
  DEF FiltersTypeOK, MutexInv, ExclusionInv, IndexInv, InFilters, Clean
<1>8. ASSUME Clean' PROVE SettingInv' /\ CoeffInv' /\ RateInv' /\ UsedInv'
  <2>1. Clean /\ app.pc = "idle"
    BY <1>1, <1>8 DEF Clean, ExclusionInv, InFilters
  <2>2. SettingInv' /\ CoeffInv'
    BY <1>1, <1>2, <1>5, <1>6, <2>1
    DEF SettingInv, CoeffInv, RateInv, InFilters
  <2>3. RateInv' /\ UsedInv'
    <3>1. \A j \in DOMAIN bq : j < main.i + 1 => j < main.i \/ j = main.i
      BY <1>2
    <3>2. QED
      BY <1>1, <1>2, <1>5, <1>6, <2>1, <3>1 DEF RateInv, UsedInv, InFilters
  <2>4. QED
    BY <2>2, <2>3
<1>9. QED
  BY <1>1, <1>5, <1>7, <1>8

\* One biquad filters the buffer, or the mutex is given back.
LEMMA ProcessKeeps ==
  ASSUME FiltersInv, process
  PROVE  FiltersInv' /\ main'.arg = main.arg
<1> USE DEF FiltersInv
<1>1. /\ node' = node /\ bq' = bq /\ app' = app
      /\ conf' = conf /\ set' = set /\ due' = due /\ raced' = raced
      /\ main.pc = "process" /\ main \in ProcessState
  BY DEF process, ghosts, FiltersTypeOK
<1>2. /\ bq \in Seq(TBiquad) /\ DOMAIN bq = 1 .. Len(bq) /\ Len(bq) \in Nat
      /\ main.i \in Nat \ {0} /\ used \in Seq(Coeffs)
  BY <1>1 DEF FiltersTypeOK, ProcessState
<1>3. Clean => app.pc = "idle"
  BY <1>1 DEF ExclusionInv, InFilters
<1>4. CASE main.i <= Len(bq)
  <2>1. /\ used' = Append(used, bq[main.i].coeffs) /\ mutex' = mutex
        /\ main' = [main EXCEPT !.i = main.i + 1]
    BY <1>4 DEF process, NumBiquads
  <2>2. /\ main' \in ProcessState /\ main'.arg = main.arg
        /\ main'.pc = "process"
    <3>1. main.i + 1 \in Nat \ {0}
      BY <1>2
    <3>2. main' = [pc |-> main.pc, i |-> main.i + 1, arg |-> main.arg,
                   new |-> main.new]
      BY <1>1, <2>1 DEF ProcessState
    <3>3. QED
      BY <1>1, <3>1, <3>2 DEF ProcessState
  <2>3. main.i \in DOMAIN bq /\ bq[main.i] \in TBiquad
    BY <1>2, <1>4
  <2>4. bq[main.i].coeffs \in Coeffs
    BY <2>3 DEF TBiquad
  <2>5. /\ used' \in Seq(Coeffs)
        /\ DOMAIN used' = DOMAIN used \cup {Len(used) + 1}
        /\ \A i \in DOMAIN used : used'[i] = used[i]
        /\ used'[Len(used) + 1] = bq[main.i].coeffs
    BY <1>2, <2>1, <2>4
  <2>6. FiltersTypeOK' /\ MutexInv' /\ ExclusionInv' /\ IndexInv'
    BY <1>1, <2>1, <2>2, <2>5
    DEF FiltersTypeOK, MutexInv, ExclusionInv, IndexInv, InFilters, Clean
  <2>7. ASSUME Clean' PROVE SettingInv' /\ CoeffInv' /\ RateInv' /\ UsedInv'
    <3>1. Clean /\ app.pc = "idle"
      BY <1>1, <1>3, <2>7 DEF Clean
    <3>2. SettingInv' /\ CoeffInv' /\ RateInv'
      BY <1>1, <2>2, <3>1 DEF SettingInv, CoeffInv, RateInv, InFilters
    <3>3. /\ bq[main.i].coeffs = <<due, bq[main.i].rate>>
          /\ node # "crossover" => bq[main.i].rate = main.arg
      BY <1>1, <2>3, <3>1 DEF SettingInv, CoeffInv, RateInv, InFilters
    <3>4. UsedInv'
      BY <1>1, <2>2, <2>5, <3>1, <3>3 DEF UsedInv
    <3>5. QED
      BY <3>2, <3>4
  <2>8. QED
    BY <2>2, <2>6, <2>7
<1>5. CASE main.i > Len(bq)
  <2>1. /\ used' = used /\ mutex' = "free"
        /\ main' = [main EXCEPT !.pc = "done"]
    BY <1>2, <1>5 DEF process, NumBiquads
  <2>2. /\ main' \in ProcessState /\ main'.arg = main.arg
        /\ main'.pc = "done"
    BY <1>1, <2>1 DEF ProcessState
  <2>3. FiltersTypeOK' /\ MutexInv' /\ ExclusionInv' /\ IndexInv'
    BY <1>1, <2>1, <2>2
    DEF FiltersTypeOK, MutexInv, ExclusionInv, IndexInv, InFilters
  <2>4. Clean' => SettingInv' /\ CoeffInv' /\ RateInv' /\ UsedInv'
    BY <1>1, <2>1, <2>2
    DEF SettingInv, CoeffInv, RateInv, UsedInv, Clean, InFilters
  <2>5. QED
    BY <2>2, <2>3, <2>4
<1>6. QED
  BY <1>2, <1>4, <1>5
\* The buffer leaves the filter.
LEMMA PopAudioKeepsFilters ==
  ASSUME FiltersInv, PopAudio
  PROVE  FiltersInv'
<1> USE DEF FiltersInv
<1>1. /\ node' = node /\ bq' = bq /\ mutex' = mutex /\ app' = app
      /\ conf' = conf /\ set' = set /\ due' = due /\ raced' = raced
      /\ used' = <<>> /\ main.pc = "done"
      /\ main' = [pc |-> "idle", i |-> 1, arg |-> 0, new |-> <<0, 0>>]
  BY DEF PopAudio, Idle, ghosts
<1>2. main' \in ProcessState /\ main'.pc = "idle" /\ main'.i = 1
  BY <1>1 DEF ProcessState, Coeffs, AnyRate, Rate0
<1>3. FiltersTypeOK' /\ MutexInv' /\ ExclusionInv' /\ IndexInv'
  <2>1. used' \in Seq(Coeffs)
    BY <1>1
  <2>2. QED
    BY <1>1, <1>2, <2>1
    DEF FiltersTypeOK, MutexInv, ExclusionInv, IndexInv, InFilters
<1>4. Clean' => SettingInv' /\ CoeffInv' /\ RateInv' /\ UsedInv'
  BY <1>1, <1>2
  DEF SettingInv, CoeffInv, RateInv, UsedInv, Clean, InFilters
<1>5. QED
  BY <1>1, <1>2, <1>3, <1>4

LEMMA FiltersUnchanged ==
  ASSUME FiltersInv,
         UNCHANGED <<node, bq, mutex, app, main, used, conf, ghosts>>
  PROVE  FiltersInv' /\ main'.arg = main.arg
  BY DEF FiltersInv, FiltersTypeOK, MutexInv, ExclusionInv, IndexInv, Clean,
         SettingInv, CoeffInv, RateInv, UsedInv, ghosts

\* What a step of the filter's threads leaves of the buffer's rate.
LEMMA FilterStepKeeps ==
  ASSUME FiltersInv, AppThread \/ MainThread
  PROVE  FiltersInv' /\ main'.arg = main.arg
<1>1. CASE AppThread
  <2>1. main' = main
    BY <1>1 DEF AppThread, SetOne, StoreOne, EndSetter
  <2>2. QED
    BY <1>1, <2>1, SetOneKeeps, StoreOneKeeps, EndSetterKeeps DEF AppThread
<1>2. CASE MainThread
  BY <1>2, AfterVolumeKeeps, LockKeeps, SetRatesKeeps, StoreRateKeeps,
     ProcessKeeps DEF MainThread
<1>3. QED
  BY <1>1, <1>2

\* A call of the application begins without touching the buffer's rate.
LEMMA FilterCallKeeps ==
  ASSUME FiltersInv, CallSetter \/ setVolume
  PROVE  FiltersInv' /\ main'.arg = main.arg
<1>1. CASE CallSetter
  <2>1. main' = main
    BY <1>1 DEF CallSetter
  <2>2. QED
    BY <1>1, <2>1, CallSetterKeeps
<1>2. CASE setVolume
  BY <1>2, FiltersUnchanged DEF setVolume
<1>3. QED
  BY <1>1, <1>2

LEMMA FiltersStep == FiltersInv /\ [Next]_vars => FiltersInv'
<1> SUFFICES ASSUME FiltersInv, [Next]_vars PROVE FiltersInv'
  OBVIOUS
<1>1. CASE PopAudio
  BY <1>1, PopAudioKeepsFilters
<1>2. CASE Push
  <2>1. ASSUME NEW s \in Sources, NEW rate \in Rates, PushAudio(s, rate)
        PROVE  FiltersInv'
    BY <2>1, EnterProcessKeeps DEF PushAudio
  <2>2. ASSUME NEW s \in Sources,
               PushConnects(s) \/ PushWrites(s, src[s].pushed + 1)
        PROVE  FiltersInv'
    BY <2>2, FiltersUnchanged DEF PushConnects, PushWrites, filterVars
  <2>3. QED
    BY <1>2, <2>1, <2>2 DEF Push
<1>3. CASE FilterCall
  BY <1>3, FilterCallKeeps DEF FilterCall
<1>4. CASE FilterStep
  BY <1>4, FilterStepKeeps DEF FilterStep
<1>5. CASE UNCHANGED filterVars
  BY <1>5, FiltersUnchanged DEF filterVars
<1>6. QED
  BY <1>1, <1>2, <1>3, <1>4, <1>5
  DEF Next, vars, Start, Stop, StopLoop, setFileName, PushIgnored, Resume,
      HostAnswers, PeerCloses, RunCompletion

LEMMA FiltersAlways == Spec => []FiltersInv
<1>1. Init => FiltersInv
  BY FiltersStart DEF Init
<1>2. QED
  BY <1>1, FiltersStep, PTL DEF Spec

\* However the setters of Peq, Loudness and Crossover interleave with
\* onProcess, a buffer is filtered with one setting and at its own rate: the
\* setting of the last setter that had returned when the filter began.  For
\* Loudness that ends with the first setLevel beside a buffer.
THEOREM FiltersUseOneSetting == Spec => []OneSetting
<1>1. FiltersInv => OneSetting
  BY DEF FiltersInv, OneSetting, UsedInv, Clean
<1>2. QED
  BY <1>1, FiltersAlways, PTL
-----------------------------------------------------------------------------
(* The sinks: what the operations on sources return *)

\* A datagram received.
LEMMA ReceivedFacts ==
  ASSUME SinksTypeOK, NEW s \in Sources
  PROVE  /\ Received(s) \in [Sources -> SourceRec]
         /\ Received(s)[s].pushed = src[s].pushed + 1
         /\ Received(s)[s].buffer = src[s].pushed + 1
         /\ Received(s)[s].conf = src[s].conf
         /\ ~Received(s)[s].receiving
         /\ \A t \in Sources : t # s => Received(s)[t] = src[t]
<1> DEFINE r == [started |-> src[s].started, pushed |-> src[s].pushed + 1,
                 receiving |-> FALSE, buffer |-> src[s].pushed + 1,
                 conf |-> src[s].conf]
<1>1. src \in [Sources -> SourceRec] /\ src[s] \in SourceRec
  BY DEF SinksTypeOK
<1>2. r \in SourceRec
  BY <1>1 DEF SourceRec
<1>3. Received(s) = [src EXCEPT ![s] = r]
  <2>0. PICK d : d = [src[s] EXCEPT !.receiving = FALSE,
                                    !.pushed = src[s].pushed + 1,
                                    !.buffer = src[s].pushed + 1]
    OBVIOUS
  <2>1. d = r
    BY <1>1, <2>0 DEF SourceRec
  <2>2. Received(s) = [src EXCEPT ![s] = d]
    BY <2>0 DEF Received
  <2>3. QED
    BY <2>1, <2>2
<1> HIDE DEF r
<1>4. Received(s) \in [Sources -> SourceRec] /\ Received(s)[s] = r
  BY <1>1, <1>2, <1>3
<1>5. \A t \in Sources : t # s => Received(s)[t] = src[t]
  BY <1>1, <1>3
<1>6. QED
  BY <1>4, <1>5 DEF r

\* The end of the chain reached.
LEMMA ProcessedFacts ==
  ASSUME NEW S \in [Sources -> SourceRec], NEW s \in Sources
  PROVE  /\ Processed(S, s) \in [Sources -> SourceRec]
         /\ Processed(S, s)[s].pushed = S[s].pushed
         /\ Processed(S, s)[s].conf = S[s].conf
         /\ Processed(S, s)[s].receiving
         /\ \A t \in Sources : t # s => Processed(S, s)[t] = S[t]
<1> DEFINE r == [started |-> S[s].started, pushed |-> S[s].pushed,
                 receiving |-> TRUE, buffer |-> 0, conf |-> S[s].conf]
<1>1. S[s] \in SourceRec
  OBVIOUS
<1>2. r \in SourceRec
  BY <1>1 DEF SourceRec
<1>3. Processed(S, s) = [S EXCEPT ![s] = r]
  <2>0. PICK d : d = [S[s] EXCEPT !.buffer = 0, !.receiving = TRUE]
    OBVIOUS
  <2>1. d = r
    BY <1>1, <2>0 DEF SourceRec
  <2>2. Processed(S, s) = [S EXCEPT ![s] = d]
    BY <2>0 DEF Processed
  <2>3. QED
    BY <2>1, <2>2
<1> HIDE DEF r
<1>4. Processed(S, s) \in [Sources -> SourceRec] /\ Processed(S, s)[s] = r
  BY <1>2, <1>3
<1>5. \A t \in Sources : t # s => Processed(S, s)[t] = S[t]
  BY <1>3
<1>6. QED
  BY <1>4, <1>5 DEF r

\* What was played stays in order when sources go on: a source that comes to
\* wait waits with a new buffer.
LEMMA OutMoves ==
  ASSUME NEW o \in Seq(Output), NEW S \in [Sources -> SourceRec],
         NEW T \in [Sources -> SourceRec], OutOK(o, S),
         \A s \in Sources :
           \/ T[s].pushed > S[s].pushed
           \/ /\ T[s].pushed = S[s].pushed
              /\ T[s].receiving \/ ~S[s].receiving
  PROVE  OutOK(o, T)
<1>0. \A i \in DOMAIN o : o[i] \in Output
  OBVIOUS
<1>1. \A i \in DOMAIN o : o[i].src \in Sources /\ o[i].n \in Nat
  BY <1>0 DEF Output
<1>2. \A s \in Sources : S[s].pushed \in Nat /\ T[s].pushed \in Nat
  BY DEF SourceRec
<1>3. QED
  BY <1>1, <1>2 DEF OutOK

\* One more buffer is played, a later one of its source than those before.
LEMMA OutGrows ==
  ASSUME NEW o \in Seq(Output), NEW T \in [Sources -> SourceRec],
         NEW e \in Output, OutOK(o, T),
         e.n <= T[e.src].pushed, T[e.src].receiving,
         \A i \in DOMAIN o : o[i].src = e.src => o[i].n < e.n
  PROVE  Append(o, e) \in Seq(Output) /\ OutOK(Append(o, e), T)
<1>1. /\ DOMAIN o = 1 .. Len(o) /\ Len(o) \in Nat
      /\ DOMAIN Append(o, e) = 1 .. (Len(o) + 1)
      /\ \A i \in 1 .. Len(o) : Append(o, e)[i] = o[i]
      /\ Append(o, e)[Len(o) + 1] = e
      /\ Append(o, e) \in Seq(Output)
  OBVIOUS
<1>2. \A i \in DOMAIN Append(o, e) :
         \/ i \in DOMAIN o /\ Append(o, e)[i] = o[i]
         \/ i = Len(o) + 1 /\ Append(o, e)[i] = e
  BY <1>1
<1>3. \A i \in DOMAIN o : i < Len(o) + 1 /\ ~(Len(o) + 1 < i)
  BY <1>1
<1>4. ASSUME NEW i \in DOMAIN Append(o, e)
      PROVE  LET s == Append(o, e)[i].src IN
             /\ Append(o, e)[i].n <= T[s].pushed
             /\ ~T[s].receiving => Append(o, e)[i].n < T[s].pushed
  BY <1>2 DEF OutOK
<1>5. ASSUME NEW i \in DOMAIN Append(o, e), NEW j \in DOMAIN Append(o, e),
             i < j, Append(o, e)[i].src = Append(o, e)[j].src
      PROVE  Append(o, e)[i].n < Append(o, e)[j].n
  <2>1. i \in DOMAIN o /\ Append(o, e)[i] = o[i]
    BY <1>1, <1>2, <1>3, <1>5
  <2>2. CASE j \in DOMAIN o
    BY <1>1, <1>5, <2>1, <2>2 DEF OutOK
  <2>3. CASE j = Len(o) + 1
    BY <1>1, <1>5, <2>1, <2>3
  <2>4. QED
    BY <1>2, <2>2, <2>3
<1>6. QED
  BY <1>1, <1>4, <1>5 DEF OutOK

-----------------------------------------------------------------------------
(* The sinks: PortAudioSink's stream *)

LEMMA PaStartFacts ==
  ASSUME NEW d \in Device, NEW f
  PROVE  /\ PaStart(d, f) \in Device
         /\ PaStart(d, f).config = d.config /\ PaStart(d, f).by = d.by
         /\ StreamOK(d) => StreamOK(PaStart(d, f))
         /\ d.config # 0 /\ f # "open" => StreamOK(PaStart(d, f))
<1>1. CASE d.config = 0 \/ f = "open"
  BY <1>1 DEF PaStart
<1>2. CASE ~(d.config = 0 \/ f = "open")
  <2> DEFINE r == f # "start"
  <2>1. r \in BOOLEAN
    OBVIOUS
  <2>2. PaStart(d, f) = [d EXCEPT !.stream = d.config, !.runs = r]
    BY <1>2 DEF PaStart
  <2> HIDE DEF r
  <2>3. PaStart(d, f) =
          [socket |-> d.socket, stream |-> d.config, runs |-> r,
           config |-> d.config, by |-> d.by, open |-> d.open,
           name |-> d.name]
    BY <2>2 DEF Device
  <2>4. QED
    BY <2>1, <2>3 DEF Device, StreamOK
<1>3. QED
  BY <1>1, <1>2

LEMMA PaStopFacts ==
  ASSUME NEW d \in Device, NEW f
  PROVE  /\ PaStop(d, f) \in Device
         /\ PaStop(d, f).config = d.config /\ PaStop(d, f).by = d.by
         /\ StreamOK(d) \/ f # "stop" => StreamOK(PaStop(d, f))
<1>1. CASE d.stream = 0 \/ ~d.runs \/ f = "stop"
  BY <1>1 DEF PaStop, StreamOK
<1>2. CASE ~(d.stream = 0 \/ ~d.runs \/ f = "stop")
  <2>1. PaStop(d, f) = [d EXCEPT !.stream = 0, !.runs = FALSE]
    BY <1>2 DEF PaStop
  <2>2. PaStop(d, f) =
          [socket |-> d.socket, stream |-> 0, runs |-> FALSE,
           config |-> d.config, by |-> d.by, open |-> d.open,
           name |-> d.name]
    BY <2>1 DEF Device
  <2>3. QED
    BY <2>2 DEF Device, StreamOK, Rate0
<1>3. QED
  BY <1>1, <1>2

\* Whichever of stop, open and start fails, no stream of the old rate is left
\* running.
LEMMA PaConfigFacts ==
  ASSUME NEW d \in Device, StreamOK(d), NEW rate \in Rates, NEW f
  PROVE  /\ PaConfig(d, rate, f) \in Device
         /\ PaConfig(d, rate, f).config = rate
         /\ StreamOK(PaConfig(d, rate, f))
<1> DEFINE new == [d EXCEPT !.config = rate]
<1>1. /\ new \in Device /\ new.config = rate /\ new.stream = d.stream
      /\ new.runs = d.runs
  BY DEF Device, Rate0
<1>2. /\ d.config = rate => PaConfig(d, rate, f) = d
      /\ d.config # rate /\ d.stream = 0 => PaConfig(d, rate, f) = new
      /\ d.config # rate /\ d.stream # 0 =>
           PaConfig(d, rate, f) = PaStart(PaStop(new, f), f)
  BY DEF PaConfig
<1> HIDE DEF new
<1>3. CASE d.config = rate
  BY <1>2, <1>3
<1>4. CASE d.config # rate /\ d.stream = 0
  BY <1>1, <1>2, <1>4 DEF StreamOK
<1>5. CASE d.config # rate /\ d.stream # 0
  <2>1. PaStop(new, f) \in Device /\ PaStop(new, f).config = rate
    BY <1>1, PaStopFacts
  <2>2. CASE f = "stop"
    BY <1>2, <1>5, <2>1, <2>2, PaStartFacts, RatesAssumption
  <2>3. CASE f # "stop"
    BY <1>1, <1>2, <1>5, <2>1, <2>3, PaStartFacts, PaStopFacts
  <2>4. QED
    BY <2>2, <2>3
<1>6. QED
  BY <1>3, <1>4, <1>5

\* The fields of the other sinks do not matter to PortAudioSink.
LEMMA OtherFields ==
  ASSUME NEW d \in Device, NEW c,
         \/ \E x \in {"closed", "opening", "up", "broken"} :
               c = [d EXCEPT !.socket = x]
         \/ \E x \in BOOLEAN : c = [d EXCEPT !.open = x]
         \/ \E x \in {1, 2} : c = [d EXCEPT !.name = x]
  PROVE  /\ c \in Device /\ c.config = d.config /\ c.by = d.by
         /\ StreamOK(d) => StreamOK(c)
  BY DEF Device, StreamOK

-----------------------------------------------------------------------------
(* The sinks: what each step keeps *)

SameSources ==
  /\ src' \in [Sources -> SourceRec]
  /\ \A s \in Sources :
       /\ src'[s].pushed = src[s].pushed /\ src'[s].buffer = src[s].buffer
       /\ src'[s].receiving = src[s].receiving
       /\ src'[s].conf = src[s].conf

SameStack ==
  /\ stack' \in Seq(Frame) /\ DOMAIN stack' = DOMAIN stack
  /\ \A i \in DOMAIN stack :
       stack'[i].src = stack[i].src /\ stack'[i].id = stack[i].id

SameConfig ==
  /\ dev' \in Device /\ dev'.config = dev.config /\ dev'.by = dev.by
  /\ StreamOK(dev')

\* Steps that push nothing and play nothing.
LEMMA QuietKeeps ==
  ASSUME SinksInv, SameSources, SameStack, SameConfig,
         current' = current, main'.arg = main.arg, out' \in {out, <<>>}
  PROVE  SinksInv'
<1> USE DEF SinksInv
<1>1. SinksTypeOK'
  <2>1. out' \in Seq(Output)
    <3>1. out \in Seq(Output) /\ <<>> \in Seq(Output)
      BY DEF SinksTypeOK
    <3>2. QED
      BY <3>1
  <2>2. QED
    BY <2>1 DEF SinksTypeOK, SameSources, SameStack, SameConfig
<1>2. \A i \in DOMAIN stack : stack[i].src \in Sources
  <2>1. \A i \in DOMAIN stack : stack[i] \in Frame
    BY DEF SinksTypeOK
  <2>2. QED
    BY <2>1 DEF Frame
<1>3. WaitingOK(stack', src', current')
  <2>1. ASSUME NEW i \in DOMAIN stack'
        PROVE  LET s == stack'[i].src IN
               /\ ~src'[s].receiving
               /\ src'[s].buffer = src'[s].pushed
               /\ stack'[i].id[2] = src'[s].pushed
               /\ s # current'
    <3>1. i \in DOMAIN stack /\ stack[i].src \in Sources
      BY <1>2 DEF SameStack
    <3>2. stack'[i].src = stack[i].src /\ stack'[i].id = stack[i].id
      BY <3>1 DEF SameStack
    <3>3. /\ src'[stack[i].src].receiving = src[stack[i].src].receiving
          /\ src'[stack[i].src].buffer = src[stack[i].src].buffer
          /\ src'[stack[i].src].pushed = src[stack[i].src].pushed
      BY <3>1 DEF SameSources
    <3>4. QED
      BY <3>1, <3>2, <3>3 DEF WaitingOK
  <2>2. \A i, j \in DOMAIN stack' : stack'[i].src = stack'[j].src => i = j
    BY DEF WaitingOK, SameStack
  <2>3. current' # "none" =>
          /\ ~src'[current'].receiving
          /\ src'[current'].buffer = src'[current'].pushed
    BY DEF WaitingOK, SinksTypeOK, SameSources
  <2>4. QED
    BY <2>1, <2>2, <2>3 DEF WaitingOK
<1>4. OutOK(out', src')
  <2>1. \A i \in DOMAIN out : out[i].src \in Sources
    <3>1. \A i \in DOMAIN out : out[i] \in Output
      BY DEF SinksTypeOK
    <3>2. QED
      BY <3>1 DEF Output
  <2>2. CASE out' = out
    BY <2>1, <2>2 DEF OutOK, SameSources
  <2>3. CASE out' = <<>>
    BY <2>3 DEF OutOK
  <2>4. QED
    BY <2>2, <2>3
<1>5. ConfigInv'
  <2>1. dev.by \in Sources \cup {"none"}
    BY DEF SinksTypeOK, Device
  <2>2. QED
    BY <2>1 DEF ConfigInv, SinksTypeOK, SameSources, SameConfig
<1>6. QED
  BY <1>1, <1>3, <1>4, <1>5

LEMMA SameSourcesUnchanged ==
  ASSUME SinksInv, src' = src
  PROVE  SameSources
  BY DEF SinksInv, SinksTypeOK, SameSources

LEMMA SameSourcesStarted ==
  ASSUME SinksInv, NEW s \in Sources, NEW b \in BOOLEAN,
         src' = [src EXCEPT ![s].started = b]
  PROVE  SameSources
<1>1. src \in [Sources -> SourceRec] /\ src[s] \in SourceRec
  BY DEF SinksInv, SinksTypeOK
<1>2. PICK r : r = [src[s] EXCEPT !.started = b]
  OBVIOUS
<1>3. /\ r \in SourceRec /\ r.pushed = src[s].pushed
      /\ r.buffer = src[s].buffer /\ r.receiving = src[s].receiving
      /\ r.conf = src[s].conf
  BY <1>1, <1>2 DEF SourceRec
<1>4. src' = [src EXCEPT ![s] = r]
  BY <1>1, <1>2
<1>5. QED
  BY <1>1, <1>3, <1>4 DEF SameSources

LEMMA SameStackUnchanged ==
  ASSUME SinksInv, stack' = stack
  PROVE  SameStack
  BY DEF SinksInv, SinksTypeOK, SameStack

LEMMA SameConfigUnchanged ==
  ASSUME SinksInv, dev' = dev
  PROVE  SameConfig
  BY DEF SinksInv, SinksTypeOK, ConfigInv, SameConfig

LEMMA SameConfigOther ==
  ASSUME SinksInv,
         \/ \E x \in {"closed", "opening", "up", "broken"} :
               dev' = [dev EXCEPT !.socket = x]
         \/ \E x \in BOOLEAN : dev' = [dev EXCEPT !.open = x]
         \/ \E x \in {1, 2} : dev' = [dev EXCEPT !.name = x]
  PROVE  SameConfig
<1>1. dev \in Device /\ StreamOK(dev)
  BY DEF SinksInv, SinksTypeOK, ConfigInv
<1>2. QED
  BY <1>1, OtherFields DEF SameConfig

LEMMA StartKeeps == SinksInv /\ Start => SinksInv'
<1> SUFFICES ASSUME SinksInv, Start PROVE SinksInv'
  OBVIOUS
<1>1. SameSources
  BY SameSourcesStarted DEF Start
<1>2. SameStack /\ current' = current /\ main'.arg = main.arg
  BY SameStackUnchanged DEF Start, filterVars
<1>3. out' \in {out, <<>>}
  BY DEF Start, SinkStart, FileStart
<1>4. SameConfig
  <2>1. dev \in Device /\ StreamOK(dev)
    BY DEF SinksInv, SinksTypeOK, ConfigInv
  <2>2. ASSUME NEW f, dev' = PaStart(dev, f) PROVE SameConfig
    BY <2>1, <2>2, PaStartFacts DEF SameConfig
  <2>3. ASSUME TcpStart PROVE SameConfig
    BY <2>3, SameConfigOther DEF TcpStart, AsyncConnect
  <2>4. ASSUME FileStart PROVE SameConfig
    BY <2>4, SameConfigOther DEF FileStart
  <2>5. QED
    BY <2>2, <2>3, <2>4, SameConfigUnchanged DEF Start, SinkStart
<1>5. QED
  BY <1>1, <1>2, <1>3, <1>4, QuietKeeps

LEMMA StopKeeps == SinksInv /\ Stop => SinksInv'
<1> SUFFICES ASSUME SinksInv, Stop PROVE SinksInv'
  OBVIOUS
<1>1. SameSources
  BY SameSourcesStarted DEF Stop
<1>2. /\ SameStack /\ current' = current /\ main'.arg = main.arg
      /\ out' = out
  BY SameStackUnchanged DEF Stop, filterVars
<1>3. SameConfig
  <2>1. dev \in Device /\ StreamOK(dev)
    BY DEF SinksInv, SinksTypeOK, ConfigInv
  <2>2. ASSUME NEW f, dev' = PaStop(dev, f) PROVE SameConfig
    BY <2>1, <2>2, PaStopFacts DEF SameConfig
  <2>3. ASSUME Close \/ FileStop PROVE SameConfig
    BY <2>3, SameConfigOther DEF Close, FileStop
  <2>4. QED
    BY <2>2, <2>3, SameConfigUnchanged DEF Stop, SinkStop
<1>4. QED
  BY <1>1, <1>2, <1>3, QuietKeeps

LEMMA CompletionKeeps == SinksInv /\ RunCompletion => SinksInv'
<1> SUFFICES ASSUME SinksInv, RunCompletion PROVE SinksInv'
  OBVIOUS
<1>1. /\ SameSources /\ SameConfig /\ current' = current
      /\ main'.arg = main.arg /\ out' = out
  BY SameSourcesUnchanged, SameConfigUnchanged DEF RunCompletion, filterVars
<1>2. PICK c \in ops, ec \in {"ok", "error"} :
        stack' = [i \in DOMAIN stack |->
                    IF stack[i].id = c.owner
                    THEN [stack[i] EXCEPT !.ec = ec] ELSE stack[i]]
  BY DEF RunCompletion, Completion
<1>3. stack \in Seq(Frame)
  BY DEF SinksInv, SinksTypeOK
<1>4. \A i \in DOMAIN stack :
        /\ stack'[i] \in Frame
        /\ stack'[i].src = stack[i].src /\ stack'[i].id = stack[i].id
  <2>1. \A i \in DOMAIN stack : stack[i] \in Frame
    BY <1>3
  <2>2. \A f \in Frame :
          LET g == [f EXCEPT !.ec = ec] IN
          g \in Frame /\ g.src = f.src /\ g.id = f.id
    BY DEF Frame
  <2>3. QED
    BY <1>2, <2>1, <2>2
<1>5. stack' \in Seq(Frame) /\ DOMAIN stack' = DOMAIN stack
  <2>1. DOMAIN stack = 1 .. Len(stack) /\ Len(stack) \in Nat
    BY <1>3
  <2>2. stack' \in [1 .. Len(stack) -> Frame]
    BY <1>2, <1>4, <2>1
  <2>3. QED
    BY <2>1, <2>2
<1>6. SameStack
  BY <1>4, <1>5 DEF SameStack
<1>7. QED
  BY <1>1, <1>6, QuietKeeps

\* One source goes on; the others wait as before.
LEMMA WaitingMoves ==
  ASSUME NEW f \in Seq(Frame), NEW s \in Sources,
         NEW c \in Sources \cup {"none"},
         NEW S \in [Sources -> SourceRec], NEW T \in [Sources -> SourceRec],
         WaitingOK(f, S, c), c # s,
         \A i \in DOMAIN f : f[i].src # s,
         \A t \in Sources : t # s => T[t] = S[t]
  PROVE  WaitingOK(f, T, c)
<1>1. \A i \in DOMAIN f : f[i] \in Frame
  OBVIOUS
<1>2. \A i \in DOMAIN f : f[i].src \in Sources
  BY <1>1 DEF Frame
<1>3. \A i \in DOMAIN f : T[f[i].src] = S[f[i].src]
  BY <1>2
<1>4. c # "none" => T[c] = S[c]
  OBVIOUS
<1>5. QED
  BY <1>3, <1>4 DEF WaitingOK

\* The sources that receive do not wait.
LEMMA ReceivingDoesNotWait ==
  ASSUME SinksInv, NEW s \in Sources, src[s].receiving
  PROVE  s # current /\ \A i \in DOMAIN stack : stack[i].src # s
  BY SourcesAssumption DEF SinksInv, WaitingOK

\* No configuration is pushed.
LEMMA ConfigKeeps ==
  ASSUME SinksInv, SameConfig,
         \A s \in Sources : src'[s].conf = src[s].conf,
         current' = "none" \/ (current' = current /\ main'.arg = main.arg)
  PROVE  ConfigInv'
<1>1. /\ dev.by \in Sources \cup {"none"}
      /\ current \in Sources \cup {"none"}
  BY DEF SinksInv, SinksTypeOK, Device
<1>2. QED
  BY <1>1 DEF SinksInv, ConfigInv, SameConfig

\* What is given out of the source s while the others stand still.
LEMMA Delivers ==
  ASSUME SinksInv, NEW s \in Sources, NEW T \in [Sources -> SourceRec],
         T[s].receiving, T[s].pushed >= src[s].pushed,
         \A t \in Sources : t # s => T[t] = src[t],
         NEW o \in {out, <<>>}, NEW e \in Output, e.src = s,
         e.n <= T[s].pushed,
         \A i \in DOMAIN out : out[i].src = s => out[i].n < e.n
  PROVE  /\ o \in Seq(Output) /\ OutOK(o, T)
         /\ Append(o, e) \in Seq(Output) /\ OutOK(Append(o, e), T)
<1>1. src \in [Sources -> SourceRec] /\ out \in Seq(Output)
  BY DEF SinksInv, SinksTypeOK
<1>2. o \in Seq(Output) /\ OutOK(o, src)
  <2>1. CASE o = out
    BY <1>1, <2>1 DEF SinksInv
  <2>2. CASE o = <<>>
    BY <2>2 DEF OutOK
  <2>3. QED
    BY <2>1, <2>2
<1>3. src[s].pushed \in Nat /\ T[s].pushed \in Nat
  BY <1>1 DEF SourceRec
<1>4. \A t \in Sources :
        \/ T[t].pushed > src[t].pushed
        \/ /\ T[t].pushed = src[t].pushed
           /\ T[t].receiving \/ ~src[t].receiving
  BY <1>3
<1>5. OutOK(o, T)
  BY <1>1, <1>2, <1>4, OutMoves
<1>6. \A i \in DOMAIN o : o[i].src = e.src => o[i].n < e.n
  OBVIOUS
<1>7. QED
  BY <1>2, <1>5, <1>6, OutGrows

\* What a source that receives again has had played.
LEMMA PlayedBefore ==
  ASSUME SinksInv, NEW s \in Sources
  PROVE  \A i \in DOMAIN out : out[i].src = s =>
           /\ out[i].n < src[s].pushed + 1
           /\ ~src[s].receiving => out[i].n < src[s].pushed
<1>1. \A i \in DOMAIN out : out[i] \in Output
  BY DEF SinksInv, SinksTypeOK
<1>2. \A i \in DOMAIN out : out[i].n \in Nat
  BY <1>1 DEF Output
<1>3. src[s] \in SourceRec
  BY DEF SinksInv, SinksTypeOK
<1>4. src[s].pushed \in Nat
  BY <1>3 DEF SourceRec
<1>5. QED
  BY <1>2, <1>4 DEF SinksInv, OutOK

LEMMA PlayedType ==
  ASSUME SinksInv, NEW s \in Sources, NEW n \in Nat, NEW rate \in Rate0
  PROVE  /\ Played(s, n, rate) \in Output
         /\ Played(s, n, rate).src = s /\ Played(s, n, rate).n = n
<1>1. dev.stream \in Rate0 /\ dev.by \in Sources \cup {"none"}
  BY DEF SinksInv, SinksTypeOK, Device
<1>2. QED
  BY <1>1 DEF Played, Output

\* A push that is over when its handler returns, whatever it has given out.
LEMMA ReturnsKeeps ==
  ASSUME SinksInv, NEW s \in Sources, src[s].receiving,
         src' \in [Sources -> SourceRec],
         src'[s].pushed = src[s].pushed + 1, src'[s].receiving,
         src'[s].conf = src[s].conf,
         \A t \in Sources : t # s => src'[t] = src[t],
         stack' = stack, current' = current, main'.arg = main.arg,
         SameConfig,
         LET e == Played(s, src[s].pushed + 1, 0)
         IN out' \in {out, <<>>, Append(out, e), Append(<<>>, e)}
  PROVE  SinksInv'
<1>1. /\ src \in [Sources -> SourceRec] /\ stack \in Seq(Frame)
      /\ current \in Sources \cup {"none"}
  BY DEF SinksInv, SinksTypeOK
<1>2. src[s].pushed \in Nat
  BY <1>1 DEF SourceRec
<1>3. PICK e \in Output :
        /\ e.src = s /\ e.n = src[s].pushed + 1
        /\ out' \in {out, <<>>, Append(out, e), Append(<<>>, e)}
  <2>1. 0 \in Rate0 /\ src[s].pushed + 1 \in Nat
    BY <1>2 DEF Rate0
  <2>2. QED
    BY <2>1, PlayedType
<1>4. \A i \in DOMAIN out : out[i].src = s => out[i].n < e.n
  BY <1>3, PlayedBefore
<1>5. out' \in Seq(Output) /\ OutOK(out', src')
  <2>1. src'[s].pushed >= src[s].pushed /\ e.n <= src'[s].pushed
    BY <1>2, <1>3
  <2>2. \A o \in {out, <<>>} :
          /\ o \in Seq(Output) /\ OutOK(o, src')
          /\ Append(o, e) \in Seq(Output) /\ OutOK(Append(o, e), src')
    BY <1>3, <1>4, <2>1, Delivers
  <2>3. QED
    BY <1>3, <2>2
<1>6. WaitingOK(stack', src', current')
  <2>1. WaitingOK(stack, src, current)
    BY DEF SinksInv
  <2>2. s # current /\ \A i \in DOMAIN stack : stack[i].src # s
    BY ReceivingDoesNotWait
  <2>3. WaitingOK(stack, src', current)
    BY <1>1, <2>1, <2>2, WaitingMoves
  <2>4. QED
    BY <2>3
<1>7. ConfigInv'
  BY ConfigKeeps
<1>8. SinksTypeOK'
  BY <1>1, <1>5 DEF SinksTypeOK, SameConfig
<1>9. QED
  BY <1>5, <1>6, <1>7, <1>8 DEF SinksInv

\* The buffer is received and dealt with in one go.
LEMMA ReceivedProcessed ==
  ASSUME SinksInv, NEW s \in Sources
  PROVE  LET T == Processed(Received(s), s) IN
         /\ T \in [Sources -> SourceRec]
         /\ T[s].pushed = src[s].pushed + 1 /\ T[s].receiving
         /\ T[s].conf = src[s].conf
         /\ \A t \in Sources : t # s => T[t] = src[t]
<1>1. SinksTypeOK
  BY DEF SinksInv
<1>2. QED
  BY <1>1, ReceivedFacts, ProcessedFacts

LEMMA PushIgnoredKeeps == SinksInv /\ PushIgnored => SinksInv'
<1> SUFFICES ASSUME SinksInv, PushIgnored PROVE SinksInv'
  OBVIOUS
<1>1. PICK s \in Sources :
        src[s].receiving /\ src' = [Received(s) EXCEPT ![s].receiving = TRUE]
  BY DEF PushIgnored, CanReceive
<1>2. SinksTypeOK
  BY DEF SinksInv
<1>3. PICK R \in [Sources -> SourceRec] : R = Received(s)
  BY <1>2, ReceivedFacts
<1>4. R[s] \in SourceRec
  BY <1>3
<1>5. PICK r : r = [R[s] EXCEPT !.receiving = TRUE]
  OBVIOUS
<1>6. /\ r \in SourceRec /\ r.pushed = R[s].pushed /\ r.receiving
      /\ r.conf = R[s].conf
  BY <1>4, <1>5 DEF SourceRec
<1>7. src' = [R EXCEPT ![s] = r]
  BY <1>1, <1>3, <1>5
<1>8. /\ src' \in [Sources -> SourceRec] /\ src'[s] = r
      /\ \A t \in Sources : t # s => src'[t] = R[t]
  BY <1>6, <1>7
<1>9. /\ src'[s].pushed = src[s].pushed + 1 /\ src'[s].receiving
      /\ src'[s].conf = src[s].conf
      /\ \A t \in Sources : t # s => src'[t] = src[t]
  BY <1>2, <1>3, <1>6, <1>8, ReceivedFacts
<1>10. /\ stack' = stack /\ current' = current /\ main'.arg = main.arg
       /\ out' = out /\ dev' = dev
  BY DEF PushIgnored, filterVars
<1>11. QED
  BY <1>1, <1>8, <1>9, <1>10, SameConfigUnchanged, ReturnsKeeps

LEMMA PushWritesKeeps ==
  ASSUME SinksInv, NEW s \in Sources, src[s].receiving,
         PushWrites(s, src[s].pushed + 1)
  PROVE  SinksInv'
<1>1. /\ src' \in [Sources -> SourceRec]
      /\ src'[s].pushed = src[s].pushed + 1 /\ src'[s].receiving
      /\ src'[s].conf = src[s].conf
      /\ \A t \in Sources : t # s => src'[t] = src[t]
  BY ReceivedProcessed DEF PushWrites
<1>2. stack' = stack /\ current' = current /\ main'.arg = main.arg
  BY DEF PushWrites, filterVars
<1>3. SameConfig
  <2>1. ASSUME FileProcess(s, src[s].pushed + 1) PROVE SameConfig
    BY <2>1, SameConfigOther DEF FileProcess
  <2>2. ASSUME TcpWrite(s, src[s].pushed + 1) PROVE SameConfig
    BY <2>2, SameConfigOther DEF TcpWrite, Close
  <2>3. QED
    BY <2>1, <2>2, SameConfigUnchanged DEF PushWrites
<1>4. LET e == Played(s, src[s].pushed + 1, 0)
      IN out' \in {out, <<>>, Append(out, e), Append(<<>>, e)}
  BY DEF PushWrites, FileProcess, AppProcess, TcpWrite
<1>5. QED
  BY <1>1, <1>2, <1>3, <1>4, ReturnsKeeps

\* A push comes to wait for its connection: its source has none that waits.
LEMMA PushConnectsKeeps ==
  ASSUME SinksInv, NEW s \in Sources, src[s].receiving, PushConnects(s)
  PROVE  SinksInv'
<1>1. current' = current /\ main'.arg = main.arg /\ out' = out
  BY DEF PushConnects, filterVars
<1>2. SinksTypeOK
  BY DEF SinksInv
<1>3. CASE /\ src' = Processed(Received(s), s)
           /\ stack' = stack /\ dev' = dev
  <2>1. /\ src' \in [Sources -> SourceRec]
        /\ src'[s].pushed = src[s].pushed + 1 /\ src'[s].receiving
        /\ src'[s].conf = src[s].conf
        /\ \A t \in Sources : t # s => src'[t] = src[t]
    BY <1>3, ReceivedProcessed
  <2>2. QED
    BY <1>1, <1>3, <2>1, SameConfigUnchanged, ReturnsKeeps
<1>4. CASE /\ src' = Received(s)
           /\ stack' = Append(stack, [src |-> s,
                                      id |-> <<s, src[s].pushed + 1>>,
                                      ec |-> "pending"])
           /\ dev' = [dev EXCEPT !.socket = "opening"]
  <2>1. SameConfig
    BY <1>4, SameConfigOther
  <2>2. /\ src' \in [Sources -> SourceRec]
        /\ src'[s].pushed = src[s].pushed + 1
        /\ src'[s].buffer = src[s].pushed + 1
        /\ src'[s].conf = src[s].conf /\ ~src'[s].receiving
        /\ \A t \in Sources : t # s => src'[t] = src[t]
    BY <1>2, <1>4, ReceivedFacts
  <2>3. /\ src \in [Sources -> SourceRec] /\ stack \in Seq(Frame)
        /\ current \in Sources \cup {"none"} /\ out \in Seq(Output)
    BY <1>2 DEF SinksTypeOK
  <2>4. src[s].pushed \in Nat
    BY <2>3 DEF SourceRec
  <2>5. PICK f \in Frame : /\ f.src = s /\ f.id[2] = src[s].pushed + 1
                           /\ stack' = Append(stack, f)
    BY <1>4, <2>4 DEF Frame
  <2>6. s # current /\ \A i \in DOMAIN stack : stack[i].src # s
    BY ReceivingDoesNotWait
  <2>7. WaitingOK(stack, src', current)
    BY <2>2, <2>3, <2>6, WaitingMoves DEF SinksInv
  <2>8. /\ stack' \in Seq(Frame)
        /\ \A i \in DOMAIN stack' :
             \/ i \in DOMAIN stack /\ stack'[i] = stack[i]
             \/ i = Len(stack) + 1 /\ stack'[i] = f
    BY <2>3, <2>5
  <2>9. WaitingOK(stack', src', current')
    <3>1. ASSUME NEW i \in DOMAIN stack'
          PROVE  LET t == stack'[i].src IN
                 /\ ~src'[t].receiving
                 /\ src'[t].buffer = src'[t].pushed
                 /\ stack'[i].id[2] = src'[t].pushed
                 /\ t # current'
      <4>1. CASE i \in DOMAIN stack /\ stack'[i] = stack[i]
        BY <1>1, <2>7, <4>1 DEF WaitingOK
      <4>2. CASE stack'[i] = f
        BY <1>1, <2>2, <2>5, <2>6, <4>2
      <4>3. QED
        BY <2>8, <4>1, <4>2
    <3>2. \A i, j \in DOMAIN stack' : stack'[i].src = stack'[j].src => i = j
      BY <2>5, <2>6, <2>7, <2>8 DEF WaitingOK
    <3>3. current' # "none" => /\ ~src'[current'].receiving
                               /\ src'[current'].buffer = src'[current'].pushed
      BY <1>1, <2>7 DEF WaitingOK
    <3>4. QED
      BY <3>1, <3>2, <3>3 DEF WaitingOK
  <2>10. OutOK(out', src')
    <3>1. \A t \in Sources :
            \/ src'[t].pushed > src[t].pushed
            \/ /\ src'[t].pushed = src[t].pushed
               /\ src'[t].receiving \/ ~src[t].receiving
      BY <2>2, <2>4
    <3>2. OutOK(out, src')
      BY <2>2, <2>3, <3>1, OutMoves DEF SinksInv
    <3>3. QED
      BY <1>1, <3>2
  <2>11. ConfigInv'
    BY <1>1, <2>1, <2>2, ConfigKeeps
  <2>12. SinksTypeOK'
    BY <1>1, <2>1, <2>2, <2>3, <2>8 DEF SinksTypeOK, SameConfig
  <2>13. QED
    BY <2>9, <2>10, <2>11, <2>12 DEF SinksInv
<1>5. QED
  BY <1>3, <1>4 DEF PushConnects, AsyncConnect

\* A buffer goes into the filter, behind its configuration.
LEMMA PushAudioKeeps ==
  ASSUME SinksInv, FiltersInv, NEW s \in Sources, NEW rate \in Rates,
         src[s].receiving, PushAudio(s, rate), current = "none"
  PROVE  SinksInv'
<1>1. stack' = stack /\ current' = s /\ out' = out
  BY DEF PushAudio
<1>2. main'.arg = rate
  BY EnterProcessKeeps DEF PushAudio
<1>3. SinksTypeOK
  BY DEF SinksInv
<1>4. /\ src \in [Sources -> SourceRec] /\ stack \in Seq(Frame)
      /\ out \in Seq(Output) /\ dev \in Device
  BY <1>3 DEF SinksTypeOK
<1>5. /\ src' \in [Sources -> SourceRec]
      /\ src'[s].pushed = src[s].pushed + 1
      /\ src'[s].buffer = src[s].pushed + 1
      /\ src'[s].conf = rate /\ ~src'[s].receiving
      /\ \A t \in Sources : t # s => src'[t] = src[t]
  <2>1. PICK R \in [Sources -> SourceRec] : R = Received(s)
    BY <1>3, ReceivedFacts
  <2>2. R[s] \in SourceRec
    BY <2>1
  <2>3. PICK r : r = [R[s] EXCEPT !.conf = rate]
    OBVIOUS
  <2>4. /\ r \in SourceRec /\ r.pushed = R[s].pushed
        /\ r.buffer = R[s].buffer /\ r.receiving = R[s].receiving
        /\ r.conf = rate
    BY <2>2, <2>3 DEF SourceRec, Rate0
  <2>5. src' = [R EXCEPT ![s] = r]
    BY <2>1, <2>3 DEF PushAudio
  <2>6. /\ src' \in [Sources -> SourceRec] /\ src'[s] = r
        /\ \A t \in Sources : t # s => src'[t] = R[t]
    BY <2>4, <2>5
  <2>7. QED
    BY <1>3, <2>1, <2>4, <2>6, ReceivedFacts
<1>6. src[s].pushed \in Nat
  BY <1>4 DEF SourceRec
<1>7. \A i \in DOMAIN stack : stack[i].src # s
  BY ReceivingDoesNotWait
<1>8. WaitingOK(stack', src', current')
  <2>1. WaitingOK(stack, src, "none") /\ "none" # s
    BY SourcesAssumption DEF SinksInv
  <2>2. WaitingOK(stack, src', "none")
    BY <1>4, <1>5, <1>7, <2>1, WaitingMoves
  <2>3. QED
    BY <1>1, <1>5, <1>7, <2>2 DEF WaitingOK
<1>9. OutOK(out', src')
  <2>1. \A t \in Sources :
          \/ src'[t].pushed > src[t].pushed
          \/ /\ src'[t].pushed = src[t].pushed
             /\ src'[t].receiving \/ ~src[t].receiving
    BY <1>5, <1>6
  <2>2. OutOK(out, src')
    BY <1>4, <1>5, <2>1, OutMoves DEF SinksInv
  <2>3. QED
    BY <1>1, <2>2
<1>10. dev' \in Device /\ ConfigInv'
  <2>1. /\ StreamOK(dev) /\ dev.by \in Sources \cup {"none"}
        /\ dev.by # "none" => dev.config = src[dev.by].conf
    BY <1>4 DEF SinksInv, ConfigInv, Device
  <2>2. CASE src[s].conf = rate
    <3>1. dev' = dev
      BY <2>2 DEF PushAudio
    <3>2. \A t \in Sources : src'[t].conf = src[t].conf
      BY <1>5, <2>2
    <3>3. QED
      BY <1>1, <1>2, <1>4, <1>5, <2>1, <3>1, <3>2, SourcesAssumption
      DEF ConfigInv
  <2>3. CASE src[s].conf # rate
    <3>1. PICK f : dev' = [PaConfig(dev, rate, f) EXCEPT !.by = s]
      BY <2>3 DEF PushAudio
    <3>2. PICK d \in Device : /\ d = PaConfig(dev, rate, f)
                              /\ d.config = rate /\ StreamOK(d)
      BY <1>4, <2>1, PaConfigFacts
    <3>3. dev' = [d EXCEPT !.by = s]
      BY <3>1, <3>2
    <3>4. /\ dev' \in Device /\ dev'.config = rate /\ dev'.by = s
          /\ StreamOK(dev')
      BY <3>2, <3>3 DEF Device, StreamOK
    <3>5. QED
      BY <1>1, <1>2, <1>5, <3>4 DEF ConfigInv
  <2>4. QED
    BY <2>2, <2>3
<1>11. SinksTypeOK'
  BY <1>1, <1>4, <1>5, <1>10 DEF SinksTypeOK
<1>12. QED
  BY <1>8, <1>9, <1>10, <1>11 DEF SinksInv

\* The buffer leaves the filter: it is the last one its source has pushed.
LEMMA PopAudioKeeps == SinksInv /\ FiltersInv /\ PopAudio => SinksInv'
<1> SUFFICES ASSUME SinksInv, FiltersInv, PopAudio PROVE SinksInv'
  OBVIOUS
<1>1. /\ src \in [Sources -> SourceRec] /\ stack \in Seq(Frame)
      /\ out \in Seq(Output) /\ current \in Sources /\ current # "none"
  BY DEF PopAudio, SinksInv, SinksTypeOK
<1>2. PICK s \in Sources : s = current
  BY <1>1
<1>3. /\ stack' = stack /\ current' = "none" /\ dev' = dev
      /\ out' = PaProcess(s, main.arg) /\ src' = Processed(src, s)
  BY <1>2 DEF PopAudio
<1>4. /\ src' \in [Sources -> SourceRec]
      /\ src'[s].pushed = src[s].pushed /\ src'[s].receiving
      /\ src'[s].conf = src[s].conf
      /\ \A t \in Sources : t # s => src'[t] = src[t]
  BY <1>1, <1>3, ProcessedFacts
<1>5. /\ ~src[s].receiving /\ src[s].buffer = src[s].pushed
      /\ \A i \in DOMAIN stack : stack[i].src # s
      /\ WaitingOK(stack, src, "none")
  <2>1. WaitingOK(stack, src, s) /\ s # "none"
    BY <1>1, <1>2 DEF SinksInv
  <2>2. \A i \in DOMAIN stack : stack[i] \in Frame
    BY <1>1
  <2>3. \A i \in DOMAIN stack : stack[i].src # "none"
    BY <2>2, SourcesAssumption DEF Frame
  <2>4. QED
    BY <2>1, <2>3 DEF WaitingOK
<1>6. WaitingOK(stack', src', current')
  <2>1. WaitingOK(stack, src', "none")
    BY <1>1, <1>2, <1>4, <1>5, WaitingMoves
  <2>2. QED
    BY <1>3, <2>1
<1>7. out' \in Seq(Output) /\ OutOK(out', src')
  <2>1. src[s].pushed \in Nat /\ main.arg \in Rate0
    BY <1>1 DEF SourceRec, FiltersInv, FiltersTypeOK, ProcessState
  <2>2. PICK e \in Output :
          /\ e.src = s /\ e.n = src[s].pushed
          /\ out' \in {out, Append(out, e)}
    BY <1>3, <1>5, <2>1, PlayedType DEF PaProcess
  <2>3. \A i \in DOMAIN out : out[i].src = s => out[i].n < e.n
    BY <1>5, <2>2, PlayedBefore
  <2>4. src'[s].pushed >= src[s].pushed /\ e.n <= src'[s].pushed
    BY <1>4, <2>1, <2>2
  <2>5. /\ out \in Seq(Output) /\ OutOK(out, src')
        /\ Append(out, e) \in Seq(Output) /\ OutOK(Append(out, e), src')
    BY <1>4, <2>2, <2>3, <2>4, Delivers
  <2>6. QED
    BY <2>2, <2>5
<1>8. ConfigInv' /\ SameConfig
  <2>1. \A t \in Sources : src'[t].conf = src[t].conf
    BY <1>4
  <2>2. QED
    BY <1>3, <2>1, SameConfigUnchanged, ConfigKeeps
<1>9. SinksTypeOK'
  BY <1>1, <1>3, <1>4, <1>7, <1>8 DEF SinksTypeOK, SameConfig
<1>10. QED
  BY <1>6, <1>7, <1>8, <1>9 DEF SinksInv

\* The push on top of the stack comes back to the buffer it was called with.
LEMMA ResumeKeeps == SinksInv /\ Resume => SinksInv'
<1> SUFFICES ASSUME SinksInv, Resume PROVE SinksInv'
  OBVIOUS
<1>1. /\ src \in [Sources -> SourceRec] /\ stack \in Seq(Frame)
      /\ out \in Seq(Output) /\ current \in Sources \cup {"none"}
  BY DEF SinksInv, SinksTypeOK
<1>2. /\ Len(stack) \in Nat \ {0} /\ DOMAIN stack = 1 .. Len(stack)
      /\ Top = stack[Len(stack)] /\ Len(stack) \in DOMAIN stack
  BY <1>1 DEF Resume, Top
<1>3. Top \in Frame
  BY <1>1, <1>2
<1>4. PICK s \in Sources : s = Top.src
  BY <1>3 DEF Frame
<1>5. /\ current' = current /\ main'.arg = main.arg
      /\ src' = Processed(src, s)
      /\ stack' = SubSeq(stack, 1, Len(stack) - 1)
  BY <1>4 DEF Resume, filterVars
<1>6. /\ src' \in [Sources -> SourceRec]
      /\ src'[s].pushed = src[s].pushed /\ src'[s].receiving
      /\ src'[s].conf = src[s].conf
      /\ \A t \in Sources : t # s => src'[t] = src[t]
  BY <1>1, <1>5, ProcessedFacts
<1>7. /\ ~src[s].receiving /\ src[s].buffer = src[s].pushed /\ s # current
  BY <1>2, <1>4 DEF SinksInv, WaitingOK
<1>8. /\ stack' \in Seq(Frame) /\ DOMAIN stack' = 1 .. (Len(stack) - 1)
      /\ \A i \in DOMAIN stack' :
           /\ stack'[i] = stack[i] /\ i \in DOMAIN stack /\ i # Len(stack)
  BY <1>1, <1>2, <1>5
<1>9. \A i \in DOMAIN stack' : stack'[i].src # s
  BY <1>2, <1>4, <1>8 DEF SinksInv, WaitingOK
<1>10. WaitingOK(stack', src', current')
  <2>1. WaitingOK(stack', src, current)
    BY <1>8 DEF SinksInv, WaitingOK
  <2>2. WaitingOK(stack', src', current)
    BY <1>1, <1>6, <1>7, <1>8, <1>9, <2>1, WaitingMoves
  <2>3. QED
    BY <1>5, <2>2
<1>11. out' \in Seq(Output) /\ OutOK(out', src')
  <2>1. src[s].pushed \in Nat /\ 0 \in Rate0
    BY <1>1 DEF SourceRec, Rate0
  <2>2. PICK e \in Output :
          /\ e.src = s /\ e.n = src[s].pushed
          /\ out' \in {out, Append(out, e)}
    <3>1. out' \in {out, Append(out, Played(s, src[s].pushed, 0))}
      BY <1>4, <1>7 DEF Resume, TcpWrite
    <3>2. QED
      BY <2>1, <3>1, PlayedType
  <2>3. \A i \in DOMAIN out : out[i].src = s => out[i].n < e.n
    BY <1>7, <2>2, PlayedBefore
  <2>4. src'[s].pushed >= src[s].pushed /\ e.n <= src'[s].pushed
    BY <1>6, <2>1, <2>2
  <2>5. /\ out \in Seq(Output) /\ OutOK(out, src')
        /\ Append(out, e) \in Seq(Output) /\ OutOK(Append(out, e), src')
    BY <1>6, <2>2, <2>3, <2>4, Delivers
  <2>6. QED
    BY <2>2, <2>5
<1>12. SameConfig
  BY SameConfigOther DEF Resume, Close, TcpWrite
<1>13. ConfigInv'
  BY <1>5, <1>6, <1>12, ConfigKeeps
<1>14. SinksTypeOK'
  BY <1>1, <1>5, <1>6, <1>8, <1>11, <1>12 DEF SinksTypeOK, SameConfig
<1>15. QED
  BY <1>10, <1>11, <1>13, <1>14 DEF SinksInv

LEMMA SinksStep == SinksInv /\ FiltersInv /\ [Next]_vars => SinksInv'
<1> SUFFICES ASSUME SinksInv, FiltersInv, [Next]_vars PROVE SinksInv'
  OBVIOUS
<1> DEFINE Still == src' = src /\ stack' = stack /\ current' = current
<1>1. ASSUME Still, SameConfig, main'.arg = main.arg, out' \in {out, <<>>}
      PROVE  SinksInv'
  BY <1>1, SameSourcesUnchanged, SameStackUnchanged, QuietKeeps
<1>2. CASE Push
  <2>1. PICK s \in Sources :
          /\ src[s].receiving /\ current = "none"
          /\ \/ \E rate \in Rates : PushAudio(s, rate)
             \/ PushConnects(s)
             \/ PushWrites(s, src[s].pushed + 1)
    BY <1>2 DEF Push, CanReceive, CanRun
  <2>2. QED
    BY <2>1, PushAudioKeeps, PushConnectsKeeps, PushWritesKeeps
<1>3. CASE StopLoop
  BY <1>1, <1>3, SameConfigUnchanged DEF StopLoop, filterVars
<1>4. CASE setFileName
  <2>1. SameConfig
    BY <1>4, SameConfigOther DEF setFileName
  <2>2. QED
    BY <1>1, <1>4, <2>1 DEF setFileName, filterVars
<1>5. CASE HostAnswers
  <2>1. SameConfig
    BY <1>5, SameConfigOther DEF HostAnswers
  <2>2. QED
    BY <1>1, <1>5, <2>1 DEF HostAnswers, filterVars
<1>6. CASE PeerCloses
  <2>1. SameConfig
    BY <1>6, SameConfigOther DEF PeerCloses
  <2>2. QED
    BY <1>1, <1>6, <2>1 DEF PeerCloses, filterVars
<1>7. CASE FilterCall
  <2>1. main'.arg = main.arg
    BY <1>7, FilterCallKeeps DEF FilterCall
  <2>2. QED
    BY <1>1, <1>7, <2>1, SameConfigUnchanged DEF FilterCall
<1>8. CASE FilterStep
  <2>1. main'.arg = main.arg
    BY <1>8, FilterStepKeeps DEF FilterStep
  <2>2. QED
    BY <1>1, <1>8, <2>1, SameConfigUnchanged DEF FilterStep, sinkVars
<1>9. CASE UNCHANGED vars
  BY <1>1, <1>9, SameConfigUnchanged DEF vars, sinkVars, filterVars
<1>10. QED
  BY <1>2, <1>3, <1>4, <1>5, <1>6, <1>7, <1>8, <1>9, StartKeeps, StopKeeps,
     PushIgnoredKeeps, PopAudioKeeps, ResumeKeeps, CompletionKeeps
  DEF Next

LEMMA SinksStart == Init => SinksInv
<1> SUFFICES ASSUME Init PROVE SinksInv
  OBVIOUS
<1>1. 0 \in Rate0
  BY DEF Rate0
<1>2. src \in [Sources -> SourceRec]
  <2>1. [started |-> FALSE, pushed |-> 0, receiving |-> TRUE, buffer |-> 0,
         conf |-> 0] \in SourceRec
    BY <1>1 DEF SourceRec
  <2>2. QED
    BY <2>1 DEF Init
<1>3. dev \in Device /\ StreamOK(dev) /\ dev.by = "none"
  BY <1>1 DEF Init, Device, StreamOK
<1>4. stack = <<>> /\ out = <<>> /\ current = "none"
  BY DEF Init
<1>5. SinksTypeOK
  BY <1>2, <1>3, <1>4 DEF SinksTypeOK
<1>6. WaitingOK(stack, src, current) /\ OutOK(out, src) /\ ConfigInv
  BY <1>3, <1>4 DEF WaitingOK, OutOK, ConfigInv
<1>7. QED
  BY <1>5, <1>6 DEF SinksInv

LEMMA SinksAlways == Spec => []SinksInv
  BY SinksStart, SinksStep, FiltersAlways, PTL DEF Spec

\* Handlers nest when TcpClientSink runs the main loop until its connection is
\* up, and pushes of other sources overtake the one that waits; yet each push
\* comes back to the buffer it was called with, and every sink gives out the
\* buffers of a source in the order of pushBuffer and none twice.
THEOREM SinksKeepOrder == Spec => []OutInOrder
<1>1. SinksInv => OutInOrder
  BY DEF SinksInv, WaitingOK, OutOK, OutInOrder
<1>2. QED
  BY <1>1, SinksAlways, PTL

\* In front of PortAudioSink no push waits: only TcpClientSink runs the loop.
RightRates == (sink = "portaudio" => stack = <<>>) /\ RateOnlyByOther

LEMMA RightRatesStep ==
  SinksInv /\ FiltersInv /\ RightRates /\ [Next]_vars => RightRates'
<1> SUFFICES ASSUME SinksInv, FiltersInv, RightRates, [Next]_vars,
                    sink' = "portaudio"
             PROVE  RightRates'
  BY DEF RightRates, RateOnlyByOther
<1>1. sink = "portaudio" /\ stack = <<>>
  BY DEF RightRates, Next, vars, sinkVars, Start, Stop, StopLoop, setFileName,
         PushIgnored, Push, PopAudio, Resume, HostAnswers, PeerCloses,
         RunCompletion, FilterCall, FilterStep
<1>2. \A i \in DOMAIN out :
        out[i].stream # out[i].rate => out[i].by # out[i].src
  BY <1>1 DEF RightRates, RateOnlyByOther
<1>3. CASE PopAudio
  <2>1. stack' = <<>> /\ out' = PaProcess(current, main.arg)
    BY <1>1, <1>3 DEF PopAudio
  <2>2. CASE out' = out
    BY <1>2, <2>1, <2>2 DEF RightRates, RateOnlyByOther
  <2>3. CASE out' # out
    <3>1. current # "none" /\ current \in Sources /\ src[current] \in SourceRec
      BY <1>3 DEF PopAudio, SinksInv, SinksTypeOK
    <3>2. PICK e : /\ e = Played(current, src[current].buffer, main.arg)
                   /\ out' = Append(out, e)
                   /\ dev.stream # 0 /\ dev.runs
      BY <2>1, <2>3 DEF PaProcess
    <3>3. /\ e.stream = dev.stream /\ e.by = dev.by /\ e.src = current
          /\ e.rate = main.arg
      BY <3>2 DEF Played
    <3>4. dev.by = current => dev.stream = main.arg
      BY <3>1, <3>2 DEF SinksInv, ConfigInv, StreamOK
    <3>5. e.stream # e.rate => e.by # e.src
      BY <3>3, <3>4
    <3>6. out \in Seq(Output) /\ e \in Output
      <4>1. src[current].buffer \in Nat /\ main.arg \in Rate0
        BY <3>1 DEF SourceRec, FiltersInv, FiltersTypeOK, ProcessState
      <4>2. QED
        BY <3>1, <3>2, <4>1, PlayedType DEF SinksInv, SinksTypeOK
    <3>7. \A i \in DOMAIN out' :
            (i \in DOMAIN out /\ out'[i] = out[i]) \/ out'[i] = e
      BY <3>2, <3>6
    <3>8. QED
      BY <1>2, <2>1, <3>5, <3>7 DEF RightRates, RateOnlyByOther
  <2>4. QED
    BY <2>2, <2>3
<1>4. CASE RunCompletion
  <2>1. stack' = <<>> /\ out' = out
    BY <1>1, <1>4 DEF RunCompletion, Completion
  <2>2. QED
    BY <1>2, <2>1 DEF RightRates, RateOnlyByOther
<1>5. CASE Push
  <2>1. stack' = <<>> /\ out' = out
    BY <1>1, <1>5 DEF Push, PushAudio, PushConnects, PushWrites
  <2>2. QED
    BY <1>2, <2>1 DEF RightRates, RateOnlyByOther
<1>6. CASE stack' = stack /\ out' = out
  BY <1>1, <1>2, <1>6 DEF RightRates, RateOnlyByOther
<1>7. QED
  BY <1>1, <1>3, <1>4, <1>5, <1>6
  DEF Next, vars, sinkVars, Start, SinkStart, Stop, StopLoop, setFileName,
      PushIgnored, Resume, HostAnswers, PeerCloses, FilterCall, FilterStep

\* Whichever of stopping, opening and starting its stream fails when a new
\* configuration arrives, PortAudioSink plays no buffer of a source with a
\* rate that source has left behind: if the rate is wrong, another source was
\* the last to push one.
THEOREM RatesAreRight == Spec => []RateOnlyByOther
<1>1. Init => RightRates
  <2>1. ASSUME Init PROVE out = <<>> /\ stack = <<>>
    BY <2>1 DEF Init
  <2>2. QED
    BY <2>1 DEF RightRates, RateOnlyByOther
<1>2. RightRates => RateOnlyByOther
  BY DEF RightRates
<1>3. QED
  BY <1>1, <1>2, RightRatesStep, SinksAlways, FiltersAlways, PTL DEF Spec
=============================================================================
