--------------------------- MODULE ServiceProofs ----------------------------
(***************************************************************************)
(* What a node of any configuration has spawned by the time its network is *)
(* opened, and by the time it authors: the two safety invariants of        *)
(* NodeService, proved from the lists of steps of the builders.            *)
(***************************************************************************)
EXTENDS NodeService, TLAPS

-----------------------------------------------------------------------------
(* Steps and lists of steps *)

Tasks ==
  {"telemetry", "txpool", "import-queue", "network", "offchain", "rpc", "aura",
   "grandpa-voter", "grandpa-observer"}

Steps ==
  [wanted : BOOLEAN, fails : {"never", "maybe", "always"},
   task : Tasks \cup {NoTask, StartNetwork}]

\* s spawns t, if w.
Spawns(s, w, t) == s \in Steps /\ s.wanted = w /\ s.task = t

\* Where the elements of two lists are in their concatenation.
LEMMA ConcatAt ==
  ASSUME NEW s \in Seq(Steps), NEW t \in Seq(Steps)
  PROVE  /\ s \o t \in Seq(Steps)
         /\ Len(s \o t) = Len(s) + Len(t)
         /\ \A i \in 1 .. Len(s) : (s \o t)[i] = s[i]
         /\ \A i \in 1 .. Len(t) : (s \o t)[Len(s) + i] = t[i]
  OBVIOUS

\* The elements of a list that is written out.
LEMMA OneStep ==
  ASSUME NEW a \in Steps
  PROVE  <<a>> \in Seq(Steps) /\ Len(<<a>>) = 1 /\ <<a>>[1] = a
  OBVIOUS

\* The same of six, eight and twelve.
LEMMA SixSteps ==
  ASSUME NEW a \in Steps, NEW b \in Steps, NEW c \in Steps, NEW d \in Steps,
         NEW e \in Steps, NEW f \in Steps
  PROVE  LET s == <<a, b, c, d, e, f>>
         IN  /\ s \in Seq(Steps) /\ Len(s) = 6
             /\ s[1] = a /\ s[2] = b /\ s[3] = c /\ s[4] = d /\ s[5] = e /\ s[6] = f
  OBVIOUS

LEMMA EightSteps ==
  ASSUME NEW a \in Steps, NEW b \in Steps, NEW c \in Steps, NEW d \in Steps,
         NEW e \in Steps, NEW f \in Steps, NEW g \in Steps, NEW h \in Steps
  PROVE  LET s == <<a, b, c, d, e, f, g, h>>
         IN  /\ s \in Seq(Steps) /\ Len(s) = 8
             /\ s[1] = a /\ s[2] = b /\ s[3] = c /\ s[4] = d
             /\ s[5] = e /\ s[6] = f /\ s[7] = g /\ s[8] = h
  OBVIOUS

LEMMA TwelveSteps ==
  ASSUME NEW a \in Steps, NEW b \in Steps, NEW c \in Steps, NEW d \in Steps,
         NEW e \in Steps, NEW f \in Steps, NEW g \in Steps, NEW h \in Steps,
         NEW i \in Steps, NEW j \in Steps, NEW k \in Steps, NEW l \in Steps
  PROVE  LET s == <<a, b, c, d, e, f, g, h, i, j, k, l>>
         IN  /\ s \in Seq(Steps) /\ Len(s) = 12
             /\ s[1] = a /\ s[2] = b /\ s[3] = c /\ s[4] = d
             /\ s[5] = e /\ s[6] = f /\ s[7] = g /\ s[8] = h
             /\ s[9] = i /\ s[10] = j /\ s[11] = k /\ s[12] = l
  OBVIOUS

-----------------------------------------------------------------------------
(* The lists of the builders *)

\* create_runner spawns nothing.
LEMMA RunnerSteps ==
  /\ CreateRunner \in Seq(Steps)
  /\ Len(CreateRunner) = 1
  /\ Spawns(CreateRunner[1], TRUE, NoTask)
<1> DEFINE n == Step(TRUE, "maybe", NoTask)
<1>1. Spawns(n, TRUE, NoTask)
  BY DEF Spawns, Step, Steps
<1>2. CreateRunner = <<n>>
  BY Zenon DEF CreateRunner
<1> HIDE DEF n
<1> QED BY <1>1, <1>2, OneStep DEF Spawns

\* new_partial: telemetry, the pool, and the import queue last.
LEMMA PartialSteps ==
  ASSUME NEW c \in Configs
  PROVE  LET s == NewPartial(c)
         IN  /\ s \in Seq(Steps) /\ Len(s) = 8
             /\ s[1].task = NoTask /\ s[2].task = NoTask /\ s[3].task = NoTask
             /\ Spawns(s[4], c.telemetry_endpoints, "telemetry")
             /\ Spawns(s[5], TRUE, "txpool")
             /\ s[6].task = NoTask /\ s[7].task = NoTask
             /\ Spawns(s[8], TRUE, "import-queue")
<1> DEFINE k == Step(c.keystore_remote, "always", NoTask)
           w == Step(c.telemetry_endpoints, "maybe", NoTask)
           n == Step(TRUE, "maybe", NoTask)
           t == Step(c.telemetry_endpoints, "never", "telemetry")
           p == Step(TRUE, "never", "txpool")
           q == Step(TRUE, "maybe", "import-queue")
<1>1. c.keystore_remote \in BOOLEAN /\ c.telemetry_endpoints \in BOOLEAN
  BY DEF Configs
<1>2. Spawns(k, c.keystore_remote, NoTask)
  BY <1>1 DEF Spawns, Step, Steps
<1>3. Spawns(w, c.telemetry_endpoints, NoTask)
  BY <1>1 DEF Spawns, Step, Steps
<1>4. Spawns(n, TRUE, NoTask)
  BY DEF Spawns, Step, Steps
<1>5. Spawns(t, c.telemetry_endpoints, "telemetry")
  BY <1>1 DEF Spawns, Step, Steps, Tasks
<1>6. Spawns(p, TRUE, "txpool")
  BY DEF Spawns, Step, Steps, Tasks
<1>7. Spawns(q, TRUE, "import-queue")
  BY DEF Spawns, Step, Steps, Tasks
<1>8. NewPartial(c) = <<k, w, n, t, p, n, n, q>>
  BY Zenon DEF NewPartial
<1> HIDE DEF k, w, n, t, p, q
<1> QED BY <1>2, <1>3, <1>4, <1>5, <1>6, <1>7, <1>8, EightSteps DEF Spawns

\* The end of new_full: the tasks of a node, and the network opened by a step that
\* cannot fail.
FullTail(c) ==
  << Step(c.offchain_worker, "never", "offchain"),
     Step(TRUE, "maybe", "rpc"),
     Step(c.role = "Authority", "maybe", NoTask),
     Step(c.role = "Authority", "maybe", "aura"),
     Step(~c.disable_grandpa, "maybe", "grandpa-voter"),
     Step(TRUE, "never", StartNetwork) >>

\* Its steps one by one.
LEMMA TailSteps ==
  ASSUME NEW c \in Configs
  PROVE  LET s == FullTail(c)
         IN  /\ s \in Seq(Steps) /\ Len(s) = 6
             /\ Spawns(s[1], c.offchain_worker, "offchain")
             /\ Spawns(s[2], TRUE, "rpc")
             /\ s[3].task = NoTask
             /\ Spawns(s[4], c.role = "Authority", "aura")
             /\ Spawns(s[5], ~c.disable_grandpa, "grandpa-voter")
             /\ Spawns(s[6], TRUE, StartNetwork) /\ s[6].fails = "never"
<1> DEFINE o == Step(c.offchain_worker, "never", "offchain")
           r == Step(TRUE, "maybe", "rpc")
           d == Step(c.role = "Authority", "maybe", NoTask)
           a == Step(c.role = "Authority", "maybe", "aura")
           g == Step(~c.disable_grandpa, "maybe", "grandpa-voter")
           n == Step(TRUE, "never", StartNetwork)
<1>1. c.offchain_worker \in BOOLEAN /\ c.disable_grandpa \in BOOLEAN
  BY DEF Configs
<1>2. Spawns(o, c.offchain_worker, "offchain")
  BY <1>1 DEF Spawns, Step, Steps, Tasks
<1>3. Spawns(r, TRUE, "rpc")
  BY DEF Spawns, Step, Steps, Tasks
<1>4. Spawns(d, c.role = "Authority", NoTask)
  BY DEF Spawns, Step, Steps
<1>5. Spawns(a, c.role = "Authority", "aura")
  BY DEF Spawns, Step, Steps, Tasks
<1>6. Spawns(g, ~c.disable_grandpa, "grandpa-voter")
  BY <1>1 DEF Spawns, Step, Steps, Tasks
<1>7. Spawns(n, TRUE, StartNetwork) /\ n.fails = "never"
  BY DEF Spawns, Step, Steps
<1>8. FullTail(c) = <<o, r, d, a, g, n>>
  BY Zenon DEF FullTail
<1> HIDE DEF o, r, d, a, g, n
<1> QED BY <1>2, <1>3, <1>4, <1>5, <1>6, <1>7, <1>8, SixSteps DEF Spawns

\* new_full, put together from its parts.
LEMMA FullSteps ==
  ASSUME NEW c \in Configs
  PROVE  LET s == NewFull(c)
         IN  /\ s \in Seq(Steps) /\ Len(s) = 16
             /\ \A i \in 1 .. 8 : s[i] = NewPartial(c)[i]
             /\ s[9].task = NoTask
             /\ Spawns(s[10], TRUE, "network")
             /\ \A i \in 1 .. 6 : s[10 + i] = FullTail(c)[i]
<1> DEFINE k == Step(c.keystore_remote, "always", NoTask)
           n == Step(TRUE, "maybe", "network")
           s == NewPartial(c) \o <<k>>
           t == s \o <<n>>
<1>1. c.keystore_remote \in BOOLEAN
  BY DEF Configs
<1>2. Spawns(k, c.keystore_remote, NoTask)
  BY <1>1 DEF Spawns, Step, Steps
<1>3. Spawns(n, TRUE, "network")
  BY DEF Spawns, Step, Steps, Tasks
<1>4. NewFull(c) = t \o FullTail(c)
  BY Zenon DEF NewFull, NetworkSteps, FullTail
<1> HIDE DEF k, n
<1>5. /\ <<k>> \in Seq(Steps) /\ Len(<<k>>) = 1 /\ <<k>>[1] = k
      /\ <<n>> \in Seq(Steps) /\ Len(<<n>>) = 1 /\ <<n>>[1] = n
  BY <1>2, <1>3, OneStep DEF Spawns
<1>6. /\ s \in Seq(Steps) /\ Len(s) = 9
      /\ \A i \in 1 .. 8 : s[i] = NewPartial(c)[i]
      /\ s[9] = k
  <2>1. NewPartial(c) \in Seq(Steps) /\ Len(NewPartial(c)) = 8
    BY PartialSteps
  <2>2. /\ s \in Seq(Steps)
        /\ Len(s) = Len(NewPartial(c)) + Len(<<k>>)
        /\ \A i \in 1 .. Len(NewPartial(c)) : s[i] = NewPartial(c)[i]
        /\ \A i \in 1 .. Len(<<k>>) : s[Len(NewPartial(c)) + i] = <<k>>[i]
    BY <2>1, <1>5, ConcatAt, Zenon
  <2>3. 8 + 1 = 9 /\ 1 \in 1 .. 1
    OBVIOUS
  <2> HIDE DEF s
  <2> QED BY <2>1, <2>2, <2>3, <1>5, Zenon
<1> HIDE DEF s
<1>7. /\ t \in Seq(Steps) /\ Len(t) = 10
      /\ \A i \in 1 .. 9 : t[i] = s[i]
      /\ t[10] = n
  <2>1. /\ t \in Seq(Steps)
        /\ Len(t) = Len(s) + Len(<<n>>)
        /\ \A i \in 1 .. Len(s) : t[i] = s[i]
        /\ \A i \in 1 .. Len(<<n>>) : t[Len(s) + i] = <<n>>[i]
    BY <1>5, <1>6, ConcatAt, Zenon
  <2>2. 9 + 1 = 10 /\ 1 \in 1 .. 1
    OBVIOUS
  <2> HIDE DEF t
  <2> QED BY <2>1, <2>2, <1>5, <1>6
<1> HIDE DEF t
<1>8. /\ NewFull(c) \in Seq(Steps) /\ Len(NewFull(c)) = 16
      /\ \A i \in 1 .. 10 : NewFull(c)[i] = t[i]
      /\ \A i \in 1 .. 6 : NewFull(c)[10 + i] = FullTail(c)[i]
  <2>1. FullTail(c) \in Seq(Steps) /\ Len(FullTail(c)) = 6
    BY TailSteps
  <2> DEFINE f == t \o FullTail(c)
  <2>2. /\ f \in Seq(Steps)
        /\ Len(f) = Len(t) + Len(FullTail(c))
        /\ \A i \in 1 .. Len(t) : f[i] = t[i]
        /\ \A i \in 1 .. Len(FullTail(c)) : f[Len(t) + i] = FullTail(c)[i]
    BY <2>1, <1>7, ConcatAt, Zenon
  <2>3. NewFull(c) = f
    BY <1>4
  <2> HIDE DEF f
  <2> QED BY <2>1, <2>2, <2>3, <1>7
<1> QED BY <1>2, <1>3, <1>6, <1>7, <1>8 DEF Spawns

\* new_light.
LEMMA LightSteps ==
  ASSUME NEW c \in Configs
  PROVE  LET s == NewLight(c)
         IN  /\ s \in Seq(Steps) /\ Len(s) = 12
             /\ s[1].task = NoTask /\ s[2].task = NoTask
             /\ Spawns(s[3], c.telemetry_endpoints, "telemetry")
             /\ Spawns(s[4], TRUE, "txpool")
             /\ s[5].task = NoTask /\ s[6].task = NoTask
             /\ Spawns(s[7], TRUE, "import-queue")
             /\ Spawns(s[8], TRUE, "network")
             /\ Spawns(s[9], c.offchain_worker, "offchain")
             /\ Spawns(s[10], ~c.disable_grandpa, "grandpa-observer")
             /\ Spawns(s[11], TRUE, "rpc")
             /\ Spawns(s[12], TRUE, StartNetwork) /\ s[12].fails = "never"
<1> DEFINE w == Step(c.telemetry_endpoints, "maybe", NoTask)
           n == Step(TRUE, "maybe", NoTask)
           t == Step(c.telemetry_endpoints, "never", "telemetry")
           p == Step(TRUE, "never", "txpool")
           q == Step(TRUE, "maybe", "import-queue")
           m == Step(TRUE, "maybe", "network")
           o == Step(c.offchain_worker, "never", "offchain")
           g == Step(~c.disable_grandpa, "maybe", "grandpa-observer")
           r == Step(TRUE, "maybe", "rpc")
           z == Step(TRUE, "never", StartNetwork)
<1>1. /\ c.telemetry_endpoints \in BOOLEAN
      /\ c.offchain_worker \in BOOLEAN /\ c.disable_grandpa \in BOOLEAN
  BY DEF Configs
<1>2. Spawns(w, c.telemetry_endpoints, NoTask) /\ Spawns(n, TRUE, NoTask)
  BY <1>1 DEF Spawns, Step, Steps
<1>3. Spawns(t, c.telemetry_endpoints, "telemetry") /\ Spawns(p, TRUE, "txpool")
  BY <1>1 DEF Spawns, Step, Steps, Tasks
<1>4. Spawns(q, TRUE, "import-queue") /\ Spawns(m, TRUE, "network")
  BY DEF Spawns, Step, Steps, Tasks
<1>5. /\ Spawns(o, c.offchain_worker, "offchain")
      /\ Spawns(g, ~c.disable_grandpa, "grandpa-observer")
  BY <1>1 DEF Spawns, Step, Steps, Tasks
<1>6. Spawns(r, TRUE, "rpc")
  BY DEF Spawns, Step, Steps, Tasks
<1>7. Spawns(z, TRUE, StartNetwork) /\ z.fails = "never"
  BY DEF Spawns, Step, Steps
<1>8. NewLight(c) = <<w, n, t, p, n, n, q, m, o, g, r, z>>
  BY Zenon DEF NewLight
<1> HIDE DEF w, n, t, p, q, m, o, g, r, z
<1> QED BY <1>2, <1>3, <1>4, <1>5, <1>6, <1>7, <1>8, TwelveSteps DEF Spawns

\* A list that starts with create_runner.
LEMMA AfterRunner ==
  ASSUME NEW t \in Seq(Steps), NEW s, s = CreateRunner \o t
  PROVE  /\ s \in Seq(Steps) /\ Len(s) = 1 + Len(t)
         /\ s[1].task = NoTask
         /\ \A i \in 1 .. Len(t) : s[1 + i] = t[i]
<1>1. /\ s \in Seq(Steps)
      /\ Len(s) = Len(CreateRunner) + Len(t)
      /\ \A i \in 1 .. Len(CreateRunner) : s[i] = CreateRunner[i]
      /\ \A i \in 1 .. Len(t) : s[Len(CreateRunner) + i] = t[i]
  BY RunnerSteps, ConcatAt, Zenon
<1> QED BY <1>1, RunnerSteps DEF Spawns

\* The start of a full node or an authority, from its first step to its last.
LEMMA FullNode ==
  ASSUME NEW c \in Configs, c.command = "run", c.role # "Light"
  PROVE  LET s == Builder(c)
         IN  /\ s \in Seq(Steps) /\ Len(s) = 17
             /\ \A i \in {1, 2, 3, 4, 7, 8, 10, 14} : s[i].task = NoTask
             /\ Spawns(s[5], c.telemetry_endpoints, "telemetry")
             /\ Spawns(s[6], TRUE, "txpool")
             /\ Spawns(s[9], TRUE, "import-queue")
             /\ Spawns(s[11], TRUE, "network")
             /\ Spawns(s[12], c.offchain_worker, "offchain")
             /\ Spawns(s[13], TRUE, "rpc")
             /\ Spawns(s[15], c.role = "Authority", "aura")
             /\ Spawns(s[16], ~c.disable_grandpa, "grandpa-voter")
             /\ Spawns(s[17], TRUE, StartNetwork) /\ s[17].fails = "never"
<1>1. Builder(c) = CreateRunner \o NewFull(c)
  BY DEF Builder, AsyncCommands
<1>2. /\ NewFull(c) \in Seq(Steps) /\ Len(NewFull(c)) = 16
      /\ \A i \in 1 .. 8 : NewFull(c)[i] = NewPartial(c)[i]
      /\ NewFull(c)[9].task = NoTask
      /\ Spawns(NewFull(c)[10], TRUE, "network")
      /\ \A i \in 1 .. 6 : NewFull(c)[10 + i] = FullTail(c)[i]
  BY FullSteps, Zenon
<1>3. /\ Builder(c) \in Seq(Steps) /\ Len(Builder(c)) = 1 + Len(NewFull(c))
      /\ Builder(c)[1].task = NoTask
      /\ \A i \in 1 .. Len(NewFull(c)) : Builder(c)[1 + i] = NewFull(c)[i]
  BY <1>1, <1>2, AfterRunner, Zenon
<1> DEFINE b == Builder(c)
           f == NewFull(c)
           p == NewPartial(c)
           t == FullTail(c)
<1> HIDE DEF b, f, p, t
<1>4. /\ \A i \in 1 .. 16 : b[1 + i] = f[i]
      /\ Len(b) = 17
  BY <1>2, <1>3 DEF b, f
<1>5. /\ \A i \in 1 .. 8 : f[i] = p[i]
      /\ \A i \in 1 .. 6 : f[10 + i] = t[i]
  BY <1>2 DEF f, p, t
<1>6. /\ b[2] = p[1] /\ b[3] = p[2] /\ b[4] = p[3] /\ b[5] = p[4]
      /\ b[6] = p[5] /\ b[7] = p[6] /\ b[8] = p[7] /\ b[9] = p[8]
  BY <1>4, <1>5
<1>7. b[10] = f[9] /\ b[11] = f[10]
  BY <1>4
<1>8. /\ b[12] = t[1] /\ b[13] = t[2] /\ b[14] = t[3] /\ b[15] = t[4]
      /\ b[16] = t[5] /\ b[17] = t[6]
  BY <1>4, <1>5
<1>9. b[10].task = NoTask /\ Spawns(b[11], TRUE, "network")
  BY <1>2, <1>7, Zenon DEF f
<1>10. /\ b[2].task = NoTask /\ b[3].task = NoTask /\ b[4].task = NoTask
       /\ Spawns(b[5], c.telemetry_endpoints, "telemetry")
       /\ Spawns(b[6], TRUE, "txpool")
       /\ b[7].task = NoTask /\ b[8].task = NoTask
       /\ Spawns(b[9], TRUE, "import-queue")
  BY <1>6, PartialSteps, Zenon DEF p
<1>11. /\ Spawns(b[12], c.offchain_worker, "offchain")
       /\ Spawns(b[13], TRUE, "rpc")
       /\ b[14].task = NoTask
       /\ Spawns(b[15], c.role = "Authority", "aura")
       /\ Spawns(b[16], ~c.disable_grandpa, "grandpa-voter")
       /\ Spawns(b[17], TRUE, StartNetwork) /\ b[17].fails = "never"
  BY <1>8, TailSteps, Zenon DEF t
<1> QED BY <1>3, <1>4, <1>9, <1>10, <1>11, Zenon DEF b

\* The start of a light client.
LEMMA LightNode ==
  ASSUME NEW c \in Configs, c.command = "run", c.role = "Light"
  PROVE  LET s == Builder(c)
         IN  /\ s \in Seq(Steps) /\ Len(s) = 13
             /\ \A i \in {1, 2, 3, 6, 7} : s[i].task = NoTask
             /\ Spawns(s[4], c.telemetry_endpoints, "telemetry")
             /\ Spawns(s[5], TRUE, "txpool")
             /\ Spawns(s[8], TRUE, "import-queue")
             /\ Spawns(s[9], TRUE, "network")
             /\ Spawns(s[10], c.offchain_worker, "offchain")
             /\ Spawns(s[11], ~c.disable_grandpa, "grandpa-observer")
             /\ Spawns(s[12], TRUE, "rpc")
             /\ Spawns(s[13], TRUE, StartNetwork) /\ s[13].fails = "never"
<1>1. Builder(c) = CreateRunner \o NewLight(c)
  BY DEF Builder, AsyncCommands
<1>2. NewLight(c) \in Seq(Steps) /\ Len(NewLight(c)) = 12
  BY LightSteps, Zenon
<1>3. /\ Builder(c) \in Seq(Steps) /\ Len(Builder(c)) = 1 + Len(NewLight(c))
      /\ Builder(c)[1].task = NoTask
      /\ \A i \in 1 .. Len(NewLight(c)) : Builder(c)[1 + i] = NewLight(c)[i]
  BY <1>1, <1>2, AfterRunner, Zenon
<1> DEFINE b == Builder(c)
           s == NewLight(c)
<1> HIDE DEF b, s
<1>4. (\A i \in 1 .. 12 : b[1 + i] = s[i]) /\ Len(b) = 13
  BY <1>2, <1>3 DEF b, s
<1>5. /\ b[2] = s[1] /\ b[3] = s[2] /\ b[4] = s[3] /\ b[5] = s[4]
      /\ b[6] = s[5] /\ b[7] = s[6] /\ b[8] = s[7] /\ b[9] = s[8]
      /\ b[10] = s[9] /\ b[11] = s[10] /\ b[12] = s[11] /\ b[13] = s[12]
  BY <1>4
<1>6. /\ b[2].task = NoTask /\ b[3].task = NoTask
      /\ Spawns(b[4], c.telemetry_endpoints, "telemetry")
      /\ Spawns(b[5], TRUE, "txpool")
      /\ b[6].task = NoTask /\ b[7].task = NoTask
      /\ Spawns(b[8], TRUE, "import-queue")
      /\ Spawns(b[9], TRUE, "network")
      /\ Spawns(b[10], c.offchain_worker, "offchain")
      /\ Spawns(b[11], ~c.disable_grandpa, "grandpa-observer")
      /\ Spawns(b[12], TRUE, "rpc")
      /\ Spawns(b[13], TRUE, StartNetwork) /\ b[13].fails = "never"
  BY <1>5, LightSteps, Zenon DEF s
<1> QED BY <1>3, <1>4, <1>6, Zenon DEF b

\* No other command opens the network or starts to author.
LEMMA OtherCommands ==
  ASSUME NEW c \in Configs, c.command # "run"
  PROVE  /\ Builder(c) \in Seq(Steps)
         /\ \A i \in 1 .. Len(Builder(c)) :
               Builder(c)[i].task # StartNetwork /\ Builder(c)[i].task # "aura"
<1> DEFINE b == Builder(c)
           quiet == /\ b \in Seq(Steps)
                    /\ \A i \in 1 .. Len(b) : b[i].task \in (Tasks \cup {NoTask}) \ {"aura"}
<1> HIDE DEF b
<1>1. ASSUME c.command = "key" PROVE quiet
  <2>1. b = << >>
    BY <1>1 DEF b, Builder, AsyncCommands
  <2> QED BY <2>1
<1>2. ASSUME c.command = "benchmark" PROVE quiet
  <2> DEFINE g == Step(~c.benchmarks, "always", NoTask)
  <2>1. b = <<g>> \o CreateRunner
    BY <1>2 DEF b, Builder, AsyncCommands
  <2>2. c.benchmarks \in BOOLEAN
    BY DEF Configs
  <2>3. Spawns(g, ~c.benchmarks, NoTask)
    BY <2>2 DEF Spawns, Step, Steps
  <2> HIDE DEF g
  <2>4. <<g>> \in Seq(Steps) /\ Len(<<g>>) = 1 /\ <<g>>[1] = g
    BY <2>3, OneStep DEF Spawns
  <2>5. /\ b \in Seq(Steps)
        /\ Len(b) = Len(<<g>>) + Len(CreateRunner)
        /\ \A i \in 1 .. Len(<<g>>) : b[i] = <<g>>[i]
        /\ \A i \in 1 .. Len(CreateRunner) : b[Len(<<g>>) + i] = CreateRunner[i]
    BY <2>1, <2>4, RunnerSteps, ConcatAt, Zenon
  <2>6. b[1] = g /\ b[2] = CreateRunner[1] /\ Len(b) = 2
    BY <2>4, <2>5, RunnerSteps
  <2>7. b[1].task = NoTask /\ b[2].task = NoTask
    BY <2>3, <2>6, RunnerSteps DEF Spawns
  <2>8. \A i \in 1 .. Len(b) : i = 1 \/ i = 2
    BY <2>6
  <2> QED BY <2>5, <2>7, <2>8 DEF NoTask
<1>3. ASSUME c.command \in AsyncCommands PROVE quiet
  <2>1. b = CreateRunner \o NewPartial(c)
    BY <1>3 DEF b, Builder, AsyncBuilder, AsyncCommands
  <2> DEFINE p == NewPartial(c)
  <2>2. /\ p \in Seq(Steps) /\ Len(p) = 8
        /\ p[1].task = NoTask /\ p[2].task = NoTask /\ p[3].task = NoTask
        /\ Spawns(p[4], c.telemetry_endpoints, "telemetry")
        /\ Spawns(p[5], TRUE, "txpool")
        /\ p[6].task = NoTask /\ p[7].task = NoTask
        /\ Spawns(p[8], TRUE, "import-queue")
    BY PartialSteps, Zenon
  <2>3. /\ b \in Seq(Steps) /\ Len(b) = 1 + Len(p)
        /\ b[1].task = NoTask
        /\ \A i \in 1 .. Len(p) : b[1 + i] = p[i]
    BY <2>1, <2>2, AfterRunner, Zenon
  <2> HIDE DEF p
  <2>4. \A i \in 1 .. 8 : p[i].task \in {NoTask, "telemetry", "txpool", "import-queue"}
    <3>1. p[4].task = "telemetry" /\ p[5].task = "txpool" /\ p[8].task = "import-queue"
      BY <2>2 DEF Spawns
    <3> QED BY <2>2, <3>1
  <2>5. \A i \in 1 .. Len(b) : i = 1 \/ (i - 1 \in 1 .. 8 /\ b[i] = p[i - 1])
    BY <2>2, <2>3
  <2>6. \A i \in 1 .. Len(b) : b[i].task \in {NoTask, "telemetry", "txpool", "import-queue"}
    BY <2>3, <2>4, <2>5
  <2> QED BY <2>3, <2>6 DEF NoTask, Tasks
<1>4. ASSUME c.command \in {"build-spec", "purge-chain"} PROVE quiet
  <2>1. b = CreateRunner
    BY <1>4 DEF b, Builder, AsyncCommands
  <2>2. \A i \in 1 .. Len(b) : b[i].task = NoTask
    BY <2>1, RunnerSteps DEF Spawns
  <2> QED BY <2>1, <2>2, RunnerSteps DEF NoTask
<1>5. c.command \in {"key", "benchmark", "build-spec", "purge-chain"} \cup AsyncCommands
  BY DEF Configs, SyncCommands
<1>6. quiet
  BY <1>1, <1>2, <1>3, <1>4, <1>5
<1> QED BY <1>6 DEF b, NoTask, StartNetwork, Tasks

-----------------------------------------------------------------------------
(* What the lists say together *)

\* The tasks that the first n - 1 steps of a start have spawned.
Spawned(c, n) ==
  {t \in Tasks : \E i \in 1 .. n - 1 : Builder(c)[i].wanted /\ Builder(c)[i].task = t}

\* A start of any command is a list of steps.
LEMMA BuilderSteps ==
  ASSUME NEW c \in Configs
  PROVE  Builder(c) \in Seq(Steps)
  BY FullNode, LightNode, OtherCommands, Zenon

\* Which step of a full node or an authority spawns what.
LEMMA FullPlaces ==
  ASSUME NEW c \in Configs, c.command = "run", c.role # "Light"
  PROVE  /\ Len(Builder(c)) = 17
         /\ Builder(c)[17].fails = "never"
         /\ \A k \in 1 .. 17 :
               /\ Builder(c)[k].task = "telemetry" <=> k = 5
               /\ Builder(c)[k].task = "txpool" <=> k = 6
               /\ Builder(c)[k].task = "import-queue" <=> k = 9
               /\ Builder(c)[k].task = "network" <=> k = 11
               /\ Builder(c)[k].task = "offchain" <=> k = 12
               /\ Builder(c)[k].task = "rpc" <=> k = 13
               /\ Builder(c)[k].task = "aura" <=> k = 15
               /\ Builder(c)[k].task = "grandpa-voter" <=> k = 16
               /\ Builder(c)[k].task # "grandpa-observer"
               /\ Builder(c)[k].task = StartNetwork <=> k = 17
         /\ Builder(c)[5].wanted <=> c.telemetry_endpoints
         /\ Builder(c)[6].wanted
         /\ Builder(c)[9].wanted
         /\ Builder(c)[11].wanted
         /\ Builder(c)[12].wanted <=> c.offchain_worker
         /\ Builder(c)[13].wanted
         /\ Builder(c)[15].wanted <=> c.role = "Authority"
         /\ Builder(c)[16].wanted <=> ~c.disable_grandpa
<1> DEFINE s == Builder(c)
<1>1. /\ Len(s) = 17
      /\ \A k \in {1, 2, 3, 4, 7, 8, 10, 14} : s[k].task = NoTask
      /\ Spawns(s[5], c.telemetry_endpoints, "telemetry")
      /\ Spawns(s[6], TRUE, "txpool")
      /\ Spawns(s[9], TRUE, "import-queue")
      /\ Spawns(s[11], TRUE, "network")
      /\ Spawns(s[12], c.offchain_worker, "offchain")
      /\ Spawns(s[13], TRUE, "rpc")
      /\ Spawns(s[15], c.role = "Authority", "aura")
      /\ Spawns(s[16], ~c.disable_grandpa, "grandpa-voter")
      /\ Spawns(s[17], TRUE, StartNetwork) /\ s[17].fails = "never"
  BY FullNode, Zenon
<1> HIDE DEF s
<1>2. /\ s[1].task = NoTask /\ s[2].task = NoTask /\ s[3].task = NoTask
      /\ s[4].task = NoTask /\ s[5].task = "telemetry" /\ s[6].task = "txpool"
      /\ s[7].task = NoTask /\ s[8].task = NoTask /\ s[9].task = "import-queue"
      /\ s[10].task = NoTask /\ s[11].task = "network" /\ s[12].task = "offchain"
      /\ s[13].task = "rpc" /\ s[14].task = NoTask /\ s[15].task = "aura"
      /\ s[16].task = "grandpa-voter" /\ s[17].task = StartNetwork
  BY <1>1, Zenon DEF Spawns
<1>3. \A k \in 1 .. 17 :
         /\ s[k].task = "telemetry" <=> k = 5
         /\ s[k].task = "txpool" <=> k = 6
         /\ s[k].task = "import-queue" <=> k = 9
         /\ s[k].task = "network" <=> k = 11
         /\ s[k].task = "offchain" <=> k = 12
         /\ s[k].task = "rpc" <=> k = 13
         /\ s[k].task = "aura" <=> k = 15
         /\ s[k].task = "grandpa-voter" <=> k = 16
         /\ s[k].task # "grandpa-observer"
         /\ s[k].task = StartNetwork <=> k = 17
  <2> TAKE k \in 1 .. 17
  <2>1. \/ k = 1 \/ k = 2 \/ k = 3 \/ k = 4 \/ k = 5 \/ k = 6 \/ k = 7 \/ k = 8
        \/ k = 9 \/ k = 10 \/ k = 11 \/ k = 12 \/ k = 13 \/ k = 14 \/ k = 15 \/ k = 16
        \/ k = 17
    OBVIOUS
  <2> QED BY <1>2, <2>1 DEF NoTask, StartNetwork
<1>4. /\ s[5].wanted <=> c.telemetry_endpoints
      /\ s[6].wanted
      /\ s[9].wanted
      /\ s[11].wanted
      /\ s[12].wanted <=> c.offchain_worker
      /\ s[13].wanted
      /\ s[15].wanted <=> c.role = "Authority"
      /\ s[16].wanted <=> ~c.disable_grandpa
  BY <1>1, Zenon DEF Spawns
<1> QED BY <1>1, <1>3, <1>4, Zenon DEF s

\* Which step of a light client spawns what.
LEMMA LightPlaces ==
  ASSUME NEW c \in Configs, c.command = "run", c.role = "Light"
  PROVE  /\ Len(Builder(c)) = 13
         /\ Builder(c)[13].fails = "never"
         /\ \A k \in 1 .. 13 :
               /\ Builder(c)[k].task = "telemetry" <=> k = 4
               /\ Builder(c)[k].task = "txpool" <=> k = 5
               /\ Builder(c)[k].task = "import-queue" <=> k = 8
               /\ Builder(c)[k].task = "network" <=> k = 9
               /\ Builder(c)[k].task = "offchain" <=> k = 10
               /\ Builder(c)[k].task = "grandpa-observer" <=> k = 11
               /\ Builder(c)[k].task = "rpc" <=> k = 12
               /\ Builder(c)[k].task # "aura"
               /\ Builder(c)[k].task # "grandpa-voter"
               /\ Builder(c)[k].task = StartNetwork <=> k = 13
         /\ Builder(c)[4].wanted <=> c.telemetry_endpoints
         /\ Builder(c)[5].wanted
         /\ Builder(c)[8].wanted
         /\ Builder(c)[9].wanted
         /\ Builder(c)[10].wanted <=> c.offchain_worker
         /\ Builder(c)[11].wanted <=> ~c.disable_grandpa
         /\ Builder(c)[12].wanted
<1> DEFINE s == Builder(c)
<1>1. /\ Len(s) = 13
      /\ \A k \in {1, 2, 3, 6, 7} : s[k].task = NoTask
      /\ Spawns(s[4], c.telemetry_endpoints, "telemetry")
      /\ Spawns(s[5], TRUE, "txpool")
      /\ Spawns(s[8], TRUE, "import-queue")
      /\ Spawns(s[9], TRUE, "network")
      /\ Spawns(s[10], c.offchain_worker, "offchain")
      /\ Spawns(s[11], ~c.disable_grandpa, "grandpa-observer")
      /\ Spawns(s[12], TRUE, "rpc")
      /\ Spawns(s[13], TRUE, StartNetwork) /\ s[13].fails = "never"
  BY LightNode, Zenon
<1> HIDE DEF s
<1>2. /\ s[1].task = NoTask /\ s[2].task = NoTask /\ s[3].task = NoTask
      /\ s[4].task = "telemetry" /\ s[5].task = "txpool" /\ s[6].task = NoTask
      /\ s[7].task = NoTask /\ s[8].task = "import-queue" /\ s[9].task = "network"
      /\ s[10].task = "offchain" /\ s[11].task = "grandpa-observer" /\ s[12].task = "rpc"
      /\ s[13].task = StartNetwork
  BY <1>1, Zenon DEF Spawns
<1>3. \A k \in 1 .. 13 :
         /\ s[k].task = "telemetry" <=> k = 4
         /\ s[k].task = "txpool" <=> k = 5
         /\ s[k].task = "import-queue" <=> k = 8
         /\ s[k].task = "network" <=> k = 9
         /\ s[k].task = "offchain" <=> k = 10
         /\ s[k].task = "grandpa-observer" <=> k = 11
         /\ s[k].task = "rpc" <=> k = 12
         /\ s[k].task # "aura"
         /\ s[k].task # "grandpa-voter"
         /\ s[k].task = StartNetwork <=> k = 13
  <2> TAKE k \in 1 .. 13
  <2>1. \/ k = 1 \/ k = 2 \/ k = 3 \/ k = 4 \/ k = 5 \/ k = 6 \/ k = 7 \/ k = 8
        \/ k = 9 \/ k = 10 \/ k = 11 \/ k = 12 \/ k = 13
    OBVIOUS
  <2> QED BY <1>2, <2>1 DEF NoTask, StartNetwork
<1>4. /\ s[4].wanted <=> c.telemetry_endpoints
      /\ s[5].wanted
      /\ s[8].wanted
      /\ s[9].wanted
      /\ s[10].wanted <=> c.offchain_worker
      /\ s[11].wanted <=> ~c.disable_grandpa
      /\ s[12].wanted
  BY <1>1, Zenon DEF Spawns
<1> QED BY <1>1, <1>3, <1>4, Zenon DEF s

\* A node that has taken all of its steps has spawned the tasks it consists of.
LEMMA FullComplete ==
  ASSUME NEW c \in Configs, c.command = "run", c.role # "Light"
  PROVE  Spawned(c, 18) = Expected(c)
<1> DEFINE got(t) == \E k \in 1 .. 17 : Builder(c)[k].wanted /\ Builder(c)[k].task = t
<1>1. \A t : t \in Spawned(c, 18) <=> t \in Tasks /\ got(t)
  BY DEF Spawned
<1>2. /\ got("telemetry") <=> c.telemetry_endpoints
      /\ got("offchain") <=> c.offchain_worker
  BY FullPlaces
<1>3. got("txpool") /\ got("import-queue") /\ got("network") /\ got("rpc")
  BY FullPlaces
<1>4. /\ got("aura") <=> c.role = "Authority"
      /\ got("grandpa-voter") <=> ~c.disable_grandpa
      /\ ~got("grandpa-observer")
  BY FullPlaces
<1> HIDE DEF got
<1>5. \A t \in Tasks : got(t) <=> t \in Expected(c)
  BY <1>2, <1>3, <1>4 DEF Expected, Tasks
<1>6. Expected(c) \subseteq Tasks
  BY DEF Expected, Tasks
<1> QED BY <1>1, <1>5, <1>6, Zenon

\* The same of a light client.
LEMMA LightComplete ==
  ASSUME NEW c \in Configs, c.command = "run", c.role = "Light"
  PROVE  Spawned(c, 14) = Expected(c)
<1> DEFINE got(t) == \E k \in 1 .. 13 : Builder(c)[k].wanted /\ Builder(c)[k].task = t
<1>1. \A t : t \in Spawned(c, 14) <=> t \in Tasks /\ got(t)
  BY DEF Spawned
<1>2. /\ got("telemetry") <=> c.telemetry_endpoints
      /\ got("offchain") <=> c.offchain_worker
  BY LightPlaces
<1>3. got("txpool") /\ got("import-queue") /\ got("network") /\ got("rpc")
  BY LightPlaces
<1>4. /\ ~got("aura") /\ ~got("grandpa-voter")
      /\ got("grandpa-observer") <=> ~c.disable_grandpa
  BY LightPlaces
<1> HIDE DEF got
<1>5. \A t \in Tasks : got(t) <=> t \in Expected(c)
  BY <1>2, <1>3, <1>4 DEF Expected, Tasks
<1>6. Expected(c) \subseteq Tasks
  BY DEF Expected, Tasks
<1> QED BY <1>1, <1>5, <1>6, Zenon

\* The network is opened by run alone, in its last step, which cannot fail and
\* comes after all tasks of the node.
LEMMA OpeningIsLast ==
  ASSUME NEW c \in Configs, NEW i \in 1 .. Len(Builder(c)),
         Builder(c)[i].task = StartNetwork
  PROVE  /\ c.command = "run"
         /\ i = Len(Builder(c))
         /\ Builder(c)[i].fails = "never"
         /\ Spawned(c, Len(Builder(c)) + 1) = Expected(c)
<1>1. c.command = "run"
  BY OtherCommands, Zenon
<1>2. CASE c.role = "Light"
  <2>1. /\ Len(Builder(c)) = 13 /\ Builder(c)[13].fails = "never"
        /\ \A k \in 1 .. 13 : Builder(c)[k].task = StartNetwork <=> k = 13
    BY <1>1, <1>2, LightPlaces, Zenon
  <2>2. Spawned(c, 14) = Expected(c)
    BY <1>1, <1>2, LightComplete
  <2> QED BY <1>1, <2>1, <2>2
<1>3. CASE c.role # "Light"
  <2>1. /\ Len(Builder(c)) = 17 /\ Builder(c)[17].fails = "never"
        /\ \A k \in 1 .. 17 : Builder(c)[k].task = StartNetwork <=> k = 17
    BY <1>1, <1>3, FullPlaces, Zenon
  <2>2. Spawned(c, 18) = Expected(c)
    BY <1>1, <1>3, FullComplete
  <2> QED BY <1>1, <2>1, <2>2
<1> QED BY <1>2, <1>3

\* Authoring is started by the run of an authority alone, after the tasks it needs.
LEMMA AuthoringIsLate ==
  ASSUME NEW c \in Configs, NEW i \in 1 .. Len(Builder(c)),
         Builder(c)[i].wanted, Builder(c)[i].task = "aura"
  PROVE  /\ c.command = "run"
         /\ c.role = "Authority"
         /\ {"txpool", "import-queue", "network", "rpc"} \subseteq Spawned(c, i)
<1>1. c.command = "run"
  BY OtherCommands, Zenon
<1>2. c.role # "Light"
  BY <1>1, LightPlaces
<1>3. i = 15 /\ c.role = "Authority"
  BY <1>1, <1>2, FullPlaces
<1>4. {"txpool", "import-queue", "network", "rpc"} \subseteq Spawned(c, 15)
  BY <1>1, <1>2, FullPlaces DEF Spawned, Tasks
<1> QED BY <1>1, <1>3, <1>4

\* What one step adds to what was spawned, and that nothing is ever taken back.
LEMMA SpawnedByStep ==
  ASSUME NEW c \in Configs, NEW n \in 1 .. Len(Builder(c))
  PROVE  LET s == Builder(c)[n]
         IN  Spawned(c, n + 1) = IF s.wanted /\ s.task \notin {NoTask, StartNetwork}
                                 THEN Spawned(c, n) \cup {s.task} ELSE Spawned(c, n)
<1>1. Len(Builder(c)) \in Nat /\ Builder(c)[n] \in Steps
  BY BuilderSteps
<1>2. Builder(c)[n].task \in Tasks \cup {NoTask, StartNetwork}
  BY <1>1 DEF Steps
<1>3. \A i : i \in 1 .. (n + 1) - 1 <=> i \in 1 .. n - 1 \/ i = n
  BY <1>1
<1>4. NoTask \notin Tasks /\ StartNetwork \notin Tasks
  BY DEF NoTask, StartNetwork, Tasks
<1> QED BY <1>2, <1>3, <1>4, Zenon DEF Spawned

-----------------------------------------------------------------------------
(* The invariant *)

\* Until the process ends, a task that was spawned runs or has ended; a process
\* that ended has no task; and an open network is a start that was completed.
SInv ==
  /\ config \in Configs
  /\ phase \in {"building", "running", "failed", "stopped"}
  /\ pc \in 1 .. Len(Builder(config)) + 1
  /\ network \in BOOLEAN
  /\ IF phase \in {"building", "running"}
     THEN tasks \cup ended = Spawned(config, pc)
     ELSE tasks = {}
  /\ network => /\ pc = Len(Builder(config)) + 1
                /\ pc # 1
                /\ Builder(config)[pc - 1].task = StartNetwork
                /\ phase # "failed"

\* The invariant holds before the first step.
LEMMA SInitInv == SInit => SInv
<1> SUFFICES ASSUME SInit PROVE SInv
  OBVIOUS
<1>1. config \in Configs /\ phase = "building" /\ pc = 1 /\ tasks = {} /\ ended = {}
      /\ network = FALSE
  BY DEF SInit
<1>2. Len(Builder(config)) \in Nat
  BY <1>1, BuilderSteps
<1>3. Spawned(config, 1) = {}
  BY DEF Spawned
<1>4. pc \in 1 .. Len(Builder(config)) + 1
  BY <1>1, <1>2
<1>5. network \in BOOLEAN /\ ~network
  BY <1>1
<1>6. tasks \cup ended = Spawned(config, pc)
  BY <1>1, <1>3
<1> QED BY <1>1, <1>4, <1>5, <1>6 DEF SInv

\* Building: the step's task is added to what was spawned, and the step that opens
\* the network is the last one.
LEMMA BuildInv == ASSUME SInv, Build PROVE SInv'
<1> DEFINE n == Len(Builder(config))
           s == Builder(config)[pc]
<1>1. n \in Nat
  BY BuilderSteps DEF SInv
<1>2. /\ pc \in 1 .. n /\ pc' = pc + 1 /\ config' = config /\ phase' = phase
      /\ phase = "building" /\ ended' = ended
      /\ tasks' = IF s.wanted /\ s.task \notin {NoTask, StartNetwork}
                  THEN tasks \cup {s.task} ELSE tasks
      /\ network' = (network \/ s.task = StartNetwork)
  BY <1>1 DEF Build, SInv
<1>3. ~network
  BY <1>1, <1>2 DEF SInv
<1>4. Builder(config') = Builder(config)
  BY <1>2
<1>5. Spawned(config, pc + 1) = IF s.wanted /\ s.task \notin {NoTask, StartNetwork}
                                THEN Spawned(config, pc) \cup {s.task} ELSE Spawned(config, pc)
  BY <1>2, SpawnedByStep DEF SInv
<1>6. tasks \cup ended = Spawned(config, pc)
  BY <1>2 DEF SInv
<1>7. (tasks \cup ended)' = Spawned(config, pc + 1)
  BY <1>2, <1>5, <1>6, Zenon
<1>8. Spawned(config, pc)' = Spawned(config, pc + 1)
  BY <1>2
<1>9. network' => pc = n
  BY <1>2, <1>3, OpeningIsLast DEF SInv
<1>10. config' \in Configs /\ pc' \in 1 .. n + 1
  BY <1>1, <1>2 DEF SInv
<1>11. network' \in BOOLEAN
  BY <1>2
<1>12. network' => /\ pc' = n + 1 /\ pc' # 1
                   /\ Builder(config)[pc' - 1].task = StartNetwork
  <2>1. network' => s.task = StartNetwork
    BY <1>2, <1>3
  <2>2. pc' - 1 = pc /\ pc' # 1
    BY <1>2
  <2> QED BY <1>2, <1>9, <2>1, <2>2
<1> QED BY <1>2, <1>4, <1>7, <1>8, <1>10, <1>11, <1>12 DEF SInv

\* The other steps.
LEMMA SNextInv == ASSUME SInv, [SNext]_serviceVars PROVE SInv'
<1>1. CASE Build
  BY <1>1, BuildInv
<1>2. CASE BuildFails
  BY <1>2, BuilderSteps DEF BuildFails, SInv
<1>3. CASE Built
  BY <1>3 DEF Built, SInv
<1>4. ASSUME NEW t \in tasks, TaskEnds(t) PROVE SInv'
  <2>1. /\ config' = config /\ phase' = phase /\ pc' = pc /\ network' = network
        /\ tasks' = tasks \ {t} /\ ended' = ended \cup {t}
    BY <1>4 DEF TaskEnds
  <2>2. phase \in {"building", "running"}
    BY DEF SInv
  <2>3. (tasks \cup ended)' = tasks \cup ended
    BY <2>1
  <2> QED BY <2>1, <2>2, <2>3 DEF SInv
<1>5. CASE TakenDown
  BY <1>5 DEF TakenDown, SInv
<1>6. CASE CommandEnds
  <2>1. /\ config' = config /\ pc' = pc /\ network' = network /\ tasks' = {}
        /\ phase' \in {"stopped", "failed"} /\ config.command # "run"
    BY <1>6 DEF CommandEnds
  <2>2. ~network
    <3>1. SUFFICES ASSUME network PROVE FALSE
      OBVIOUS
    <3>2. /\ pc - 1 = Len(Builder(config)) /\ pc - 1 \in 1 .. Len(Builder(config))
          /\ Builder(config)[pc - 1].task = StartNetwork
      BY <3>1, BuilderSteps DEF SInv
    <3> QED BY <2>1, <3>2, OpeningIsLast DEF SInv
  <2> QED BY <2>1, <2>2 DEF SInv
<1>7. CASE Interrupted
  BY <1>7 DEF Interrupted, SInv
<1>8. CASE UNCHANGED serviceVars
  BY <1>8 DEF serviceVars, SInv
<1> QED BY <1>1, <1>2, <1>3, <1>4, <1>5, <1>6, <1>7, <1>8 DEF SNext

-----------------------------------------------------------------------------
(* Theorems *)

\* The invariant of the process, of every command and every configuration.
THEOREM ServiceInvariant == SSpec => []SInv
<1>1. SInit => SInv
  BY SInitInv
<1>2. SInv /\ [SNext]_serviceVars => SInv'
  BY SNextInv
<1> QED BY <1>1, <1>2, PTL DEF SSpec

\* network_starter.start_network() at the end of new_full and new_light: whatever
\* the configuration, and whichever tasks end meanwhile, nobody hears of a node
\* before it is complete.
THEOREM NetworkIsLast == SSpec => []NetworkOpensLast
<1>1. SInv => NetworkOpensLast
  <2> SUFFICES ASSUME SInv, network PROVE NetworkOpensLast
    BY DEF NetworkOpensLast
  <2>1. /\ pc - 1 = Len(Builder(config)) /\ pc - 1 \in 1 .. Len(Builder(config))
        /\ Builder(config)[pc - 1].task = StartNetwork
        /\ phase # "failed"
        /\ pc = Len(Builder(config)) + 1
    BY BuilderSteps DEF SInv
  <2>2. config.command = "run" /\ Spawned(config, pc) = Expected(config)
    BY <2>1, OpeningIsLast DEF SInv
  <2>3. phase # "stopped" => tasks \cup ended = Expected(config)
    BY <2>1, <2>2 DEF SInv
  <2> QED BY <2>1, <2>2, <2>3 DEF NetworkOpensLast
<1> QED BY <1>1, ServiceInvariant, PTL

\* start_aura in new_full alone, and after the tasks it works with: no command on
\* the database of an authority, and no half-built node, makes blocks.
THEOREM AuthoringIsBuiltOn == SSpec => []AuthoringNeedsNode
<1>1. SInv => AuthoringNeedsNode
  <2> SUFFICES ASSUME SInv, "aura" \in tasks PROVE AuthoringNeedsNode
    BY DEF AuthoringNeedsNode
  <2>1. PICK i \in 1 .. pc - 1 : Builder(config)[i].wanted /\ Builder(config)[i].task = "aura"
    BY DEF SInv, Spawned
  <2>2. i \in 1 .. Len(Builder(config)) /\ i < pc /\ pc \in Nat
    BY <2>1, BuilderSteps DEF SInv
  <2>3. /\ config.command = "run"
        /\ config.role = "Authority"
        /\ {"txpool", "import-queue", "network", "rpc"} \subseteq Spawned(config, i)
    BY <2>1, <2>2, AuthoringIsLate DEF SInv
  <2>4. Spawned(config, i) \subseteq Spawned(config, pc)
    BY <2>2 DEF Spawned
  <2>5. tasks \cup ended = Spawned(config, pc)
    BY DEF SInv
  <2> QED BY <2>3, <2>4, <2>5 DEF AuthoringNeedsNode
<1> QED BY <1>1, ServiceInvariant, PTL

=============================================================================
