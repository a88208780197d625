------------------------------ MODULE ChatProofs ------------------------------
(***************************************************************************)
(* Proofs about Chat, for every number of places, messages and events, for *)
(* every config and every interface: what a reload makes of the Runtime,   *)
(* that the config in force is a whole one, that an answer stays as it is, *)
(* that answers come in order, that conversations stay apart, and that a   *)
(* turn's number is new.                                                   *)
(***************************************************************************)
EXTENDS Chat, WellFoundedInduction, TLAPS

-----------------------------------------------------------------------------
(* The least number principle, and with it Min and Max.                     *)
LEMMA LeastExists ==
  ASSUME NEW S, S \subseteq Nat, S # {}
  PROVE  \E x \in S : \A y \in S : x <= y
<1> DEFINE R == OpToRel(<, Nat)
<1>1. IsWellFoundedOn(R, Nat)
  BY NatLessThanWellFounded
<1>2. \A x, y \in Nat : y < x => <<y, x>> \in R
  BY DEF OpToRel
<1> HIDE DEF R
<1>3. PICK x \in S : \A y \in S : ~(<<y, x>> \in R)
  BY <1>1, WFMin
<1>4. \A y \in S : ~(y < x)
  BY <1>2, <1>3
<1> QED BY <1>4

LEMMA MinFacts ==
  ASSUME NEW S, S \subseteq Nat, S # {}
  PROVE  Min(S) \in S /\ \A y \in S : Min(S) <= y
BY LeastExists DEF Min

LEMMA MaxFacts ==
  ASSUME NEW S, NEW n \in Nat, S \subseteq 0..n, S # {}
  PROVE  Max(S) \in S /\ \A y \in S : Max(S) >= y
<1> DEFINE T == {n - x : x \in S}
<1>1. T \subseteq Nat /\ T # {}
  <2>1. \A x \in S : n - x \in Nat
    OBVIOUS
  <2> QED BY <2>1
<1>2. PICK t \in T : \A y \in T : t <= y
  BY <1>1, LeastExists
<1>3. PICK x \in S : t = n - x
  OBVIOUS
<1>4. \A y \in S : x >= y
  BY <1>2, <1>3
<1> QED BY <1>4 DEF Max

(***************************************************************************)
(* The Runtime.  RuntimeParts holds of the Runtime at every point of a     *)
(* reload, RuntimeInForce once a config is in force.                       *)
(***************************************************************************)
DeliveryBlocks == {"reminders", "schedules"}

(* The tools that come with a catalog, a block or a resolver.               *)
Injected == DeliveryBlocks \cup {"load_skill", "complete_step"}

(* No config declares one of them as its own (PlanHasItsTool is what        *)
(* happens to a config that does).                                          *)
NoneIsDeclared == \A k \in DOMAIN Trees : ConfigOf[k].loads => ConfigOf[k].tools \cap Injected = {}

RuntimeFields ==
  {"source", "config", "registry", "declared", "catalog", "signature", "provider", "model", "seat", "seats", "stamp"}

ConfigFields ==
  {"loads", "model", "reminders", "schedules", "tools", "failing", "skills", "dirs", "builtins", "pipeline", "plan"}

ConfigOk(c) ==
  /\ DOMAIN c = ConfigFields
  /\ c.plan \in BOOLEAN /\ (c.plan <=> HasPlanResolver(c.pipeline))
  /\ c.tools \cap Injected = {}

RuntimeParts(rt) ==
  /\ DOMAIN rt = RuntimeFields
  /\ rt.seat \in [DeliveryBlocks -> Nat] /\ rt.seats \in [DeliveryBlocks -> Nat] /\ rt.stamp \in [DeliveryBlocks -> Nat]
  /\ DOMAIN rt.catalog # {} <=> "load_skill" \in rt.registry
  /\ \A b \in DeliveryBlocks : rt.seat[b] # 0 <=> b \in rt.registry
  /\ rt.declared \cap Injected = {} /\ rt.declared \subseteq rt.registry

RuntimeInForce(rt) ==
  /\ RuntimeParts(rt)
  /\ ConfigOk(rt.source) /\ ConfigOk(rt.config)
  /\ rt.model = rt.config.model /\ rt.declared = rt.config.tools
  /\ rt.provider = rt.config.plan /\ (rt.provider => "complete_step" \in rt.registry)

(* What an operation on the skills or the blocks leaves as it is.           *)
SameConfig(rt, s) ==
  /\ s.source = rt.source /\ s.config = rt.config /\ s.declared = rt.declared
  /\ s.provider = rt.provider /\ s.model = rt.model
  /\ "complete_step" \in s.registry <=> "complete_step" \in rt.registry
SameSeats(rt, s) == s.seat = rt.seat /\ s.stamp = rt.stamp

(* The catalog and load_skill change together.                              *)
LEMMA RebuildParts ==
  ASSUME NEW rt, RuntimeParts(rt), NEW c, NEW d
  PROVE  LET s == RebuildSkills(rt, c, d)
         IN  RuntimeParts(s) /\ SameConfig(rt, s) /\ SameSeats(rt, s)
<1> DEFINE cat == Catalog(c, d)
           reg == Matched(rt.registry, "load_skill", DOMAIN cat # {})
           s == [rt EXCEPT !.catalog = cat, !.registry = reg]
<1>1. RebuildSkills(rt, c, d) = s
  BY DEF RebuildSkills, RuntimeParts, RuntimeFields
<1>2. /\ DOMAIN s = RuntimeFields /\ s.catalog = cat /\ s.registry = reg
      /\ \A f \in RuntimeFields \ {"catalog", "registry"} : s[f] = rt[f]
  BY DEF RuntimeParts, RuntimeFields
<1>3. /\ "load_skill" \in reg <=> DOMAIN cat # {}
      /\ \A t : t # "load_skill" => (t \in reg <=> t \in rt.registry)
  BY DEF Matched
<1> HIDE DEF cat, reg, s
<1>4. SameConfig(rt, s) /\ SameSeats(rt, s)
  BY <1>2, <1>3 DEF SameConfig, SameSeats, RuntimeFields
<1>5. RuntimeParts(s)
  BY <1>2, <1>3 DEF RuntimeParts, RuntimeFields, DeliveryBlocks, Injected
<1> QED BY <1>1, <1>4, <1>5

LEMMA RescanParts ==
  ASSUME NEW rt, RuntimeParts(rt), NEW c, NEW d
  PROVE  LET s == RescanSkills(rt, c, d)
         IN  RuntimeParts(s) /\ SameConfig(rt, s) /\ SameSeats(rt, s)
<1>1. ASSUME NEW r, NEW g, RuntimeParts(r)
      PROVE  LET s == [r EXCEPT !.signature = g]
             IN  RuntimeParts(s) /\ SameConfig(r, s) /\ SameSeats(r, s)
  BY <1>1 DEF RuntimeParts, RuntimeFields, SameConfig, SameSeats
<1>2. SameConfig(rt, rt) /\ SameSeats(rt, rt)
  BY DEF SameConfig, SameSeats
<1> DEFINE s == RescanSkills(rt, c, d)
<1>3. \/ \E g : s = [rt EXCEPT !.signature = g]
      \/ s = rt
      \/ \E g : s = [RebuildSkills(rt, c, d) EXCEPT !.signature = g]
  BY DEF RescanSkills
<1> HIDE DEF s
<1>4. CASE \E g : s = [rt EXCEPT !.signature = g]
  BY <1>1, <1>4 DEF s
<1>5. CASE s = rt
  BY <1>2, <1>5 DEF s
<1>6. CASE \E g : s = [RebuildSkills(rt, c, d) EXCEPT !.signature = g]
  <2> PICK g : s = [RebuildSkills(rt, c, d) EXCEPT !.signature = g]
    BY <1>6
  <2> DEFINE r == RebuildSkills(rt, c, d)
  <2>1. RuntimeParts(r) /\ SameConfig(rt, r) /\ SameSeats(rt, r)
    BY RebuildParts
  <2> HIDE DEF r
  <2>2. RuntimeParts(s) /\ SameConfig(r, s) /\ SameSeats(r, s)
    BY <2>1, <1>1 DEF r
  <2> QED BY <2>1, <2>2 DEF SameConfig, SameSeats, s
<1> QED BY <1>3, <1>4, <1>5, <1>6 DEF s

(* A seat moves only with its stamp, and stamps only grow: a loop that saw   *)
(* the last stamp serves the last handle.                                    *)
SeatsMove(rt, s) ==
  \A b \in DeliveryBlocks : rt.stamp[b] <= s.stamp[b] /\ (s.stamp[b] = rt.stamp[b] => s.seat[b] = rt.seat[b])

(* A block's tool comes and goes with its handle.                           *)
LEMMA SeatedParts ==
  ASSUME NEW rt, RuntimeParts(rt), NEW block \in DeliveryBlocks, NEW switch
  PROVE  LET s == Seated(rt, block, switch)
         IN  /\ RuntimeParts(s) /\ SameConfig(rt, s) /\ s.stamp = rt.stamp
             /\ \A b \in DeliveryBlocks \ {block} : s.seat[b] = rt.seat[b]
<1> DEFINE reg == Matched(rt.registry, block, switch # "off")
           n == IF switch # "off" THEN rt.seats[block] + 1 ELSE 0
           m == IF switch # "off" THEN rt.seats[block] + 1 ELSE rt.seats[block]
           seat == [rt.seat EXCEPT ![block] = n]
           seats == [rt.seats EXCEPT ![block] = m]
           s == Seated(rt, block, switch)
<1>1. /\ DOMAIN s = RuntimeFields /\ s.registry = reg /\ s.seat = seat /\ s.seats = seats
      /\ \A f \in RuntimeFields \ {"registry", "seat", "seats"} : s[f] = rt[f]
  BY DEF Seated, RuntimeParts, RuntimeFields
<1>2. /\ block \in reg <=> switch # "off"
      /\ \A t : t # block => (t \in reg <=> t \in rt.registry)
  BY DEF Matched
<1>3. n \in Nat /\ m \in Nat /\ (n # 0 <=> switch # "off")
  BY DEF RuntimeParts
<1> HIDE DEF reg, n, m
<1>4. /\ seat \in [DeliveryBlocks -> Nat] /\ seats \in [DeliveryBlocks -> Nat] /\ seat[block] = n
      /\ \A b \in DeliveryBlocks \ {block} : seat[b] = rt.seat[b]
  BY <1>3 DEF RuntimeParts
<1> HIDE DEF seat, seats, s
<1>5. SameConfig(rt, s) /\ s.stamp = rt.stamp
  BY <1>1, <1>2 DEF SameConfig, RuntimeFields, DeliveryBlocks
<1>6. /\ DOMAIN s.catalog # {} <=> "load_skill" \in s.registry
      /\ s.declared \cap Injected = {} /\ s.declared \subseteq s.registry
  BY <1>1, <1>2 DEF RuntimeParts, RuntimeFields, DeliveryBlocks, Injected
<1>7. \A b \in DeliveryBlocks : s.seat[b] # 0 <=> b \in s.registry
  BY <1>1, <1>2, <1>3, <1>4 DEF RuntimeParts
<1>8. s.stamp \in [DeliveryBlocks -> Nat]
  BY <1>1 DEF RuntimeParts, RuntimeFields
<1>9. RuntimeParts(s)
  BY <1>1, <1>4, <1>6, <1>7, <1>8 DEF RuntimeParts
<1> QED BY <1>1, <1>4, <1>5, <1>9 DEF s

LEMMA ReseatedParts ==
  ASSUME NEW rt, RuntimeParts(rt), NEW c, NEW block \in DeliveryBlocks
  PROVE  LET s == Reseated(rt, c, block)
         IN  RuntimeParts(s) /\ SameConfig(rt, s) /\ SeatsMove(rt, s)
<1> DEFINE s == Reseated(rt, c, block)
           r == Seated(rt, block, c[block])
           t == [r EXCEPT !.stamp[block] = r.stamp[block] + 1]
<1>1. CASE c[block] = rt.config[block]
  <2>1. s = rt
    BY <1>1 DEF Reseated
  <2>2. SeatsMove(rt, rt)
    BY DEF SeatsMove, RuntimeParts
  <2> QED BY <2>1, <2>2 DEF SameConfig
<1>2. CASE c[block] # rt.config[block]
  <2>1. s = t
    BY <1>2 DEF Reseated
  <2>2. /\ RuntimeParts(r) /\ SameConfig(rt, r) /\ r.stamp = rt.stamp
        /\ \A b \in DeliveryBlocks \ {block} : r.seat[b] = rt.seat[b]
    BY SeatedParts
  <2> HIDE DEF r, s
  <2>3. /\ DOMAIN t = RuntimeFields /\ t.stamp = [r.stamp EXCEPT ![block] = r.stamp[block] + 1]
        /\ \A f \in RuntimeFields \ {"stamp"} : t[f] = r[f]
    BY <2>2 DEF RuntimeParts, RuntimeFields
  <2>4. /\ t.stamp \in [DeliveryBlocks -> Nat] /\ t.stamp[block] = rt.stamp[block] + 1
        /\ \A b \in DeliveryBlocks \ {block} : t.stamp[b] = rt.stamp[b]
    BY <2>2, <2>3 DEF RuntimeParts
  <2> HIDE DEF t
  <2>5. RuntimeParts(t) /\ SameConfig(r, t)
    BY <2>2, <2>3, <2>4 DEF RuntimeParts, RuntimeFields, SameConfig
  <2>6. SeatsMove(rt, t)
    <3> SUFFICES ASSUME NEW b \in DeliveryBlocks
                 PROVE  rt.stamp[b] <= t.stamp[b] /\ (t.stamp[b] = rt.stamp[b] => t.seat[b] = rt.seat[b])
      BY DEF SeatsMove
    <3>1. rt.stamp[b] \in Nat
      BY DEF RuntimeParts
    <3>2. t.seat = r.seat
      BY <2>3 DEF RuntimeFields
    <3> QED BY <2>2, <2>4, <3>1, <3>2
  <2> QED BY <2>1, <2>2, <2>5, <2>6 DEF SameConfig, s
<1> QED BY <1>1, <1>2

(* Dropping what an earlier config declared touches nothing injected.       *)
LEMMA RegisterParts ==
  ASSUME NEW rt, RuntimeParts(rt), NEW c, c.tools \cap Injected = {}
  PROVE  LET s == RegisterConfigTools(rt, c)
         IN  /\ RuntimeParts(s) /\ SameSeats(rt, s) /\ s.declared = c.tools
             /\ s.source = rt.source /\ s.config = rt.config /\ s.model = rt.model /\ s.provider = rt.provider
             /\ "complete_step" \in s.registry <=> "complete_step" \in rt.registry
<1> DEFINE reg == (rt.registry \cup c.tools) \ (rt.declared \ c.tools)
           s == RegisterConfigTools(rt, c)
<1>1. /\ DOMAIN s = RuntimeFields /\ s.registry = reg /\ s.declared = c.tools
      /\ \A f \in RuntimeFields \ {"registry", "declared"} : s[f] = rt[f]
  BY DEF RegisterConfigTools, RuntimeParts, RuntimeFields
<1>2. \A t \in Injected : t \in reg <=> t \in rt.registry
  BY DEF RuntimeParts
<1>3. c.tools \subseteq reg
  OBVIOUS
<1> HIDE DEF reg, s
<1>4. RuntimeParts(s)
  BY <1>1, <1>2, <1>3 DEF RuntimeParts, RuntimeFields, Injected
<1> QED BY <1>1, <1>2, <1>4 DEF SameSeats, RuntimeFields, Injected, s

(* With the pipeline comes the resolver, and with a resolver its tool.      *)
Piped(rt, c) == InjectCompleteStep(WirePlanResolver(rt, c), c)

LEMMA PipedParts ==
  ASSUME NEW rt, RuntimeParts(rt), NEW c, c.plan \in BOOLEAN
  PROVE  LET s == Piped(rt, c)
         IN  /\ RuntimeParts(s) /\ SameSeats(rt, s) /\ s.provider = c.plan
             /\ s.source = rt.source /\ s.config = rt.config /\ s.model = rt.model /\ s.declared = rt.declared
             /\ c.plan => "complete_step" \in s.registry
<1> DEFINE r == [rt EXCEPT !.provider = c.plan]
           reg == IF c.plan THEN rt.registry \cup {"complete_step"} ELSE rt.registry
           s == Piped(rt, c)
<1>1. RuntimeParts(r) /\ r.provider = c.plan /\ \A f \in RuntimeFields \ {"provider"} : r[f] = rt[f]
  BY DEF RuntimeParts, RuntimeFields
<1>2. s = IF c.plan THEN [r EXCEPT !.registry = r.registry \cup {"complete_step"}] ELSE r
  BY DEF Piped, InjectCompleteStep, WirePlanResolver
<1> HIDE DEF r, s
<1>3. /\ DOMAIN s = RuntimeFields /\ s.registry = reg
      /\ \A f \in RuntimeFields \ {"registry"} : s[f] = r[f]
  BY <1>1, <1>2 DEF RuntimeParts, RuntimeFields
<1>4. /\ \A t : t # "complete_step" => (t \in reg <=> t \in rt.registry)
      /\ c.plan => "complete_step" \in reg
      /\ rt.registry \subseteq reg
  OBVIOUS
<1> HIDE DEF reg
<1>5. RuntimeParts(s)
  BY <1>1, <1>3, <1>4 DEF RuntimeParts, RuntimeFields, DeliveryBlocks
<1> QED BY <1>1, <1>3, <1>4, <1>5 DEF SameSeats, RuntimeFields, s

(* After apply_config, finished or ended half way by a block, what is there *)
(* is again that of the config in force, and the config in force is the new *)
(* one unless a block raised.                                               *)
LEMMA ApplyInForce ==
  ASSUME NEW rt, RuntimeInForce(rt), NEW c, ConfigOk(c), NEW d
  PROVE  LET s == ApplyConfig(rt, c, d)
         IN  /\ RuntimeInForce(s) /\ SeatsMove(rt, s) /\ s.source = rt.source
             /\ s.config = IF ApplyRaises(rt, c) THEN rt.config ELSE c
<1> DEFINE scanned   == RescanSkills(rt, c, d)
           reminded  == Reseated(scanned, c, "reminders")
           scheduled == Reseated(reminded, c, "schedules")
           old == rt.config
           called == Retargeted(scheduled, c)
           tools  == IF <<c.tools, c.failing>> = <<old.tools, old.failing>> THEN called
                     ELSE RegisterConfigTools(called, c)
           skills == IF <<c.skills, c.dirs, c.builtins>> = <<old.skills, old.dirs, old.builtins>> THEN tools
                     ELSE RebuildSkills(tools, c, d)
           piped  == IF c.pipeline = old.pipeline THEN skills ELSE Piped(skills, c)
           done == [piped EXCEPT !.config = c]
           s == ApplyConfig(rt, c, d)
<1>1. s = IF Raises(rt, c, "reminders") THEN scanned ELSE IF Raises(rt, c, "schedules") THEN reminded ELSE done
  BY DEF ApplyConfig, Piped
<1>2. RuntimeParts(rt) /\ c.tools \cap Injected = {} /\ c.plan \in BOOLEAN
  BY DEF RuntimeInForce, ConfigOk
<1>3. RuntimeParts(scanned) /\ SameConfig(rt, scanned) /\ SameSeats(rt, scanned)
  BY <1>2, RescanParts
<1> HIDE DEF scanned
<1>4. RuntimeParts(reminded) /\ SameConfig(scanned, reminded) /\ SeatsMove(scanned, reminded)
  BY <1>3, ReseatedParts DEF DeliveryBlocks
<1> HIDE DEF reminded
<1>5. RuntimeParts(scheduled) /\ SameConfig(reminded, scheduled) /\ SeatsMove(reminded, scheduled)
  BY <1>4, ReseatedParts DEF DeliveryBlocks
<1> HIDE DEF scheduled
<1>6. /\ SameConfig(rt, scanned) /\ SameConfig(rt, reminded) /\ SameConfig(rt, scheduled)
      /\ \A r : SameConfig(rt, r) /\ RuntimeParts(r) => RuntimeInForce(r)
  BY <1>3, <1>4, <1>5 DEF SameConfig, RuntimeInForce
<1>7. SeatsMove(rt, scanned) /\ SeatsMove(rt, reminded) /\ SeatsMove(rt, scheduled)
  <2>1. SeatsMove(rt, scanned)
    BY <1>2, <1>3 DEF SeatsMove, SameSeats, RuntimeParts
  <2>2. \A x, y, z : RuntimeParts(x) /\ RuntimeParts(y) /\ RuntimeParts(z) /\ SeatsMove(x, y) /\ SeatsMove(y, z)
                       => SeatsMove(x, z)
    <3> SUFFICES ASSUME NEW x, NEW y, NEW z, RuntimeParts(x), RuntimeParts(y), RuntimeParts(z),
                        SeatsMove(x, y), SeatsMove(y, z), NEW b \in DeliveryBlocks
                 PROVE  x.stamp[b] <= z.stamp[b] /\ (z.stamp[b] = x.stamp[b] => z.seat[b] = x.seat[b])
      BY DEF SeatsMove
    <3>1. x.stamp[b] \in Nat /\ y.stamp[b] \in Nat /\ z.stamp[b] \in Nat
      BY DEF RuntimeParts
    <3> QED BY <3>1 DEF SeatsMove
  <2> QED BY <1>2, <1>3, <1>4, <1>5, <2>1, <2>2
<1>8. /\ RuntimeParts(called) /\ SameSeats(scheduled, called) /\ called.model = c.model
      /\ called.source = rt.source /\ called.config = old /\ called.declared = rt.declared
      /\ called.provider = rt.provider /\ ("complete_step" \in called.registry <=> "complete_step" \in rt.registry)
  BY <1>5, <1>6 DEF Retargeted, RuntimeParts, RuntimeFields, SameConfig, SameSeats
<1> HIDE DEF called
<1>9. /\ RuntimeParts(tools) /\ SameSeats(called, tools) /\ tools.declared = c.tools
      /\ tools.source = rt.source /\ tools.config = old /\ tools.model = c.model
      /\ tools.provider = rt.provider /\ ("complete_step" \in tools.registry <=> "complete_step" \in rt.registry)
  <2>1. CASE <<c.tools, c.failing>> = <<old.tools, old.failing>>
    BY <1>8, <2>1 DEF SameSeats, RuntimeInForce
  <2>2. CASE <<c.tools, c.failing>> # <<old.tools, old.failing>>
    BY <1>2, <1>8, <2>2, RegisterParts
  <2> QED BY <2>1, <2>2
<1> HIDE DEF tools
<1>10. RuntimeParts(skills) /\ SameConfig(tools, skills) /\ SameSeats(tools, skills)
  <2>1. SameConfig(tools, tools) /\ SameSeats(tools, tools)
    BY DEF SameConfig, SameSeats
  <2> QED BY <1>9, <2>1, RebuildParts
<1> HIDE DEF skills
<1>11. /\ RuntimeParts(piped) /\ SameSeats(skills, piped) /\ piped.declared = c.tools
       /\ piped.source = rt.source /\ piped.model = c.model
       /\ piped.provider = c.plan /\ (c.plan => "complete_step" \in piped.registry)
  <2>1. CASE c.pipeline = old.pipeline
    <3>1. c.plan = old.plan
      BY <2>1 DEF ConfigOk, RuntimeInForce
    <3> QED BY <1>9, <1>10, <2>1, <3>1 DEF SameConfig, SameSeats, RuntimeInForce
  <2>2. CASE c.pipeline # old.pipeline
    BY <1>2, <1>9, <1>10, <2>2, PipedParts DEF SameConfig
  <2> QED BY <2>1, <2>2
<1> HIDE DEF piped
<1>12. /\ RuntimeParts(done) /\ SameSeats(piped, done) /\ done.config = c
       /\ \A f \in RuntimeFields \ {"config"} : done[f] = piped[f]
  BY <1>11 DEF RuntimeParts, RuntimeFields, SameSeats
<1> HIDE DEF done
<1>13. RuntimeInForce(done) /\ done.source = rt.source
  BY <1>11, <1>12 DEF RuntimeInForce, RuntimeFields
<1>14. SeatsMove(rt, done)
  BY <1>7, <1>8, <1>9, <1>10, <1>11, <1>12 DEF SeatsMove, SameSeats
<1>15. RuntimeInForce(scanned) /\ RuntimeInForce(reminded)
  BY <1>3, <1>4, <1>6
<1>16. scanned.source = rt.source /\ scanned.config = rt.config /\ reminded.source = rt.source /\ reminded.config = rt.config
  BY <1>6 DEF SameConfig
<1> HIDE DEF s
<1>17. s.config = IF ApplyRaises(rt, c) THEN rt.config ELSE c
  BY <1>1, <1>12, <1>16 DEF ApplyRaises
<1> QED BY <1>1, <1>7, <1>13, <1>14, <1>15, <1>16, <1>17 DEF s

(***************************************************************************)
(* The Sessions: each knows the pipeline in force or is marked stale.      *)
(***************************************************************************)
SessionFields ==
  {"place", "history", "queue", "stale", "ready", "pipeline", "turn", "inFlight", "closing", "log", "handoff",
   "caller", "notice"}

SessionOk(s, p) == DOMAIN s = SessionFields /\ s.stale \in BOOLEAN /\ (s.stale \/ s.pipeline = p)

Elements(ss) == {ss[k] : k \in DOMAIN ss}
SessionsOk(ss, p) == ss \in Seq(Elements(ss)) /\ \A k \in DOMAIN ss : SessionOk(ss[k], p)

LEMMA FieldOk ==
  ASSUME NEW s, NEW p, SessionOk(s, p), NEW f, f \notin {"stale", "pipeline"}, NEW v
  PROVE  SessionOk([s EXCEPT ![f] = v], p)
BY DEF SessionOk, SessionFields

(* No operation on a Session but the rebuilding of its SR2 touches either.  *)
LEMMA SessionOps ==
  ASSUME NEW s, NEW p, SessionOk(s, p), NEW m, NEW v
  PROVE  /\ SessionOk(SetRunContext(s), p) /\ SessionOk(CloseLog(s), p) /\ SessionOk(Close(s), p)
         /\ SessionOk(Entered(s, m), p) /\ SessionOk(Left(s, m), p) /\ SessionOk(Said(s, m), p)
         /\ SessionOk(Continued(s, v), p) /\ SessionOk(Restored(s, v), p)
         /\ SessionOk(CancelHandoff(s), p) /\ SessionOk(HandoffOver(s), p)
<1> USE FieldOk
<1>1. \A r : SessionOk(r, p) => SessionOk(CloseLog(r), p)
  BY DEF CloseLog
<1>2. SessionOk(SetRunContext(s), p) /\ SessionOk(CancelHandoff(s), p) /\ SessionOk(Said(s, m), p)
  BY DEF SetRunContext, CancelHandoff, Said
<1>3. SessionOk(Close(s), p)
  <2>1. SessionOk([s EXCEPT !.closing = TRUE], p)
    OBVIOUS
  <2> QED BY <1>1, <2>1 DEF Close
<1>4. SessionOk(Entered(s, m), p)
  <2>1. SessionOk([s EXCEPT !.inFlight = s.inFlight \cup {m}], p)
    OBVIOUS
  <2> QED BY <2>1 DEF Entered, SessionOk, SessionFields
<1>5. SessionOk(Left(s, m), p)
  <2> DEFINE q == RemoveFirst(s.queue, m)
             out == [s EXCEPT !.queue = q, !.inFlight = s.inFlight \ {m}]
  <2>1. SessionOk(out, p)
    <3> HIDE DEF q
    <3> QED BY DEF SessionOk, SessionFields
  <2>2. Left(s, m) \in {out, CloseLog(out)}
    BY DEF Left
  <2> HIDE DEF out
  <2> QED BY <1>1, <2>1, <2>2
<1>6. SessionOk(Continued(s, v), p) /\ SessionOk(HandoffOver(s), p)
  <2>1. \A t : SessionOk([s EXCEPT !.ready = TRUE, !.turn = t], p)
    BY DEF SessionOk, SessionFields
  <2>2. \E t : Continued(s, v) = [s EXCEPT !.ready = TRUE, !.turn = t]
    BY DEF Continued
  <2>3. SessionOk(HandoffOver(s), p)
    BY DEF HandoffOver, SessionOk, SessionFields
  <2> QED BY <2>1, <2>2, <2>3
<1>7. SessionOk(Restored(s, v), p)
  BY DEF Restored
<1> QED BY <1>1, <1>2, <1>3, <1>4, <1>5, <1>6, <1>7

LEMMA OpenedOk ==
  ASSUME NEW p, NEW place, NEW rt, p = rt.config.pipeline
  PROVE  SessionOk(NewSession(place, rt), p)
BY DEF NewSession, Opened, SessionOk, SessionFields

LEMMA RefreshOk ==
  ASSUME NEW s, NEW p, SessionOk(s, p), NEW rt, p = rt.config.pipeline
  PROVE  SessionOk(RefreshIfStale(s, rt), p)
BY DEF RefreshIfStale, Rebuilt, SessionOk, SessionFields

LEMMA SetOk ==
  ASSUME NEW ss, NEW p, SessionsOk(ss, p), NEW k, NEW s, k \in DOMAIN ss => SessionOk(s, p)
  PROVE  SessionsOk([ss EXCEPT ![k] = s], p)
<1> DEFINE tt == [ss EXCEPT ![k] = s]
<1>1. tt \in Seq(Elements(tt))
  <2>1. Len(ss) \in Nat /\ DOMAIN ss = 1..Len(ss)
    BY DEF SessionsOk
  <2>2. tt \in [1..Len(ss) -> Elements(tt)]
    BY <2>1 DEF Elements
  <2> HIDE DEF tt
  <2> QED BY <2>1, <2>2
<1>2. \A j \in DOMAIN tt : SessionOk(tt[j], p)
  BY DEF SessionsOk
<1> QED BY <1>1, <1>2 DEF SessionsOk

LEMMA MapOk ==
  ASSUME NEW ss, NEW p, SessionsOk(ss, p), NEW tt, NEW q, tt = [k \in DOMAIN ss |-> tt[k]],
         \A k \in DOMAIN ss : SessionOk(tt[k], q)
  PROVE  SessionsOk(tt, q)
<1>1. Len(ss) \in Nat /\ DOMAIN ss = 1..Len(ss)
  BY DEF SessionsOk
<1>2. tt \in [1..Len(ss) -> Elements(tt)]
  BY <1>1 DEF Elements
<1> QED BY <1>1, <1>2 DEF SessionsOk

LEMMA AppendOk ==
  ASSUME NEW ss, NEW p, SessionsOk(ss, p), NEW s, SessionOk(s, p)
  PROVE  SessionsOk(Append(ss, s), p)
<1> DEFINE S == Elements(ss) \cup {s}
           tt == Append(ss, s)
<1>1. ss \in Seq(S) /\ s \in S
  BY DEF SessionsOk, Elements
<1>2. /\ tt \in Seq(S) /\ Len(tt) = Len(ss) + 1 /\ Len(ss) \in Nat
      /\ \A j \in 1..Len(ss) : tt[j] = ss[j]
      /\ tt[Len(ss) + 1] = s
  BY <1>1
<1>3. DOMAIN tt = 1..(Len(ss) + 1) /\ DOMAIN ss = 1..Len(ss)
  BY <1>1, <1>2
<1> HIDE DEF tt
<1>4. tt \in [1..Len(tt) -> Elements(tt)]
  BY <1>2, <1>3 DEF Elements
<1>5. \A j \in DOMAIN tt : SessionOk(tt[j], p)
  BY <1>2, <1>3 DEF SessionsOk
<1>6. tt \in Seq(Elements(tt))
  BY <1>2, <1>4
<1> QED BY <1>5, <1>6 DEF SessionsOk, tt

LEMMA NoneOk == \A p : SessionsOk(<<>>, p)
BY DEF SessionsOk

-----------------------------------------------------------------------------
(***************************************************************************)
(* The process.                                                            *)
(***************************************************************************)
DiskOk(d) == DOMAIN d = {"config", "pointer", "files", "access"} /\ d.config \in DOMAIN Trees

LoopOk(loop, rt, b) ==
  /\ DOMAIN loop = {"on", "seat", "stamp"} /\ loop.on \in BOOLEAN /\ loop.stamp \in Nat
  /\ loop.stamp <= rt.stamp[b]
  /\ loop.on /\ loop.stamp = rt.stamp[b] => loop.seat = rt.seat[b]
LoopsOk(ls, rt) == DOMAIN ls = DeliveryBlocks /\ \A b \in DeliveryBlocks : LoopOk(ls[b], rt, b)

RuntimeInv ==
  /\ DiskOk(disk) /\ RuntimeInForce(runtime) /\ LoopsOk(loops, runtime)
  /\ SessionsOk(sessions, runtime.config.pipeline)

LEMMA LoadedOk ==
  ASSUME NoneIsDeclared, NEW d, d.config \in DOMAIN Trees, ConfigOf[d.config].loads
  PROVE  ConfigOk(Loaded(d))
<1> DEFINE c == ConfigOf[d.config]
<1>1. c = Typed(Trees[d.config], ResolveTiers(Trees[d.config]))
  BY DEF ConfigOf
<1>2. DOMAIN c = ConfigFields
  BY <1>1 DEF Typed, ConfigFields
<1>3. c.plan \in BOOLEAN
  BY <1>1 DEF Typed, HasPlanResolver
<1>4. c.plan <=> HasPlanResolver(c.pipeline)
  BY RuntimeAssumption DEF ConfigRecord
<1>5. c.tools \cap Injected = {}
  BY DEF NoneIsDeclared
<1> HIDE DEF c
<1>6. \A v : ConfigOk([c EXCEPT !.model = v])
  BY <1>2, <1>3, <1>4, <1>5 DEF ConfigOk, ConfigFields
<1> QED BY <1>6 DEF Loaded, c

LEMMA StartInForce ==
  ASSUME NEW c, ConfigOk(c), NEW d
  PROVE  RuntimeInForce(StartRuntime(c, d))
<1> DEFINE new == NewRuntime(c)
           tools == RegisterConfigTools(new, c)
           piped == InjectCompleteStep(tools, c)
           filled == RebuildSkills(piped, c, d)
           skills == [filled EXCEPT !.signature = SeededSignature(c, d)]
           wired == WirePlanResolver(skills, c)
           seated == Seated(wired, "reminders", c.reminders)
           s == Seated(seated, "schedules", c.schedules)
<1>0. c.tools \cap Injected = {} /\ c.plan \in BOOLEAN
  BY DEF ConfigOk
<1>1. RuntimeParts(new) /\ new.source = c /\ new.config = c /\ new.model = c.model
  BY DEF NewRuntime, RuntimeParts, RuntimeFields, DeliveryBlocks, NoSkills
<1> HIDE DEF new
<1>2. RuntimeParts(tools) /\ tools.source = c /\ tools.config = c /\ tools.model = c.model /\ tools.declared = c.tools
  BY <1>0, <1>1, RegisterParts
<1> HIDE DEF tools
<1>3. /\ RuntimeParts(piped) /\ (c.plan => "complete_step" \in piped.registry)
      /\ piped.source = c /\ piped.config = c /\ piped.model = c.model /\ piped.declared = c.tools
  <2> DEFINE reg == tools.registry \cup {"complete_step"}
             p == [tools EXCEPT !.registry = reg]
  <2>1. DOMAIN p = RuntimeFields /\ p.registry = reg /\ \A f \in RuntimeFields \ {"registry"} : p[f] = tools[f]
    BY <1>2 DEF RuntimeParts, RuntimeFields
  <2>2. "complete_step" \in reg /\ tools.registry \subseteq reg
        /\ \A t : t # "complete_step" => (t \in reg <=> t \in tools.registry)
    OBVIOUS
  <2>3. piped = IF c.plan THEN p ELSE tools
    BY DEF InjectCompleteStep
  <2> HIDE DEF reg, p, piped
  <2>4. RuntimeParts(p)
    BY <1>2, <2>1, <2>2 DEF RuntimeParts, RuntimeFields, DeliveryBlocks
  <2>5. p.source = c /\ p.config = c /\ p.model = c.model /\ p.declared = c.tools
    BY <1>2, <2>1 DEF RuntimeFields
  <2> QED BY <1>2, <2>1, <2>2, <2>3, <2>4, <2>5
<1> HIDE DEF piped
<1>4. RuntimeParts(filled) /\ SameConfig(piped, filled)
  BY <1>3, RebuildParts
<1> HIDE DEF filled
<1>5. /\ RuntimeParts(wired) /\ wired.provider = c.plan /\ wired.registry = filled.registry
      /\ \A f \in RuntimeFields \ {"provider", "signature"} : wired[f] = filled[f]
  BY <1>4 DEF WirePlanResolver, RuntimeParts, RuntimeFields
<1> HIDE DEF wired, skills
<1>6. RuntimeParts(seated) /\ SameConfig(wired, seated)
  BY <1>5, SeatedParts DEF DeliveryBlocks
<1> HIDE DEF seated
<1>7. RuntimeParts(s) /\ SameConfig(seated, s)
  BY <1>6, SeatedParts DEF DeliveryBlocks
<1> HIDE DEF s
<1>8. RuntimeInForce(s)
  BY <1>3, <1>4, <1>5, <1>6, <1>7 DEF RuntimeInForce, SameConfig, RuntimeFields
<1> QED BY <1>8 DEF StartRuntime, SeatSchedules, s, seated, wired, skills, filled, piped, tools, new

LEMMA ReadInForce ==
  ASSUME NoneIsDeclared, NEW rt, RuntimeInForce(rt), NEW d, DiskOk(d)
  PROVE  LET s == Reload(rt, d)
         IN  RuntimeInForce(s) /\ s.config = rt.config /\ SameSeats(rt, s)
<1>1. CASE ~ConfigOf[d.config].loads
  BY <1>1 DEF Reload, SameSeats
<1>2. CASE ConfigOf[d.config].loads
  <2> DEFINE c == Loaded(d)
             s == [rt EXCEPT !.source = c]
  <2>1. ConfigOk(c)
    BY <1>2, LoadedOk DEF DiskOk
  <2> HIDE DEF c
  <2>2. DOMAIN s = RuntimeFields /\ s.source = c /\ \A f \in RuntimeFields \ {"source"} : s[f] = rt[f]
    BY DEF RuntimeInForce, RuntimeParts, RuntimeFields
  <2> HIDE DEF s
  <2>3. RuntimeParts(s)
    BY <2>2 DEF RuntimeInForce, RuntimeParts, RuntimeFields
  <2>4. RuntimeInForce(s) /\ s.config = rt.config /\ SameSeats(rt, s)
    BY <2>1, <2>2, <2>3 DEF RuntimeInForce, RuntimeFields, SameSeats
  <2> QED BY <1>2, <2>4 DEF Reload, s, c
<1> QED BY <1>1, <1>2

(* One reload, finished or ended half way.                                  *)
LEMMA ReloadedInForce ==
  ASSUME NoneIsDeclared, RuntimeInForce(runtime), NEW d, DiskOk(d)
  PROVE  LET s == Reloaded(runtime, d)
         IN  /\ RuntimeInForce(s) /\ SeatsMove(runtime, s)
             /\ s.config = IF ReloadRaises(d) THEN runtime.config ELSE Reload(runtime, d).source
<1> DEFINE read == Reload(runtime, d)
           s == ApplyConfig(read, read.source, d)
<1>1. RuntimeInForce(read) /\ read.config = runtime.config /\ SameSeats(runtime, read)
  BY ReadInForce
<1> HIDE DEF read
<1>2. ConfigOk(read.source)
  BY <1>1 DEF RuntimeInForce
<1>3. /\ RuntimeInForce(s) /\ SeatsMove(read, s)
      /\ s.config = IF ApplyRaises(read, read.source) THEN read.config ELSE read.source
  BY <1>1, <1>2, ApplyInForce
<1>4. ApplyRaises(read, read.source) <=> ReloadRaises(d)
  BY <1>1 DEF ApplyRaises, Raises, ReloadRaises, read
<1>5. SeatsMove(runtime, s)
  BY <1>1, <1>3 DEF SeatsMove, SameSeats
<1> HIDE DEF s
<1>6. s.config = IF ReloadRaises(d) THEN runtime.config ELSE read.source
  BY <1>1, <1>3, <1>4
<1> QED BY <1>3, <1>5, <1>6 DEF Reloaded, s, read

LEMMA LoopsKeep ==
  ASSUME NEW ls, NEW rt, LoopsOk(ls, rt), NEW s, RuntimeParts(rt), RuntimeParts(s), SeatsMove(rt, s)
  PROVE  LoopsOk(ls, s)
<1> SUFFICES ASSUME NEW b \in DeliveryBlocks PROVE LoopOk(ls[b], s, b)
  BY DEF LoopsOk
<1>1. rt.stamp[b] \in Nat /\ s.stamp[b] \in Nat
  BY DEF RuntimeParts
<1> QED BY <1>1 DEF LoopsOk, LoopOk, SeatsMove

(* Sessions that were told of a reload know its pipeline or are stale; one  *)
(* that ended half way has nothing to tell.                                 *)
LEMMA NotifiedOk ==
  ASSUME NoneIsDeclared, RuntimeInv, NEW d, DiskOk(d), NEW s, s = Reloaded(runtime, d)
  PROVE  /\ SessionsOk(Notified(sessions, d), s.config.pipeline)
         /\ ReloadRaises(d) => SessionsOk(sessions, s.config.pipeline)
<1> DEFINE p == runtime.config.pipeline
           q == s.config.pipeline
           tt == Notified(sessions, d)
<1>1. s.config = IF ReloadRaises(d) THEN runtime.config ELSE Reload(runtime, d).source
  BY ReloadedInForce DEF RuntimeInv
<1>2. PipelineChanges(d) \/ p = q
  BY <1>1 DEF PipelineChanges
<1>3. PipelineChanges(d) \in BOOLEAN
  BY DEF PipelineChanges
<1>4. SessionsOk(sessions, p)
  BY DEF RuntimeInv
<1> HIDE DEF p, q
<1>5. ASSUME NEW k \in DOMAIN sessions
      PROVE  SessionOk([sessions[k] EXCEPT !.stale = @ \/ PipelineChanges(d)], q)
  <2>1. SessionOk(sessions[k], p)
    BY <1>4 DEF SessionsOk
  <2> QED BY <1>2, <1>3, <2>1 DEF SessionOk, SessionFields
<1>6. SessionsOk(tt, q)
  <2>1. tt = [k \in DOMAIN sessions |-> tt[k]] /\ \A k \in DOMAIN sessions : SessionOk(tt[k], q)
    BY <1>5 DEF Notified
  <2> HIDE DEF tt
  <2> QED BY <1>4, <2>1, MapOk
<1>7. ReloadRaises(d) => p = q
  BY <1>1 DEF p, q
<1> QED BY <1>4, <1>6, <1>7 DEF q

(* What an operator does to the files.                                      *)
LEMMA EditOk ==
  ASSUME DiskOk(disk)
  PROVE  EditConfig \/ EditSkills \/ ChangeAccess \/ UNCHANGED disk => DiskOk(disk')
BY RuntimeAssumption DEF DiskOk, EditConfig, EditSkills, ChangeAccess

LEMMA EditsOk ==
  ASSUME DiskOk(disk), Edits
  PROVE  DiskOk(disk')
BY EditOk DEF Edits

(* A loop that starts serves the handle of the moment.                      *)
LEMMA StartOk ==
  ASSUME NEW rt, RuntimeParts(rt), NEW b \in DeliveryBlocks
  PROVE  LoopOk(NoLoop, rt, b) /\ LoopOk(Start(rt, b), rt, b)
<1>1. rt.stamp[b] \in Nat
  BY DEF RuntimeParts
<1>2. LoopOk(NoLoop, rt, b) /\ LoopOk(LoopOn(rt, b), rt, b)
  BY <1>1 DEF NoLoop, LoopOn, LoopOk
<1> QED BY <1>2 DEF Start

LEMMA LoopSet ==
  ASSUME NEW ls, NEW rt, LoopsOk(ls, rt), NEW block, NEW loop, block \in DeliveryBlocks => LoopOk(loop, rt, block)
  PROVE  LoopsOk([ls EXCEPT ![block] = loop], rt)
BY DEF LoopsOk

LEMMA SyncOk ==
  ASSUME RuntimeInv, NEW m, NEW block, NEW next,
         SyncNow(m, block, next) \/ SyncStops(m, block) \/ SyncStopped(m, block, next)
  PROVE  LoopsOk(loops', runtime)
<1>1. /\ RuntimeParts(runtime) /\ LoopsOk(loops, runtime)
      /\ block \in DeliveryBlocks => LoopOk(loops[block], runtime, block)
  BY DEF RuntimeInv, RuntimeInForce, LoopsOk
<1>2. block \in DeliveryBlocks => LoopOk(NoLoop, runtime, block) /\ LoopOk(Start(runtime, block), runtime, block)
  BY <1>1, StartOk
<1>3. CASE SyncNow(m, block, next)
  BY <1>1, <1>2, <1>3, LoopSet DEF SyncNow, Synced
<1>4. CASE SyncStops(m, block)
  BY <1>1, <1>2, <1>4, LoopSet DEF SyncStops
<1>5. CASE SyncStopped(m, block, next)
  BY <1>1, <1>2, <1>5, LoopSet DEF SyncStopped
<1> QED BY <1>3, <1>4, <1>5

(* A new process: its config is on disk, its loops and its Session are of   *)
(* its own Runtime.                                                         *)
LEMMA RestartedOk ==
  ASSUME NoneIsDeclared, RuntimeInv, Restarted
  PROVE  DiskOk(disk') /\ RuntimeInForce(runtime') /\ LoopsOk(loops', runtime')
<1>1. DiskOk(disk') /\ disk' = disk /\ ConfigOf[disk.config].loads
  BY DEF RuntimeInv, Restarted, StartsUp
<1>2. ConfigOk(Loaded(disk))
  BY <1>1, LoadedOk DEF DiskOk
<1>3. RuntimeInForce(runtime')
  BY <1>2, StartInForce DEF Restarted
<1>4. DOMAIN loops = DeliveryBlocks
  BY DEF RuntimeInv, LoopsOk
<1>5. LoopsOk(loops', runtime')
  BY <1>3, <1>4, StartOk DEF Restarted, LoopsOk, RuntimeInForce
<1> QED BY <1>1, <1>3, <1>5

(* A turn changes its own Session only, and rebuilds only what is stale.    *)
LEMMA TurnSessions ==
  ASSUME RuntimeInv, NEW m, TurnStep(m)
  PROVE  SessionsOk(sessions', runtime.config.pipeline)
<1> DEFINE p == runtime.config.pipeline
           k == calls[m].session
           s == sessions[k]
<1> SUFFICES \E x : sessions' = [sessions EXCEPT ![k] = x] /\ (SessionOk(s, p) => SessionOk(x, p))
  <2>1. SUFFICES ASSUME NEW x, sessions' = [sessions EXCEPT ![k] = x], SessionOk(s, p) => SessionOk(x, p)
                 PROVE  SessionsOk(sessions', p)
    OBVIOUS
  <2>2. SessionsOk(sessions, p)
    BY DEF RuntimeInv
  <2>3. k \in DOMAIN sessions => SessionOk(x, p)
    BY <2>1, <2>2 DEF SessionsOk
  <2> HIDE DEF p, k
  <2> QED BY <2>1, <2>2, <2>3, SetOk
<1>1. \A t, n, b : /\ SessionOk(t, p) => SessionOk(Said(t, n), p) /\ SessionOk(Continued(t, b), p)
                   /\ SessionOk(t, p) => SessionOk(Left(t, n), p) /\ SessionOk(HandoffOver(t), p)
  BY SessionOps
<1>2. \A t, x, y : SessionOk(t, p) =>
        /\ SessionOk([t EXCEPT !.turn = x, !.notice = y], p) /\ SessionOk([t EXCEPT !.history = x], p)
        /\ SessionOk([t EXCEPT !.handoff = x, !.caller = y], p) /\ SessionOk([t EXCEPT !.handoff = x], p)
  BY DEF SessionOk, SessionFields
<1> HIDE DEF p, s
<1>3. CASE Acquire(m)
  <2>1. SessionOk(s, p) => SessionOk(RefreshIfStale(s, runtime), p)
    BY RefreshOk DEF p
  <2> QED BY <1>1, <1>3, <2>1 DEF Acquire, Set, Of, s
<1>4. CASE ContinueArchive(m)
  BY <1>1, <1>4 DEF ContinueArchive, Set, Of, s
<1>5. CASE BeginTurn(m)
  BY <1>2, <1>5 DEF BeginTurn, Set, Of, s
<1>6. CASE StreamEnds(m)
  <2> DEFINE t == [s EXCEPT !.history = Append(s.history, Assistant(m))]
  <2>1. sessions' = [sessions EXCEPT ![k] = Left(t, m)]
    BY <1>6 DEF StreamEnds, Set, Of, s
  <2>2. SessionOk(s, p) => SessionOk(t, p)
    BY <1>2
  <2> HIDE DEF t
  <2> QED BY <1>1, <2>1, <2>2
<1>7. CASE StreamRaises(m)
  BY <1>1, <1>7 DEF StreamRaises, Set, Of, s
<1>8. CASE StartHandoff(m)
  BY <1>2, <1>8 DEF StartHandoff, Set, Of, s
<1>9. CASE TargetEnds(m)
  BY <1>2, <1>9 DEF TargetEnds, Set, Of, s
<1>10. CASE TargetCloses(m)
  BY <1>1, <1>10 DEF TargetCloses, Set, Of, s
<1>11. CASE UnwindHandoff(m)
  BY <1>2, <1>11 DEF UnwindHandoff, Set, Of, s
<1>12. CASE UnwindTurn(m)
  BY <1>1, <1>12 DEF UnwindTurn, Set, Of, s
<1> QED BY <1>3, <1>4, <1>5, <1>6, <1>7, <1>8, <1>9, <1>10, <1>11, <1>12 DEF TurnStep

(* Steps that leave the Runtime and the files alone.                        *)
LEMMA KeptInv ==
  ASSUME RuntimeInv, UNCHANGED <<runtime, disk>>, LoopsOk(loops', runtime),
         SessionsOk(sessions', runtime.config.pipeline)
  PROVE  RuntimeInv'
BY DEF RuntimeInv

LEMMA IdleInv ==
  ASSUME RuntimeInv, UNCHANGED <<runtime, disk, loops, sessions>>
  PROVE  RuntimeInv'
BY DEF RuntimeInv

LEMMA SetInv ==
  ASSUME RuntimeInv, UNCHANGED <<runtime, disk, loops>>, NEW k, NEW x, sessions' = [sessions EXCEPT ![k] = x],
         SessionOk(sessions[k], runtime.config.pipeline) => SessionOk(x, runtime.config.pipeline)
  PROVE  RuntimeInv'
<1> DEFINE p == runtime.config.pipeline
<1>1. SessionsOk(sessions, p) /\ LoopsOk(loops', runtime)
  BY DEF RuntimeInv
<1>2. k \in DOMAIN sessions => SessionOk(x, p)
  BY <1>1 DEF SessionsOk
<1>3. SessionsOk(sessions', p)
  <2> HIDE DEF p
  <2> QED BY <1>1, <1>2, SetOk
<1> QED BY <1>1, <1>3, KeptInv

LEMMA AppendInv ==
  ASSUME RuntimeInv, UNCHANGED <<runtime, disk, loops>>, NEW s, SessionOk(s, runtime.config.pipeline),
         sessions' = Append(sessions, s)
  PROVE  RuntimeInv'
<1>1. SessionsOk(sessions, runtime.config.pipeline) /\ LoopsOk(loops', runtime)
  BY DEF RuntimeInv
<1> QED BY <1>1, AppendOk, KeptInv

(* The operations on one Session, for the pipeline in force.                *)
LEMMA Ops ==
  ASSUME NEW s, NEW m, NEW v
  PROVE  SessionOk(s, runtime.config.pipeline) =>
           /\ SessionOk(SetRunContext(s), runtime.config.pipeline) /\ SessionOk(Close(s), runtime.config.pipeline)
           /\ SessionOk(Entered(s, m), runtime.config.pipeline) /\ SessionOk(Restored(s, v), runtime.config.pipeline)
           /\ SessionOk(CancelHandoff(s), runtime.config.pipeline)
BY SessionOps

LEMMA TurnInv ==
  ASSUME RuntimeInv, NEW m, TurnStep(m), UNCHANGED turnVars
  PROVE  RuntimeInv'
<1>1. LoopsOk(loops', runtime) /\ UNCHANGED <<runtime, disk>>
  BY DEF RuntimeInv, turnVars
<1> QED BY <1>1, TurnSessions, KeptInv

LEMMA ZulipTaskInv ==
  ASSUME RuntimeInv, NEW m, ZulipTask(m)
  PROVE  RuntimeInv'
<1>1. CASE Handle(m)
  <2>1. UNCHANGED <<runtime, disk, loops>>
    BY <1>1 DEF Handle, turnVars
  <2>2. SessionOk(NewSession(calls[m].place, runtime), runtime.config.pipeline)
    BY OpenedOk
  <2>3. \/ \E k : sessions' = [sessions EXCEPT ![k] = SetRunContext(sessions[k])]
        \/ sessions' = sessions
        \/ sessions' = Append(sessions, NewSession(calls[m].place, runtime))
    BY <1>1 DEF Handle
  <2> QED BY <2>1, <2>2, <2>3, Ops, SetInv, AppendInv, IdleInv
<1>2. ASSUME NEW s, Adopt(m, s), UNCHANGED turnVars,
             SessionOk(Of(m), runtime.config.pipeline) => SessionOk(s, runtime.config.pipeline)
      PROVE  RuntimeInv'
  BY <1>2, Ops, SetInv DEF Adopt, Set, Of, turnVars
<1>3. CASE Restore(m)
  <2>1. UNCHANGED turnVars
    BY <1>3 DEF Restore
  <2>2. \/ \E b : Adopt(m, Restored(Of(m), b))
        \/ sessions' = sessions
    BY <1>3 DEF Restore
  <2>3. \A b : SessionOk(Of(m), runtime.config.pipeline) => SessionOk(Restored(Of(m), b), runtime.config.pipeline)
    BY Ops
  <2> QED BY <1>2, <2>1, <2>2, <2>3, IdleInv DEF turnVars
<1>4. CASE Probe(m)
  <2>1. UNCHANGED turnVars
    BY <1>4 DEF Probe
  <2>2. Adopt(m, Of(m)) \/ Set(m, Close(Of(m)))
    BY <1>4 DEF Probe
  <2> QED BY <1>2, <2>1, <2>2, Ops, SetInv DEF turnVars, Set, Of
<1>5. CASE Sync(m)
  <2>1. \E next : SyncNow(m, "reminders", next) \/ SyncStops(m, "reminders") \/ SyncStopped(m, "reminders", next)
    BY <1>5 DEF Sync
  <2>2. UNCHANGED <<runtime, disk, sessions>>
    BY <1>5 DEF Sync
  <2> QED BY <2>1, <2>2, SyncOk, KeptInv DEF RuntimeInv
<1>6. CASE Place(m)
  <2>1. \E k : sessions' = [sessions EXCEPT ![k] = Entered(sessions[k], m)]
    BY <1>6 DEF Place
  <2>2. UNCHANGED <<runtime, disk, loops>>
    BY <1>6 DEF Place, turnVars
  <2> QED BY <2>1, <2>2, Ops, SetInv
<1>7. CASE Turn(m)
  BY <1>7, TurnInv DEF Turn
<1>8. CASE Delta(m) \/ Settle(m) \/ Deliver(m) \/ Unwind(m)
  <2>1. UNCHANGED <<runtime, disk, loops, sessions>>
    BY <1>8 DEF Delta, Settle, Deliver, Unwind, turnVars
  <2> QED BY <2>1, IdleInv
<1>9. CASE StopTopic(m)
  <2>1. UNCHANGED <<runtime, disk, loops>>
    BY <1>9 DEF StopTopic, turnVars
  <2>2. sessions' = sessions \/ \E k : sessions' = [sessions EXCEPT ![k] = CancelHandoff(sessions[k])]
    BY <1>9 DEF StopTopic
  <2> QED BY <2>1, <2>2, Ops, SetInv, IdleInv
<1> QED BY <1>1, <1>3, <1>4, <1>5, <1>6, <1>7, <1>8, <1>9 DEF ZulipTask

LEMMA ZulipInv ==
  ASSUME NoneIsDeclared, RuntimeInv, ZulipNext
  PROVE  RuntimeInv'
<1>1. ASSUME NEW m, EditLands(m)
      PROVE  RuntimeInv'
  BY <1>1, IdleInv DEF EditLands
<1>2. CASE UserWrites \/ StrangerWrites \/ QueueExpires \/ Register \/ Shutdown
  <2>1. UNCHANGED <<runtime, disk, loops, sessions>>
    BY <1>2 DEF UserWrites, StrangerWrites, QueueExpires, Register, Shutdown, turnVars
  <2> QED BY <2>1, IdleInv
<1>3. CASE Poll
  <2>1. DiskOk(disk')
    BY <1>3, EditsOk DEF Poll, RuntimeInv
  <2>2. /\ runtime' = Reloaded(runtime, disk') /\ loops' = loops
        /\ sessions' = Notified(sessions, disk')
    BY <1>3 DEF Poll
  <2>3. RuntimeInForce(runtime') /\ SeatsMove(runtime, runtime')
    BY <2>1, <2>2, ReloadedInForce DEF RuntimeInv
  <2>4. SessionsOk(sessions', runtime'.config.pipeline)
    BY <2>1, <2>2, NotifiedOk
  <2>5. LoopsOk(loops', runtime')
    BY <2>2, <2>3, LoopsKeep DEF RuntimeInv, RuntimeInForce
  <2> QED BY <2>1, <2>3, <2>4, <2>5 DEF RuntimeInv
<1>4. CASE CloseAll
  <2>1. SessionsOk(sessions, runtime.config.pipeline)
    BY DEF RuntimeInv
  <2>2. /\ sessions' = [k \in DOMAIN sessions |-> sessions'[k]]
        /\ \A k \in DOMAIN sessions : SessionOk(sessions'[k], runtime.config.pipeline)
    BY <1>4, <2>1, Ops DEF CloseAll, SessionsOk
  <2>3. SessionsOk(sessions', runtime.config.pipeline)
    BY <2>1, <2>2, MapOk
  <2>4. RuntimeParts(runtime)
    BY DEF RuntimeInv, RuntimeInForce
  <2>5. LoopOk(NoLoop, runtime, "reminders")
    BY <2>4, StartOk DEF DeliveryBlocks
  <2>6. LoopsOk(loops', runtime)
    BY <1>4, <2>5, LoopSet DEF CloseAll, RuntimeInv
  <2> QED BY <1>4, <2>3, <2>6, KeptInv DEF CloseAll
<1>5. CASE Restart
  <2>1. Restarted /\ sessions' = <<>>
    BY <1>5 DEF Restart
  <2> QED BY <2>1, RestartedOk, NoneOk DEF RuntimeInv
<1>6. ASSUME NEW m, Sync(m)
      PROVE  RuntimeInv'
  BY <1>6, ZulipTaskInv DEF ZulipTask
<1> QED BY <1>1, <1>2, <1>3, <1>4, <1>5, <1>6, ZulipTaskInv DEF ZulipNext

(* Direct mode's one Session.                                               *)
CurrentInv == current # 0 => current \in DOMAIN sessions

LEMMA DirectInv ==
  ASSUME NoneIsDeclared, RuntimeInv, CurrentInv, DirectNext
  PROVE  RuntimeInv'
<1>1. CASE PeerWrites \/ QueueExpires \/ RegisterDirect \/ \E m \in Messages : Reply(m)
  <2>1. UNCHANGED <<runtime, disk, loops, sessions>>
    BY <1>1 DEF PeerWrites, QueueExpires, RegisterDirect, Register, Reply, turnVars
  <2> QED BY <2>1, IdleInv
<1>2. CASE PollDirect
  <2>1. DiskOk(disk')
    BY <1>2, EditsOk DEF PollDirect, RuntimeInv
  <2>2. /\ runtime' = Reloaded(runtime, disk') /\ loops' = loops
        /\ sessions' = Notified(sessions, disk')
    BY <1>2 DEF PollDirect
  <2>3. RuntimeInForce(runtime') /\ SeatsMove(runtime, runtime')
    BY <2>1, <2>2, ReloadedInForce DEF RuntimeInv
  <2>4. SessionsOk(sessions', runtime'.config.pipeline)
    BY <2>1, <2>2, NotifiedOk
  <2>5. LoopsOk(loops', runtime')
    BY <2>2, <2>3, LoopsKeep DEF RuntimeInv, RuntimeInForce
  <2> QED BY <2>1, <2>3, <2>4, <2>5 DEF RuntimeInv
<1>3. CASE DirectRestart
  <2>1. Restarted /\ sessions' = <<>>
    BY <1>3 DEF DirectRestart
  <2> QED BY <2>1, RestartedOk, NoneOk DEF RuntimeInv
<1>4. ASSUME NEW m \in Messages, HandleDirect(m)
      PROVE  RuntimeInv'
  <2>1. UNCHANGED <<runtime, disk, loops>>
    BY <1>4 DEF HandleDirect, turnVars
  <2>2. \E k, s : /\ InSession(m, k, s)
                  /\ \/ s = sessions[k] /\ k \in DOMAIN sessions
                     \/ \E b : s = SetRunContext(Restored(NewSession(calls[m].place, runtime), b))
    BY <1>4 DEF HandleDirect, CurrentInv
  <2>3. PICK k, s : /\ InSession(m, k, s)
                    /\ \/ s = sessions[k] /\ k \in DOMAIN sessions
                       \/ \E b : s = SetRunContext(Restored(NewSession(calls[m].place, runtime), b))
    BY <2>2
  <2>4. SessionOk(NewSession(calls[m].place, runtime), runtime.config.pipeline)
    BY OpenedOk
  <2>5. CASE s = sessions[k] /\ k \in DOMAIN sessions
    <3>1. SessionsOk(sessions, runtime.config.pipeline)
      BY DEF RuntimeInv
    <3>2. k <= Len(sessions) /\ Len(sessions) \in Nat /\ k \in Nat
      BY <2>5, <3>1 DEF SessionsOk
    <3>3. sessions' = [sessions EXCEPT ![k] = Entered(sessions[k], m)]
      BY <2>3, <2>5, <3>2 DEF InSession
    <3> QED BY <2>1, <3>3, Ops, SetInv
  <2>6. CASE \E b : s = SetRunContext(Restored(NewSession(calls[m].place, runtime), b))
    <3>1. SessionOk(Entered(s, m), runtime.config.pipeline)
      BY <2>4, <2>6, Ops
    <3>2. \/ sessions' = Append(sessions, Entered(s, m))
          \/ sessions' = [sessions EXCEPT ![k] = Entered(s, m)]
      BY <2>3 DEF InSession
    <3> QED BY <2>1, <3>1, <3>2, SetInv, AppendInv
  <2> QED BY <2>3, <2>5, <2>6
<1>5. ASSUME NEW m, TurnStep(m), UNCHANGED turnVars
      PROVE  RuntimeInv'
  BY <1>5, TurnInv
<1> QED BY <1>1, <1>2, <1>3, <1>4, <1>5 DEF DirectNext

(* A reload before a message: what the sessions were told and what was done *)
(* agree.                                                                   *)
LEMMA ReloadInv ==
  ASSUME NoneIsDeclared, RuntimeInv, Edits, runtime' = Reloaded(runtime, disk'), UNCHANGED loops,
         SessionsOk(Notified(sessions, disk'), runtime'.config.pipeline)
           => (ReloadRaises(disk') /\ sessions' = sessions) \/ SessionsOk(sessions', runtime'.config.pipeline)
  PROVE  RuntimeInv'
<1>1. DiskOk(disk')
  BY EditsOk DEF RuntimeInv
<1>2. RuntimeInForce(runtime') /\ SeatsMove(runtime, runtime')
  BY <1>1, ReloadedInForce DEF RuntimeInv
<1>3. SessionsOk(sessions', runtime'.config.pipeline)
  BY <1>1, NotifiedOk
<1>4. LoopsOk(loops', runtime')
  BY <1>2, LoopsKeep DEF RuntimeInv, RuntimeInForce
<1> QED BY <1>1, <1>2, <1>3, <1>4 DEF RuntimeInv

LEMMA StampedOk ==
  ASSUME NEW ss, NEW p, SessionsOk(ss, p)
  PROVE  SessionsOk(Stamped(ss), p)
<1> DEFINE tt == Stamped(ss)
<1>1. tt = [k \in DOMAIN ss |-> tt[k]] /\ \A k \in DOMAIN ss : SessionOk(tt[k], p)
  BY SessionOps DEF Stamped, SessionsOk
<1> HIDE DEF tt
<1>2. SessionsOk(tt, p)
  BY <1>1, MapOk
<1> QED BY <1>2 DEF tt

LEMMA DiscordTaskInv ==
  ASSUME RuntimeInv, NEW m, DiscordTask(m)
  PROVE  RuntimeInv'
<1>1. CASE SyncBlock(m)
  <2>1. \E b, next : SyncNow(m, b, next) \/ SyncStops(m, b) \/ SyncStopped(m, b, next)
    BY <1>1 DEF SyncBlock
  <2>2. UNCHANGED <<runtime, disk, sessions>>
    BY <1>1 DEF SyncBlock
  <2> QED BY <2>1, <2>2, SyncOk, KeptInv DEF RuntimeInv
<1>2. CASE CreateThread(m) \/ StopCommand(m) \/ ResetCommand(m) \/ RouteToAgent(m) \/ Acknowledged(m) \/ Starts(m)
  <2>1. UNCHANGED <<runtime, disk, loops, sessions>>
    BY <1>2 DEF CreateThread, StopCommand, ResetCommand, RouteToAgent, Acknowledged, Starts, turnVars
  <2> QED BY <2>1, IdleInv
<1>3. CASE ModelCommand(m)
  <2>1. DiskOk(disk')
    BY <1>3 DEF ModelCommand, DiskOk, RuntimeInv
  <2> QED BY <1>3, <2>1 DEF ModelCommand, RuntimeInv
<1>4. CASE PostPlaceholder(m) \/ Progress(m) \/ Answered(m) \/ ShowAnswer(m) \/ ShowError(m)
             \/ Unwinds(m) \/ FinalizeCancelled(m)
  <2>1. UNCHANGED <<runtime, disk, loops, sessions>>
    BY <1>4 DEF PostPlaceholder, Progress, Answered, ShowAnswer, ShowError, Unwinds, FinalizeCancelled, turnVars
  <2> QED BY <2>1, IdleInv
<1>5. CASE TakeTurn(m)
  <2> DEFINE p == runtime.config.pipeline
             old == [k \in DOMAIN sessions |-> IF k = current THEN Close(sessions[k]) ELSE sessions[k]]
             new == Entered(SetRunContext(RestoredHistory(m)), m)
  <2>1. sessions' = Append(old, new) /\ UNCHANGED <<runtime, disk, loops>>
    BY <1>5 DEF TakeTurn, turnVars
  <2>2. SessionsOk(sessions, p) /\ LoopsOk(loops', runtime)
    BY <2>1 DEF RuntimeInv
  <2>3. old = [k \in DOMAIN sessions |-> old[k]] /\ \A k \in DOMAIN sessions : SessionOk(old[k], p)
    BY <2>2, Ops DEF SessionsOk
  <2>4. SessionOk(RestoredHistory(m), p)
    BY OpenedOk, FieldOk DEF RestoredHistory
  <2>5. SessionOk(new, p)
    BY <2>4, Ops
  <2> HIDE DEF old, new
  <2>6. SessionsOk(old, p)
    BY <2>2, <2>3, MapOk
  <2> QED BY <2>1, <2>2, <2>5, <2>6, AppendOk, KeptInv
<1>6. CASE AgentTurn(m)
  BY <1>6, TurnInv DEF AgentTurn
<1> QED BY <1>1, <1>2, <1>3, <1>4, <1>5, <1>6 DEF DiscordTask, SlashCommand

LEMMA DiscordInv ==
  ASSUME NoneIsDeclared, RuntimeInv, DiscordNext
  PROVE  RuntimeInv'
<1>1. ASSUME NEW channel, NEW kind, NEW slash, Edits, Handed(channel, kind, slash)
      PROVE  RuntimeInv'
  <2>1. runtime' = Reloaded(runtime, disk') /\ UNCHANGED loops
    BY <1>1 DEF Handed
  <2>2. sessions' = IF ReloadRaises(disk') THEN sessions ELSE Stamped(Notified(sessions, disk'))
    BY <1>1 DEF Handed
  <2> QED BY <1>1, <2>1, <2>2, StampedOk, ReloadInv
<1>2. CASE Receive \/ ReceiveSlash
  <2>1. Edits /\ \E channel, kind, slash : Handed(channel, kind, slash)
    BY <1>2 DEF Receive, ReceiveSlash
  <2> QED BY <1>1, <2>1
<1>3. CASE Overheard
  <2>1. Edits /\ UNCHANGED loops /\ (Denied \/ Unaddressed)
    BY <1>3 DEF Overheard
  <2>2. CASE Denied
    <3>1. DiskOk(disk')
      BY <2>1, EditsOk DEF RuntimeInv
    <3>2. RuntimeInForce(runtime') /\ runtime'.config = runtime.config /\ SameSeats(runtime, runtime')
      BY <2>2, <3>1, ReadInForce DEF RuntimeInv, Denied
    <3>3. SeatsMove(runtime, runtime')
      BY <3>2 DEF SeatsMove, SameSeats, RuntimeInv, RuntimeInForce, RuntimeParts
    <3>4. LoopsOk(loops', runtime')
      BY <2>1, <3>2, <3>3, LoopsKeep DEF RuntimeInv, RuntimeInForce
    <3>5. SessionsOk(sessions', runtime'.config.pipeline)
      BY <2>2, <3>2 DEF Denied, RuntimeInv
    <3> QED BY <3>1, <3>2, <3>4, <3>5 DEF RuntimeInv
  <2>3. CASE Unaddressed
    BY <2>1, <2>3, ReloadInv DEF Unaddressed
  <2> QED BY <2>1, <2>2, <2>3
<1>4. CASE DiscordRestart
  <2>1. Restarted /\ sessions' = <<>>
    BY <1>4 DEF DiscordRestart
  <2> QED BY <2>1, RestartedOk, NoneOk DEF RuntimeInv
<1>5. ASSUME NEW m, EditLands(m)
      PROVE  RuntimeInv'
  BY <1>5, IdleInv DEF EditLands
<1> QED BY <1>2, <1>3, <1>4, <1>5, DiscordTaskInv DEF DiscordNext

LEMMA ReplTaskInv ==
  ASSUME RuntimeInv, NEW m, ReplTask(m)
  PROVE  RuntimeInv'
<1>1. CASE Enter(m)
  <2>1. UNCHANGED <<runtime, disk, loops>> /\ Set(m, Entered(Of(m), m))
    BY <1>1 DEF Enter, turnVars
  <2> QED BY <2>1, Ops, SetInv DEF Set, Of
<1>2. CASE Interrupt(m)
  <2>1. UNCHANGED <<runtime, disk, loops>>
    BY <1>2 DEF Interrupt, turnVars
  <2>2. sessions' = sessions \/ sessions' = [sessions EXCEPT ![current] = CancelHandoff(sessions[current])]
    BY <1>2 DEF Interrupt
  <2> QED BY <2>1, <2>2, Ops, SetInv, IdleInv
<1>3. CASE NeverStarts(m) \/ TurnShown(m)
  <2>1. UNCHANGED <<runtime, disk, loops, sessions>>
    BY <1>3 DEF NeverStarts, TurnShown, turnVars
  <2> QED BY <2>1, IdleInv
<1>4. CASE TurnStep(m) /\ UNCHANGED turnVars
  BY <1>4, TurnInv
<1> QED BY <1>1, <1>2, <1>3, <1>4 DEF ReplTask

LEMMA ReplInv ==
  ASSUME NoneIsDeclared, RuntimeInv, ReplNext
  PROVE  RuntimeInv'
<1> DEFINE p == runtime.config.pipeline
<1>1. ASSUME NEW s, SessionOk(s, p), Move(s)
      PROVE  RuntimeInv'
  <2> DEFINE old == [sessions EXCEPT ![current] = Close(sessions[current])]
             new == SetRunContext(s)
  <2>1. sessions' = Append(old, new) /\ UNCHANGED <<runtime, disk, loops>>
    BY <1>1 DEF Move, MovedTo, turnVars
  <2>2. SessionsOk(sessions, p) /\ LoopsOk(loops', runtime)
    BY <2>1 DEF RuntimeInv
  <2>3. current \in DOMAIN sessions => SessionOk(Close(sessions[current]), p)
    BY <2>2, Ops DEF SessionsOk
  <2>4. SessionOk(new, p)
    BY <1>1, Ops
  <2> HIDE DEF new, p
  <2>5. SessionsOk(old, p)
    BY <2>2, <2>3, SetOk
  <2> HIDE DEF old
  <2>6. SessionsOk(sessions', p)
    BY <2>1, <2>4, <2>5, AppendOk
  <2> QED BY <2>1, <2>2, <2>6, KeptInv DEF p
<1>2. CASE Type
  <2>1. UNCHANGED <<runtime, disk, loops, sessions>>
    BY <1>2 DEF Type, turnVars
  <2> QED BY <2>1, IdleInv
<1>3. CASE Reset
  <2>1. \E key : Move(NewSession(key, runtime))
    BY <1>3 DEF Reset
  <2> QED BY <1>1, <2>1, OpenedOk
<1>4. CASE Resume
  <2>1. \E key : Move(TakenOver(key))
    BY <1>4 DEF Resume
  <2>2. ASSUME NEW key
        PROVE  SessionOk(TakenOver(key), p)
    <3>1. SessionOk(NewSession(key, runtime), p)
      BY OpenedOk
    <3> QED BY <3>1 DEF TakenOver, SessionOk, SessionFields
  <2> QED BY <1>1, <2>1, <2>2
<1>5. CASE ChangeModel
  <2>1. PICK model \in Selection, persisted \in BOOLEAN :
          /\ disk' = [disk EXCEPT !.pointer = IF persisted THEN model ELSE @]
          /\ runtime' = ApplyConfig(runtime, [runtime.config EXCEPT !.model = model], disk)
    BY <1>5 DEF ChangeModel
  <2> DEFINE c == [runtime.config EXCEPT !.model = model]
  <2>2. ConfigOk(runtime.config)
    BY DEF RuntimeInv, RuntimeInForce
  <2>3. ConfigOk(c) /\ c.pipeline = runtime.config.pipeline
    BY <2>2 DEF ConfigOk, ConfigFields
  <2> HIDE DEF c
  <2>4. /\ RuntimeInForce(runtime') /\ SeatsMove(runtime, runtime')
        /\ runtime'.config = IF ApplyRaises(runtime, c) THEN runtime.config ELSE c
    BY <2>1, <2>3, ApplyInForce DEF RuntimeInv, c
  <2>5. UNCHANGED <<sessions, loops>>
    BY <1>5 DEF ChangeModel
  <2>6. SessionsOk(sessions', runtime'.config.pipeline)
    BY <2>3, <2>4, <2>5 DEF RuntimeInv
  <2>7. LoopsOk(loops', runtime')
    BY <2>4, <2>5, LoopsKeep DEF RuntimeInv, RuntimeInForce
  <2>8. DiskOk(disk')
    BY <2>1 DEF RuntimeInv, DiskOk
  <2> QED BY <2>4, <2>6, <2>7, <2>8 DEF RuntimeInv
<1>6. CASE EditFiles
  <2>1. DiskOk(disk')
    BY <1>6, EditOk DEF EditFiles, RuntimeInv
  <2>2. UNCHANGED <<runtime, sessions, loops>>
    BY <1>6 DEF EditFiles
  <2> QED BY <2>1, <2>2 DEF RuntimeInv
<1>7. CASE ReplRestart
  <2>1. DiskOk(disk') /\ RuntimeInForce(runtime') /\ LoopsOk(loops', runtime')
    BY <1>7, RestartedOk DEF ReplRestart
  <2>2. PICK key : sessions' = <<FirstSession(key, runtime')>>
    BY <1>7 DEF ReplRestart
  <2>3. SessionOk(FirstSession(key, runtime'), runtime'.config.pipeline)
    BY OpenedOk, SessionOps DEF FirstSession
  <2>4. SessionsOk(sessions', runtime'.config.pipeline)
    BY <2>2, <2>3 DEF SessionsOk, Elements
  <2> QED BY <2>1, <2>4 DEF RuntimeInv
<1> QED BY <1>2, <1>3, <1>4, <1>5, <1>6, <1>7, ReplTaskInv DEF ReplNext, ReplTask

(* Direct mode keeps its Session as long as the process lives.              *)
LEMMA TurnDomain ==
  ASSUME NEW m, TurnStep(m)
  PROVE  DOMAIN sessions' = DOMAIN sessions
<1>1. \E x : sessions' = [sessions EXCEPT ![calls[m].session] = x]
  BY DEF TurnStep, Acquire, ContinueArchive, BeginTurn, StreamEnds, StreamRaises, StartHandoff, TargetEnds,
         TargetCloses, UnwindHandoff, UnwindTurn, Set
<1> QED BY <1>1

LEMMA CurrentStep ==
  ASSUME RuntimeInv, CurrentInv, DirectNext
  PROVE  CurrentInv'
<1>1. CASE PeerWrites \/ (QueueExpires /\ UNCHANGED current) \/ RegisterDirect \/ \E m \in Messages : Reply(m)
  <2>1. UNCHANGED <<sessions, current>>
    BY <1>1 DEF PeerWrites, QueueExpires, RegisterDirect, Register, Reply, directVars
  <2> QED BY <2>1 DEF CurrentInv
<1>2. CASE PollDirect
  BY <1>2 DEF PollDirect, Notified, CurrentInv
<1>3. CASE DirectRestart
  BY <1>3 DEF DirectRestart, CurrentInv
<1>4. ASSUME NEW m \in Messages, HandleDirect(m)
      PROVE  CurrentInv'
  <2>1. PICK k, s : InSession(m, k, s) /\ (k \in DOMAIN sessions \/ k = Len(sessions) + 1)
    BY <1>4 DEF HandleDirect, CurrentInv
  <2>2. /\ sessions \in Seq(Elements(sessions)) /\ Len(sessions) \in Nat
        /\ DOMAIN sessions = 1..Len(sessions)
    BY DEF RuntimeInv, SessionsOk
  <2>3. CASE k \in DOMAIN sessions
    <3>1. ~(k > Len(sessions))
      BY <2>2, <2>3
    <3>2. sessions' = [sessions EXCEPT ![k] = Entered(s, m)] /\ current' = k
      BY <2>1, <3>1 DEF InSession
    <3> QED BY <2>3, <3>2 DEF CurrentInv
  <2>4. CASE k = Len(sessions) + 1
    <3> DEFINE S == Elements(sessions) \cup {Entered(s, m)}
    <3>1. sessions' = Append(sessions, Entered(s, m)) /\ current' = k
      <4>1. k > Len(sessions)
        BY <2>2, <2>4
      <4> QED BY <2>1, <4>1 DEF InSession
    <3>2. sessions \in Seq(S) /\ Entered(s, m) \in S
      BY <2>2
    <3> HIDE DEF S
    <3>3. DOMAIN sessions' = 1..(Len(sessions) + 1)
      BY <2>2, <3>1, <3>2
    <3> QED BY <2>2, <2>4, <3>1, <3>3 DEF CurrentInv
  <2> QED BY <2>1, <2>3, <2>4
<1>5. ASSUME NEW m, TurnStep(m), UNCHANGED directVars
      PROVE  CurrentInv'
  BY <1>5, TurnDomain DEF CurrentInv, directVars
<1> QED BY <1>1, <1>2, <1>3, <1>4, <1>5 DEF DirectNext

ProcessInv == RuntimeInv /\ (interface = "direct" => CurrentInv)

LEMMA ProcessInit == NoneIsDeclared /\ Init => ProcessInv
<1> SUFFICES ASSUME NoneIsDeclared, Init PROVE ProcessInv
  OBVIOUS
<1>1. DiskOk(disk) /\ disk.config = Startup
  BY RuntimeAssumption DEF Init, SharedInit, RuntimeInit, DiskOk
<1>2. ConfigOk(ConfigOf[Startup])
  <2> DEFINE d == [config |-> Startup, pointer |-> ConfigOf[Startup].model]
  <2>1. Startup \in DOMAIN Trees /\ ConfigOf[Startup].loads
    BY RuntimeAssumption DEF StartsUp
  <2>2. d.config = Startup
    OBVIOUS
  <2>3. ConfigOk(Loaded(d))
    BY <2>1, <2>2, LoadedOk
  <2>4. \E v : ConfigOk([ConfigOf[Startup] EXCEPT !.model = v])
    BY <2>2, <2>3 DEF Loaded
  <2>5. ConfigOf[Startup] = Typed(Trees[Startup], ResolveTiers(Trees[Startup]))
    BY <2>1 DEF ConfigOf
  <2>6. DOMAIN ConfigOf[Startup] = ConfigFields
    BY <2>5 DEF Typed, ConfigFields
  <2> QED BY <2>4, <2>6 DEF ConfigOk, ConfigFields
<1>3. RuntimeInForce(runtime)
  BY <1>2, StartInForce DEF Init, SharedInit, RuntimeInit
<1>4. LoopsOk(loops, runtime)
  BY <1>3, StartOk DEF Init, SharedInit, LoopsOk, RuntimeInForce, DeliveryBlocks
<1>5. SessionsOk(sessions, runtime.config.pipeline)
  <2>1. CASE interface = "repl"
    <3>1. PICK key : sessions = <<FirstSession(key, runtime)>>
      BY <2>1 DEF Init, ReplInit
    <3>2. SessionOk(FirstSession(key, runtime), runtime.config.pipeline)
      BY OpenedOk, SessionOps DEF FirstSession
    <3> QED BY <3>1, <3>2 DEF SessionsOk, Elements
  <2>2. CASE interface # "repl"
    BY <2>2, NoneOk DEF Init
  <2> QED BY <2>1, <2>2
<1>6. interface = "direct" => CurrentInv
  BY DEF Init, CurrentInv
<1> QED BY <1>1, <1>3, <1>4, <1>5, <1>6 DEF ProcessInv, RuntimeInv

LEMMA ProcessStep == NoneIsDeclared /\ ProcessInv /\ [Next]_vars => ProcessInv'
<1> SUFFICES ASSUME NoneIsDeclared, ProcessInv, [Next]_vars PROVE ProcessInv'
  OBVIOUS
<1>1. RuntimeInv
  BY DEF ProcessInv
<1>2. CASE interface = "zulip" /\ ZulipNext /\ interface' = interface
  BY <1>1, <1>2, ZulipInv DEF ProcessInv
<1>3. CASE interface = "direct" /\ DirectNext
  BY <1>1, <1>3, DirectInv, CurrentStep DEF ProcessInv
<1>4. CASE interface \in {"discord", "threads"} /\ DiscordNext /\ interface' = interface
  BY <1>1, <1>4, DiscordInv DEF ProcessInv
<1>5. CASE interface = "repl" /\ ReplNext /\ interface' = interface
  BY <1>1, <1>5, ReplInv DEF ProcessInv
<1>6. CASE Settled \/ UNCHANGED vars
  BY <1>6 DEF Settled, vars, sharedVars, ProcessInv, RuntimeInv, CurrentInv
<1> QED BY <1>2, <1>3, <1>4, <1>5, <1>6 DEF Next

(* After any sequence of edits, of reloads that are refused or fail half     *)
(* way, and of restarts, the Runtime of apply_config and the sessions follow *)
(* the config in force, if no config declares an injected tool as its own.   *)
THEOREM RuntimeIsInForce ==
  ASSUME NoneIsDeclared
  PROVE  Spec => []RuntimeFollowsConfig
<1>1. Init => ProcessInv
  BY ProcessInit
<1>2. ProcessInv /\ [Next]_vars => ProcessInv'
  BY ProcessStep
<1>3. ProcessInv => RuntimeFollowsConfig
  BY DEF ProcessInv, RuntimeInv, RuntimeInForce, RuntimeParts, RuntimeFollowsConfig, PlanHasItsTool, LoopsOk, LoopOk,
         SessionsOk, SessionOk, Seats, Served
<1> QED BY <1>1, <1>2, <1>3, PTL DEF Spec

(***************************************************************************)
(* The config in force: one that was loaded as a whole, whatever a reload  *)
(* does half way, and whatever the configs declare.                        *)
(***************************************************************************)
Whole(c) == \E k \in Configs \cup {Startup} : c = [ConfigOf[k] EXCEPT !.model = c.model]

WholeInv ==
  /\ DOMAIN disk = {"config", "pointer", "files", "access"} /\ disk.config \in Configs \cup {Startup}
  /\ DOMAIN runtime = RuntimeFields /\ Whole(runtime.source) /\ Whole(runtime.config)

(* What every operation of a reload leaves as it is.                        *)
Kept(rt, s) == DOMAIN s = RuntimeFields /\ s.source = rt.source /\ s.config = rt.config

LEMMA PartsKept ==
  ASSUME NEW rt, DOMAIN rt = RuntimeFields, NEW c, NEW d, NEW b
  PROVE  /\ Kept(rt, RebuildSkills(rt, c, d)) /\ Kept(rt, RescanSkills(rt, c, d))
         /\ \A v : Kept(rt, Seated(rt, b, v))
         /\ Kept(rt, Reseated(rt, c, b)) /\ Kept(rt, Retargeted(rt, c)) /\ Kept(rt, RegisterConfigTools(rt, c))
         /\ Kept(rt, InjectCompleteStep(rt, c)) /\ Kept(rt, WirePlanResolver(rt, c))
<1>1. \A v : /\ Kept(rt, [rt EXCEPT !.registry = v]) /\ Kept(rt, [rt EXCEPT !.signature = v])
             /\ Kept(rt, [rt EXCEPT !.provider = v]) /\ Kept(rt, [rt EXCEPT !.model = v])
  BY DEF Kept, RuntimeFields
<1>2. ASSUME NEW rt2, Kept(rt, rt2), NEW v
      PROVE  Kept(rt, [rt2 EXCEPT !.signature = v])
  BY <1>2 DEF Kept, RuntimeFields
<1>3. \A v, w : Kept(rt, [rt EXCEPT !.catalog = v, !.registry = w])
  BY DEF Kept, RuntimeFields
<1>4. Kept(rt, RebuildSkills(rt, c, d))
  BY <1>3 DEF RebuildSkills
<1>5. Kept(rt, RescanSkills(rt, c, d))
  <2>1. Kept(rt, rt)
    BY DEF Kept
  <2> QED BY <1>1, <1>2, <1>4, <2>1 DEF RescanSkills
<1>6. \A v : Kept(rt, Seated(rt, b, v))
  BY DEF Kept, Seated, RuntimeFields
<1>7. Kept(rt, Reseated(rt, c, b))
  BY <1>6 DEF Reseated, Kept, RuntimeFields
<1>8. Kept(rt, RegisterConfigTools(rt, c))
  BY DEF Kept, RegisterConfigTools, RuntimeFields
<1>9. Kept(rt, InjectCompleteStep(rt, c)) /\ Kept(rt, WirePlanResolver(rt, c)) /\ Kept(rt, Retargeted(rt, c))
  BY DEF Kept, InjectCompleteStep, WirePlanResolver, Retargeted, RuntimeFields
<1> QED BY <1>4, <1>5, <1>6, <1>7, <1>8, <1>9

LEMMA KeptOn ==
  ASSUME NEW rt, NEW s, Kept(rt, s), NEW t, DOMAIN s = RuntimeFields => Kept(s, t)
  PROVE  Kept(rt, t)
BY DEF Kept

(* The new config comes into force as a whole or not at all.                *)
LEMMA ApplyWhole ==
  ASSUME NEW rt, DOMAIN rt = RuntimeFields, NEW c, NEW d
  PROVE  LET s == ApplyConfig(rt, c, d)
         IN  DOMAIN s = RuntimeFields /\ s.source = rt.source /\ s.config \in {rt.config, c}
<1> DEFINE scanned   == RescanSkills(rt, c, d)
           reminded  == Reseated(scanned, c, "reminders")
           scheduled == Reseated(reminded, c, "schedules")
           old == rt.config
           called == Retargeted(scheduled, c)
           tools  == IF <<c.tools, c.failing>> = <<old.tools, old.failing>> THEN called
                     ELSE RegisterConfigTools(called, c)
           skills == IF <<c.skills, c.dirs, c.builtins>> = <<old.skills, old.dirs, old.builtins>> THEN tools
                     ELSE RebuildSkills(tools, c, d)
           wired  == WirePlanResolver(skills, c)
           piped  == IF c.pipeline = old.pipeline THEN skills ELSE InjectCompleteStep(wired, c)
           done == [piped EXCEPT !.config = c]
           s == ApplyConfig(rt, c, d)
<1>1. s = IF Raises(rt, c, "reminders") THEN scanned ELSE IF Raises(rt, c, "schedules") THEN reminded ELSE done
  BY DEF ApplyConfig
<1>2. Kept(rt, scanned)
  BY PartsKept
<1> HIDE DEF scanned
<1>3. Kept(rt, reminded)
  BY <1>2, KeptOn, PartsKept
<1> HIDE DEF reminded
<1>4. Kept(rt, scheduled)
  BY <1>3, KeptOn, PartsKept
<1> HIDE DEF scheduled
<1>5. Kept(rt, called)
  BY <1>4, KeptOn, PartsKept
<1> HIDE DEF called
<1>6. Kept(rt, tools)
  BY <1>5, KeptOn, PartsKept
<1> HIDE DEF tools
<1>7. Kept(rt, skills)
  BY <1>6, KeptOn, PartsKept
<1> HIDE DEF skills
<1>8. Kept(rt, wired)
  BY <1>7, KeptOn, PartsKept
<1> HIDE DEF wired
<1>9. Kept(rt, piped)
  BY <1>7, <1>8, KeptOn, PartsKept
<1> HIDE DEF piped
<1>10. DOMAIN done = RuntimeFields /\ done.source = rt.source /\ done.config = c
  BY <1>9 DEF Kept, RuntimeFields
<1> HIDE DEF done, s
<1> QED BY <1>1, <1>2, <1>3, <1>10 DEF Kept, s

LEMMA StartWhole ==
  ASSUME NEW c, NEW d
  PROVE  LET s == StartRuntime(c, d) IN DOMAIN s = RuntimeFields /\ s.source = c /\ s.config = c
<1> DEFINE new == NewRuntime(c)
           tools == RegisterConfigTools(new, c)
           injected == InjectCompleteStep(tools, c)
           filled == RebuildSkills(injected, c, d)
           skills == [filled EXCEPT !.signature = SeededSignature(c, d)]
           wired == WirePlanResolver(skills, c)
           seated == Seated(wired, "reminders", c.reminders)
           s == Seated(seated, "schedules", c.schedules)
<1>1. DOMAIN new = RuntimeFields /\ new.source = c /\ new.config = c
  BY DEF NewRuntime, RuntimeFields
<1> HIDE DEF new
<1>2. Kept(new, tools)
  BY <1>1, PartsKept
<1> HIDE DEF tools
<1>3. Kept(new, injected)
  BY <1>2, KeptOn, PartsKept
<1> HIDE DEF injected
<1>4. Kept(new, filled)
  BY <1>3, KeptOn, PartsKept
<1> HIDE DEF filled
<1>5. Kept(new, skills)
  BY <1>4 DEF Kept, RuntimeFields
<1> HIDE DEF skills
<1>6. Kept(new, wired)
  BY <1>5, KeptOn, PartsKept
<1> HIDE DEF wired
<1>7. Kept(new, seated)
  <2>1. DOMAIN wired = RuntimeFields
    BY <1>6 DEF Kept
  <2>2. Kept(wired, seated)
    BY <2>1, PartsKept
  <2> QED BY <1>6, <2>2, KeptOn
<1> HIDE DEF seated
<1>8. Kept(new, s)
  <2>1. DOMAIN seated = RuntimeFields
    BY <1>7 DEF Kept
  <2>2. Kept(seated, s)
    BY <2>1, PartsKept
  <2> QED BY <1>7, <2>2, KeptOn
<1>9. StartRuntime(c, d) = s
  BY DEF StartRuntime, SeatSchedules, new, tools, injected, filled, skills, wired, seated
<1> HIDE DEF s
<1> QED BY <1>1, <1>8, <1>9 DEF Kept

LEMMA ModelApart ==
  ASSUME NEW c, NEW v
  PROVE  /\ Whole(c) => Whole([c EXCEPT !.model = v])
         /\ \A k \in Configs \cup {Startup} : c = ConfigOf[k] => Whole([c EXCEPT !.model = v])
<1>1. ASSUME NEW f, c = [f EXCEPT !.model = c.model] \/ c = f
      PROVE  [c EXCEPT !.model = v] = [f EXCEPT !.model = [c EXCEPT !.model = v].model]
  <2>1. CASE "model" \in DOMAIN f
    BY <1>1, <2>1
  <2>2. CASE "model" \notin DOMAIN f
    BY <1>1, <2>2
  <2> QED BY <2>1, <2>2
<1> QED BY <1>1 DEF Whole

LEMMA LoadedWhole ==
  ASSUME NEW d, d.config \in Configs \cup {Startup}
  PROVE  Whole(Loaded(d))
BY ModelApart DEF Loaded

LEMMA ReloadedWhole ==
  ASSUME NEW rt, DOMAIN rt = RuntimeFields, Whole(rt.source), Whole(rt.config),
         NEW d, d.config \in Configs \cup {Startup}
  PROVE  LET r == Reload(rt, d)
             s == Reloaded(rt, d)
         IN  /\ DOMAIN r = RuntimeFields /\ Whole(r.source) /\ Whole(r.config)
             /\ DOMAIN s = RuntimeFields /\ Whole(s.source) /\ Whole(s.config)
<1> DEFINE r == Reload(rt, d)
           s == ApplyConfig(r, r.source, d)
<1>1. DOMAIN r = RuntimeFields /\ r.config = rt.config /\ r.source \in {rt.source, Loaded(d)}
  BY DEF Reload, RuntimeFields
<1>2. Whole(r.source) /\ Whole(r.config)
  BY <1>1, LoadedWhole
<1> HIDE DEF r
<1>3. DOMAIN s = RuntimeFields /\ s.source = r.source /\ s.config \in {r.config, r.source}
  BY <1>1, ApplyWhole
<1> HIDE DEF s
<1>4. Whole(s.source) /\ Whole(s.config)
  BY <1>2, <1>3
<1> QED BY <1>1, <1>2, <1>3, <1>4 DEF Reloaded, r, s

(* The files change by an edit, or a model command writes the pointer.      *)
DiskMoves == \/ Edits \/ EditConfig \/ EditSkills \/ ChangeAccess \/ UNCHANGED disk
             \/ \E x : disk' = [disk EXCEPT !.pointer = x]
RuntimeMoves ==
  \/ UNCHANGED runtime \/ runtime' = Reload(runtime, disk') \/ runtime' = Reloaded(runtime, disk')
  \/ \E x : runtime' = ApplyConfig(runtime, [runtime.config EXCEPT !.model = x], disk)
  \/ Restarted

LEMMA WholeStep ==
  ASSUME WholeInv, DiskMoves, RuntimeMoves
  PROVE  WholeInv'
<1>1. DOMAIN disk' = {"config", "pointer", "files", "access"} /\ disk'.config \in Configs \cup {Startup}
  BY DEF WholeInv, DiskMoves, Edits, EditConfig, EditSkills, ChangeAccess
<1>2. DOMAIN runtime' = RuntimeFields /\ Whole(runtime'.source) /\ Whole(runtime'.config)
  <2>1. CASE UNCHANGED runtime
    BY <2>1 DEF WholeInv
  <2>2. CASE runtime' = Reload(runtime, disk') \/ runtime' = Reloaded(runtime, disk')
    BY <1>1, <2>2, ReloadedWhole DEF WholeInv
  <2>3. ASSUME NEW x, runtime' = ApplyConfig(runtime, [runtime.config EXCEPT !.model = x], disk)
        PROVE  DOMAIN runtime' = RuntimeFields /\ Whole(runtime'.source) /\ Whole(runtime'.config)
    <3> DEFINE c == [runtime.config EXCEPT !.model = x]
    <3>1. Whole(c)
      BY ModelApart DEF WholeInv
    <3> HIDE DEF c
    <3>2. runtime' = ApplyConfig(runtime, c, disk)
      BY <2>3 DEF c
    <3> QED BY <3>1, <3>2, ApplyWhole DEF WholeInv
  <2>4. CASE Restarted
    BY <2>4, StartWhole, LoadedWhole DEF WholeInv, Restarted
  <2> QED BY <2>1, <2>2, <2>3, <2>4 DEF RuntimeMoves
<1> QED BY <1>1, <1>2 DEF WholeInv, Whole

(* Who reads the files, and when.                                           *)
Rests == UNCHANGED <<runtime, disk>>

LEMMA RestsMoves == (Rests => DiskMoves /\ RuntimeMoves) /\ (Restarted => DiskMoves /\ RuntimeMoves)
BY DEF Rests, DiskMoves, RuntimeMoves, Restarted

LEMMA ZulipReads ==
  ASSUME ZulipNext
  PROVE  DiskMoves /\ RuntimeMoves
<1>1. ASSUME NEW m, ZulipTask(m)
      PROVE  Rests
  <2>1. CASE Handle(m) \/ Restore(m) \/ Probe(m) \/ Place(m) \/ Turn(m)
    BY <2>1 DEF Handle, Restore, Probe, Place, Turn, turnVars, Rests
  <2>2. CASE Sync(m)
    BY <2>2 DEF Sync, Rests
  <2>3. CASE Delta(m) \/ Settle(m) \/ Deliver(m) \/ Unwind(m) \/ StopTopic(m)
    BY <2>3 DEF Delta, Settle, Deliver, Unwind, StopTopic, turnVars, Rests
  <2> QED BY <1>1, <2>1, <2>2, <2>3 DEF ZulipTask
<1>2. ASSUME NEW m, Sync(m) \/ EditLands(m)
      PROVE  Rests
  BY <1>2 DEF Sync, EditLands, Rests
<1>3. CASE UserWrites \/ StrangerWrites \/ QueueExpires \/ Register \/ Shutdown \/ CloseAll
  <2>1. Rests
    BY <1>3 DEF UserWrites, StrangerWrites, QueueExpires, Register, Shutdown, CloseAll, turnVars, Rests
  <2> QED BY <2>1, RestsMoves
<1>4. CASE Poll
  BY <1>4 DEF Poll, DiskMoves, RuntimeMoves
<1>5. CASE Restart
  BY <1>5, RestsMoves DEF Restart
<1> QED BY <1>1, <1>2, <1>3, <1>4, <1>5, RestsMoves DEF ZulipNext

LEMMA DirectReads ==
  ASSUME DirectNext
  PROVE  DiskMoves /\ RuntimeMoves
<1>1. CASE PeerWrites \/ QueueExpires \/ RegisterDirect \/ \E m \in Messages : HandleDirect(m) \/ Reply(m)
  <2>1. Rests
    BY <1>1 DEF PeerWrites, QueueExpires, RegisterDirect, Register, HandleDirect, Reply, turnVars, Rests
  <2> QED BY <2>1, RestsMoves
<1>2. CASE PollDirect
  BY <1>2 DEF PollDirect, DiskMoves, RuntimeMoves
<1>3. CASE DirectRestart
  BY <1>3, RestsMoves DEF DirectRestart
<1>4. CASE UNCHANGED turnVars
  BY <1>4, RestsMoves DEF turnVars, Rests
<1> QED BY <1>1, <1>2, <1>3, <1>4 DEF DirectNext

LEMMA DiscordReads ==
  ASSUME DiscordNext
  PROVE  DiskMoves /\ RuntimeMoves
<1>1. ASSUME NEW m, ModelCommand(m)
      PROVE  DiskMoves /\ RuntimeMoves
  BY <1>1 DEF ModelCommand, DiskMoves, RuntimeMoves
<1>2. ASSUME NEW m, DiscordTask(m)
      PROVE  DiskMoves /\ RuntimeMoves
  <2>1. CASE SyncBlock(m) \/ CreateThread(m)
    BY <2>1, RestsMoves DEF SyncBlock, CreateThread, turnVars, Rests
  <2>2. CASE SlashCommand(m)
    <3>1. UNCHANGED turnVars \/ ModelCommand(m)
      BY <2>2 DEF SlashCommand, StopCommand, ResetCommand, RouteToAgent, Acknowledged
    <3> QED BY <1>1, <3>1, RestsMoves DEF turnVars, Rests
  <2>3. CASE Starts(m)
    BY <1>1, <2>3, RestsMoves DEF Starts, turnVars, Rests
  <2>4. CASE PostPlaceholder(m) \/ TakeTurn(m) \/ AgentTurn(m) \/ Progress(m)
    BY <2>4, RestsMoves DEF PostPlaceholder, TakeTurn, AgentTurn, Progress, turnVars, Rests
  <2>5. CASE Answered(m) \/ ShowAnswer(m) \/ ShowError(m) \/ Unwinds(m) \/ FinalizeCancelled(m)
    BY <2>5, RestsMoves DEF Answered, ShowAnswer, ShowError, Unwinds, FinalizeCancelled, turnVars, Rests
  <2> QED BY <1>2, <2>1, <2>2, <2>3, <2>4, <2>5 DEF DiscordTask
<1>3. CASE Receive \/ ReceiveSlash \/ Overheard
  BY <1>3 DEF Receive, ReceiveSlash, Overheard, Handed, Denied, Unaddressed, DiskMoves, RuntimeMoves
<1>4. CASE DiscordRestart
  BY <1>4, RestsMoves DEF DiscordRestart
<1>5. ASSUME NEW m, EditLands(m)
      PROVE  DiskMoves /\ RuntimeMoves
  BY <1>5, RestsMoves DEF EditLands, Rests
<1> QED BY <1>2, <1>3, <1>4, <1>5 DEF DiscordNext

LEMMA ReplReads ==
  ASSUME ReplNext
  PROVE  DiskMoves /\ RuntimeMoves
<1>1. ASSUME NEW m, ReplTask(m)
      PROVE  Rests
  BY <1>1 DEF ReplTask, Enter, Interrupt, NeverStarts, TurnShown, turnVars, Rests
<1>2. CASE Type \/ Reset \/ Resume
  <2>1. Rests
    BY <1>2 DEF Type, Reset, Resume, Move, turnVars, Rests
  <2> QED BY <2>1, RestsMoves
<1>3. CASE ChangeModel
  <2>1. PICK model \in Selection, persisted \in BOOLEAN :
          /\ disk' = [disk EXCEPT !.pointer = IF persisted THEN model ELSE @]
          /\ runtime' = ApplyConfig(runtime, [runtime.config EXCEPT !.model = model], disk)
    BY <1>3 DEF ChangeModel
  <2> QED BY <2>1 DEF DiskMoves, RuntimeMoves
<1>4. CASE EditFiles
  BY <1>4 DEF EditFiles, DiskMoves, RuntimeMoves
<1>5. CASE ReplRestart
  BY <1>5, RestsMoves DEF ReplRestart
<1>6. ASSUME NEW m, TurnShown(m)
      PROVE  Rests
  BY <1>6 DEF TurnShown, turnVars, Rests
<1> QED BY <1>1, <1>2, <1>3, <1>4, <1>5, <1>6, RestsMoves DEF ReplNext

(* After any sequence of edits, of reloads that are refused or fail half    *)
(* way, of model commands and of restarts, what apply_config left in force  *)
(* is one config the files gave, the model apart, and never parts of two.   *)
THEOREM ConfigStaysWhole == Spec => []ConfigIsWhole
<1>1. Init => WholeInv
  <2> SUFFICES ASSUME Init PROVE WholeInv
    OBVIOUS
  <2>1. disk = [config |-> Startup, pointer |-> "none", files |-> Skills, access |-> "open"]
    BY DEF Init, SharedInit, RuntimeInit
  <2>2. runtime = StartRuntime(ConfigOf[Startup], disk)
    BY DEF Init, SharedInit, RuntimeInit
  <2>3. DOMAIN runtime = RuntimeFields /\ runtime.source = ConfigOf[Startup] /\ runtime.config = ConfigOf[Startup]
    BY <2>2, StartWhole
  <2>4. Whole(ConfigOf[Startup])
    <3>1. ConfigOf[Startup] = Typed(Trees[Startup], ResolveTiers(Trees[Startup]))
      BY RuntimeAssumption DEF StartsUp, ConfigOf
    <3>2. ConfigOf[Startup] = [ConfigOf[Startup] EXCEPT !.model = ConfigOf[Startup].model]
      BY <3>1 DEF Typed
    <3> QED BY <3>2 DEF Whole
  <2> QED BY <2>1, <2>3, <2>4 DEF WholeInv
<1>2. WholeInv /\ [Next]_vars => WholeInv'
  <2>1. ASSUME WholeInv, DiskMoves, RuntimeMoves
        PROVE  WholeInv'
    BY <2>1, WholeStep
  <2>2. Next \/ UNCHANGED vars => DiskMoves /\ RuntimeMoves
    BY ZulipReads, DirectReads, DiscordReads, ReplReads, RestsMoves DEF Next, Settled, vars, sharedVars, Rests
  <2> QED BY <2>1, <2>2
<1>3. WholeInv => ConfigIsWhole
  BY DEF WholeInv, Whole, ConfigIsWhole
<1> QED BY <1>1, <1>2, <1>3, PTL DEF Spec

(***************************************************************************)
(* What the chat shows of a call: an edit is pending only while text may   *)
(* still stream, and never where the answer or the reply already stands.   *)
(***************************************************************************)
CallFields ==
  {"pc", "place", "kind", "session", "cancelled", "outcome", "shown", "edit", "block", "prev", "batch", "slash"}

CallOk(c) ==
  /\ DOMAIN c = CallFields /\ c.outcome \notin {"progress", "stopped"}
  /\ c.shown = "answer" \/ c.pc = "delivering" \/ interface \in {"direct", "repl"} => ~c.edit
CallsOk == DOMAIN calls = Messages /\ \A m \in Messages : CallOk(calls[m])

AnswersKept == \A m \in Messages : calls[m].shown = "answer" => calls'[m].shown # "progress"

LEMMA NoCallOk == CallOk(NoCall)
BY DEF CallOk, CallFields, NoCall

(* One call changes, the others stay.                                       *)
LEMMA OneChanges ==
  ASSUME CallsOk, UNCHANGED interface, NEW m, NEW c, calls' = [calls EXCEPT ![m] = c],
         m \in Messages => CallOk(c) /\ (calls[m].shown = "answer" => c.shown # "progress")
  PROVE  CallsOk' /\ AnswersKept
BY DEF CallsOk, CallOk, AnswersKept

(* Every call changes at once.                                              *)
LEMMA AllChange ==
  ASSUME CallsOk, UNCHANGED interface, DOMAIN calls' = Messages,
         \A m \in Messages : CallOk(calls'[m]) /\ (calls[m].shown = "answer" => calls'[m].shown # "progress")
  PROVE  CallsOk' /\ AnswersKept
BY DEF CallsOk, CallOk, AnswersKept

LEMMA SameCalls ==
  ASSUME CallsOk, UNCHANGED <<interface, calls>>
  PROVE  CallsOk' /\ AnswersKept
BY DEF CallsOk, CallOk, AnswersKept

LEMMA EndedOk ==
  ASSUME NEW c, CallOk(c), NEW pc, pc # "delivering"
  PROVE  CallOk(Ended(c, pc)) /\ Ended(c, pc).shown = c.shown /\ (~c.edit => ~Ended(c, pc).edit)
BY DEF CallOk, CallFields, Ended, NoCall

(* A turn, its model and its hand-off leave to the interface what is shown. *)
LEMMA TurnCalls ==
  ASSUME CallsOk, UNCHANGED interface, NEW m, TurnStep(m)
  PROVE  CallsOk' /\ AnswersKept
<1> USE DEF CallsOk, CallOk, CallFields, AnswersKept
<1>1. CASE Acquire(m) \/ ContinueArchive(m) \/ BeginTurn(m) \/ StartHandoff(m) \/ TargetEnds(m) \/ TargetCloses(m)
           \/ UnwindHandoff(m)
  <2>1. \E pc : pc # "delivering" /\ calls' = [calls EXCEPT ![m].pc = pc]
    BY <1>1 DEF Acquire, ContinueArchive, BeginTurn, StartHandoff, TargetEnds, TargetCloses, UnwindHandoff, Goto
  <2> QED BY <2>1
<1>2. CASE StreamEnds(m) \/ StreamRaises(m) \/ UnwindTurn(m)
  <2>1. PICK out \in {"answer", "error", "cancelled"} : calls' = [calls EXCEPT ![m] = [@ EXCEPT !.pc = "left", !.outcome = out]]
    BY <1>2 DEF StreamEnds, StreamRaises, UnwindTurn
  <2> QED BY <2>1
<1> QED BY <1>1, <1>2 DEF TurnStep

LEMMA LandCalls ==
  ASSUME CallsOk, UNCHANGED interface, NEW m \in Messages, EditLands(m)
  PROVE  CallsOk' /\ AnswersKept
BY DEF EditLands, CallsOk, CallOk, CallFields, AnswersKept

LEMMA RestartCalls ==
  ASSUME CallsOk, UNCHANGED interface, calls' = Lost
  PROVE  CallsOk' /\ AnswersKept
<1>1. \A m \in Messages : CallOk(Ended(calls[m], "lost")) /\ Ended(calls[m], "lost").shown = calls[m].shown
  BY EndedOk DEF CallsOk
<1>2. \A m \in Messages :
        \/ calls'[m] = calls[m]
        \/ calls[m].pc = "done" /\ calls'[m] = [calls[m] EXCEPT !.edit = FALSE]
        \/ calls'[m] = Ended(calls[m], "lost")
  BY DEF Lost
<1> QED BY <1>1, <1>2 DEF Lost, CallsOk, CallOk, CallFields, AnswersKept

LEMMA ZulipCalls ==
  ASSUME CallsOk, interface = "zulip", UNCHANGED interface, ZulipNext
  PROVE  CallsOk' /\ AnswersKept
<1>1. CASE StrangerWrites \/ Register \/ CloseAll
  <2>1. calls' = calls
    BY <1>1 DEF StrangerWrites, Register, CloseAll
  <2> QED BY <2>1, SameCalls
<1>2. CASE UserWrites
  <2>1. PICK topic, kind :
          calls' = [calls EXCEPT ![Min(Unsent)] = [NoCall EXCEPT !.pc = Written, !.place = topic, !.kind = kind]]
    BY <1>2 DEF UserWrites
  <2>2. \A t, d : CallOk([NoCall EXCEPT !.pc = Written, !.place = t, !.kind = d])
    BY DEF NoCall, CallOk, CallFields, Written
  <2>3. \A t, d : [NoCall EXCEPT !.pc = Written, !.place = t, !.kind = d].shown = "nothing"
    BY DEF NoCall
  <2> QED BY <2>1, <2>2, <2>3, OneChanges
<1>3. CASE Poll \/ QueueExpires
  <2>1. /\ DOMAIN calls' = Messages
        /\ \A m \in Messages : \/ calls'[m] = calls[m]
                               \/ calls'[m] = Ended(calls[m], "lost")
                               \/ calls'[m] = Dispatch(m)
    BY <1>3 DEF Poll, QueueExpires
  <2>2. \A m \in Messages : CallOk(Ended(calls[m], "lost")) /\ Ended(calls[m], "lost").shown = calls[m].shown
    BY EndedOk DEF CallsOk
  <2>3. \A m \in Messages : CallOk(Dispatch(m)) /\ Dispatch(m).shown = calls[m].shown
    BY DEF Dispatch, CallsOk, CallOk, CallFields
  <2> QED BY <2>1, <2>2, <2>3, AllChange DEF CallsOk
<1>4. CASE Shutdown
  <2>1. \E ms : calls' = Cancel(ms)
    BY <1>4 DEF Shutdown
  <2> QED BY <2>1 DEF Cancel, CallsOk, CallOk, CallFields, AnswersKept
<1>5. CASE Restart
  BY <1>5, RestartCalls DEF Restart, Restarted
<1>6. ASSUME NEW m \in Messages, ZulipTask(m) \/ Sync(m)
      PROVE  CallsOk' /\ AnswersKept
  <2>1. CASE Handle(m) \/ Restore(m) \/ Probe(m) \/ Unwind(m)
    <3>1. \/ \E pc, k : pc # "delivering" /\ calls' = [calls EXCEPT ![m] = [@ EXCEPT !.pc = pc, !.session = k]]
          \/ \E pc : pc # "delivering" /\ calls' = [calls EXCEPT ![m].pc = pc]
          \/ calls' = [calls EXCEPT ![m] = Finish(calls[m])]
      BY <2>1 DEF Handle, Restore, Probe, Unwind, Adopt, Ends, Goto
    <3>2. CallOk(Finish(calls[m])) /\ Finish(calls[m]).shown = calls[m].shown
      BY EndedOk DEF Finish, CallsOk
    <3>3. CASE calls' = [calls EXCEPT ![m] = Finish(calls[m])]
      BY <3>2, <3>3, OneChanges
    <3>4. ASSUME NEW pc, pc # "delivering", NEW k, calls' = [calls EXCEPT ![m] = [@ EXCEPT !.pc = pc, !.session = k]]
          PROVE  CallsOk' /\ AnswersKept
      BY <3>4 DEF CallsOk, CallOk, CallFields, AnswersKept
    <3>5. ASSUME NEW pc, pc # "delivering", calls' = [calls EXCEPT ![m].pc = pc]
          PROVE  CallsOk' /\ AnswersKept
      BY <3>5 DEF CallsOk, CallOk, CallFields, AnswersKept
    <3> QED BY <3>1, <3>3, <3>4, <3>5
  <2>2. CASE Sync(m)
    <3>1. \/ calls' = [calls EXCEPT ![m].pc = "placing"]
          \/ calls' = [calls EXCEPT ![m].pc = "stopping"]
          \/ calls' = [calls EXCEPT ![m] = [@ EXCEPT !.pc = "placing", !.cancelled = FALSE]]
      BY <2>2 DEF Sync, SyncNow, SyncStops, SyncStopped, Goto
    <3>2. ASSUME NEW pc \in {"placing", "stopping"}, calls' = [calls EXCEPT ![m].pc = pc]
          PROVE  CallsOk' /\ AnswersKept
      BY <3>2 DEF CallsOk, CallOk, CallFields, AnswersKept
    <3>3. CASE calls' = [calls EXCEPT ![m] = [@ EXCEPT !.pc = "placing", !.cancelled = FALSE]]
      BY <3>3 DEF CallsOk, CallOk, CallFields, AnswersKept
    <3> QED BY <3>1, <3>2, <3>3
  <2>3. CASE Place(m)
    <3>1. \E shown \in {"thinking", "nothing"} :
            calls' = [calls EXCEPT ![m] = [@ EXCEPT !.pc = "waiting", !.session = owned[calls[m].place], !.shown = shown]]
      BY <2>3 DEF Place
    <3> QED BY <3>1 DEF CallsOk, CallOk, CallFields, AnswersKept
  <2>4. CASE Turn(m)
    BY <2>4, TurnCalls DEF Turn
  <2>5. CASE Delta(m)
    <3>1. calls' = [calls EXCEPT ![m].edit = TRUE] /\ calls[m].pc = "streaming" /\ calls[m].shown = "thinking"
      BY <2>5 DEF Delta, At
    <3> QED BY <3>1 DEF CallsOk, CallOk, CallFields, AnswersKept
  <2>6. CASE Settle(m)
    <3>1. CallOk(EditDropped(calls[m])) /\ EditDropped(calls[m]).shown = calls[m].shown /\ ~EditDropped(calls[m]).edit
      BY DEF CallsOk, CallOk, CallFields, EditDropped
    <3>2. CallOk(Finish(EditDropped(calls[m]))) /\ Finish(EditDropped(calls[m])).shown = calls[m].shown
      BY <3>1, EndedOk DEF Finish
    <3>3. \/ calls' = [calls EXCEPT ![m] = Finish(EditDropped(@))]
          \/ calls' = [calls EXCEPT ![m] = [EditDropped(@) EXCEPT !.pc = "delivering"]]
      BY <2>6 DEF Settle
    <3> QED BY <3>1, <3>2, <3>3 DEF CallsOk, CallOk, CallFields, AnswersKept
  <2>7. CASE Deliver(m)
    <3>1. /\ calls' = [calls EXCEPT ![m] = [Finish(@) EXCEPT !.shown = calls[m].outcome]]
          /\ ~calls[m].edit
      BY <2>7 DEF Deliver, At, CallsOk, CallOk
    <3>2. CallOk(Finish(calls[m])) /\ ~Finish(calls[m]).edit
      BY <3>1, EndedOk DEF Finish, CallsOk
    <3> QED BY <3>1, <3>2 DEF CallsOk, CallOk, CallFields, AnswersKept
  <2>8. CASE StopTopic(m)
    <3>1. \/ calls' = [calls EXCEPT ![m] = Replied(calls[m])]
          \/ \E ms : calls' = [Cancel(ms) EXCEPT ![m] = Replied([calls[m] EXCEPT !.cancelled = @ \/ m \in ms])]
      BY <2>8 DEF StopTopic, Cancel
    <3>2. \A ms, n : CallOk(calls[n]) => CallOk([calls[n] EXCEPT !.cancelled = @ \/ n \in ms])
      BY DEF CallOk, CallFields
    <3>3. \A c : CallOk(c) => CallOk(Finish(c))
      BY EndedOk DEF Finish
    <3>4. \A c : CallOk(c) => CallOk(Replied(c)) /\ Replied(c).shown = "stopped"
      BY <3>3 DEF Replied, CallOk, CallFields
    <3>5. CASE calls' = [calls EXCEPT ![m] = Replied(calls[m])]
      BY <3>4, <3>5, OneChanges DEF CallsOk
    <3>6. ASSUME NEW ms, calls' = [Cancel(ms) EXCEPT ![m] = Replied([calls[m] EXCEPT !.cancelled = @ \/ m \in ms])]
          PROVE  CallsOk' /\ AnswersKept
      <4> DEFINE can(n) == [calls[n] EXCEPT !.cancelled = @ \/ n \in ms]
      <4>1. \A n \in Messages : CallOk(can(n)) /\ can(n).shown = calls[n].shown
        BY <3>2 DEF CallsOk, CallOk, CallFields
      <4>2. calls' = [[n \in Messages |-> can(n)] EXCEPT ![m] = Replied(can(m))]
        BY <3>6 DEF Cancel
      <4> HIDE DEF can
      <4>3. DOMAIN calls' = Messages /\ \A n \in Messages : calls'[n] = IF n = m THEN Replied(can(m)) ELSE can(n)
        BY <4>2
      <4>4. \A n \in Messages : CallOk(calls'[n]) /\ (calls[n].shown = "answer" => calls'[n].shown # "progress")
        BY <3>4, <4>1, <4>3
      <4> QED BY <4>3, <4>4, AllChange
    <3> QED BY <3>1, <3>5, <3>6
  <2> QED BY <1>6, <2>1, <2>2, <2>3, <2>4, <2>5, <2>6, <2>7, <2>8 DEF ZulipTask
<1>7. ASSUME NEW m \in Messages, EditLands(m)
      PROVE  CallsOk' /\ AnswersKept
  BY <1>7, LandCalls
<1> QED BY <1>1, <1>2, <1>3, <1>4, <1>5, <1>6, <1>7 DEF ZulipNext, ZulipRunsOn

LEMMA DirectCalls ==
  ASSUME CallsOk, interface = "direct", UNCHANGED interface, DirectNext
  PROVE  CallsOk' /\ AnswersKept
<1>1. CASE RegisterDirect
  <2>1. calls' = calls
    BY <1>1 DEF RegisterDirect, Register
  <2> QED BY <2>1, SameCalls
<1>2. CASE PeerWrites
  <2>1. PICK peer : calls' = [calls EXCEPT ![Min(Unsent)] = [NoCall EXCEPT !.pc = Written, !.place = peer]]
    BY <1>2 DEF PeerWrites
  <2>2. \A t : CallOk([NoCall EXCEPT !.pc = Written, !.place = t])
    BY DEF NoCall, CallOk, CallFields, Written
  <2>3. \A t : [NoCall EXCEPT !.pc = Written, !.place = t].shown = "nothing"
    BY DEF NoCall
  <2> QED BY <2>1, <2>2, <2>3, OneChanges
<1>3. CASE PollDirect \/ QueueExpires
  <2>1. /\ DOMAIN calls' = Messages
        /\ \A m \in Messages : \/ calls'[m] = calls[m]
                               \/ calls'[m] = Ended(calls[m], "lost")
                               \/ calls'[m] = [calls[m] EXCEPT !.pc = "queued"]
    BY <1>3 DEF PollDirect, QueueExpires
  <2>2. \A m \in Messages : CallOk(Ended(calls[m], "lost")) /\ Ended(calls[m], "lost").shown = calls[m].shown
    BY EndedOk DEF CallsOk
  <2>3. \A m \in Messages : LET c == [calls[m] EXCEPT !.pc = "queued"] IN CallOk(c) /\ c.shown = calls[m].shown
    BY DEF CallsOk, CallOk, CallFields
  <2> QED BY <2>1, <2>2, <2>3, AllChange DEF CallsOk
<1>4. CASE DirectRestart
  BY <1>4, RestartCalls DEF DirectRestart, Restarted
<1>5. ASSUME NEW m \in Messages, HandleDirect(m)
      PROVE  CallsOk' /\ AnswersKept
  <2>1. \E k : calls' = [calls EXCEPT ![m] = [@ EXCEPT !.pc = "waiting", !.session = k]]
    BY <1>5 DEF HandleDirect, InSession
  <2> QED BY <2>1 DEF CallsOk, CallOk, CallFields, AnswersKept
<1>6. ASSUME NEW m \in Messages, Reply(m)
      PROVE  CallsOk' /\ AnswersKept
  <2>1. \E shown \in {"answer", "nothing"} : calls' = [calls EXCEPT ![m] = [Finish(calls[m]) EXCEPT !.shown = shown]]
    BY <1>6 DEF Reply
  <2>2. CallOk(Finish(calls[m])) /\ ~Finish(calls[m]).edit
    BY EndedOk DEF Finish, CallsOk, CallOk
  <2>3. \A shown \in {"answer", "nothing"} : CallOk([Finish(calls[m]) EXCEPT !.shown = shown])
    BY <2>2 DEF CallOk, CallFields
  <2>4. \A shown \in {"answer", "nothing"} : [Finish(calls[m]) EXCEPT !.shown = shown].shown = shown
    BY <2>2 DEF CallOk, CallFields
  <2> QED BY <2>1, <2>3, <2>4, OneChanges
<1>7. ASSUME NEW m, TurnStep(m)
      PROVE  CallsOk' /\ AnswersKept
  BY <1>7, TurnCalls
<1> QED BY <1>1, <1>2, <1>3, <1>4, <1>5, <1>6, <1>7 DEF DirectNext

LEMMA ReplCalls ==
  ASSUME CallsOk, interface = "repl", UNCHANGED interface, ReplNext
  PROVE  CallsOk' /\ AnswersKept
<1>1. CASE Reset \/ Resume \/ ChangeModel \/ EditFiles
  <2>1. calls' = calls
    BY <1>1 DEF Reset, Resume, Move, ChangeModel, EditFiles
  <2> QED BY <2>1, SameCalls
<1>2. CASE Type
  <2> DEFINE c == [NoCall EXCEPT !.pc = "starting", !.place = Key, !.session = current]
  <2>1. calls' = [calls EXCEPT ![Min(Unsent)] = c]
    BY <1>2 DEF Type
  <2>2. CallOk(c) /\ c.shown = "nothing"
    BY DEF NoCall, CallOk, CallFields
  <2> QED BY <2>1, <2>2, OneChanges
<1>3. CASE ReplRestart
  BY <1>3, RestartCalls DEF ReplRestart, Restarted
<1>4. ASSUME NEW m \in Messages, Enter(m) \/ Interrupt(m)
      PROVE  CallsOk' /\ AnswersKept
  <2>1. \/ calls' = calls
        \/ calls' = [calls EXCEPT ![m].pc = "waiting"]
        \/ calls' = [calls EXCEPT ![m].cancelled = TRUE]
    BY <1>4 DEF Enter, Interrupt, Goto
  <2> QED BY <2>1 DEF CallsOk, CallOk, CallFields, AnswersKept
<1>5. ASSUME NEW m \in Messages, NeverStarts(m) \/ TurnShown(m)
      PROVE  CallsOk' /\ AnswersKept
  <2>1. \E shown : shown # "progress" /\ calls' = [calls EXCEPT ![m] = [Finish(calls[m]) EXCEPT !.shown = shown]]
    BY <1>5 DEF NeverStarts, TurnShown, CallsOk, CallOk
  <2>2. CallOk(Finish(calls[m])) /\ ~Finish(calls[m]).edit
    BY EndedOk DEF Finish, CallsOk, CallOk
  <2>3. \A shown : LET c == [Finish(calls[m]) EXCEPT !.shown = shown] IN CallOk(c) /\ c.shown = shown
    BY <2>2 DEF CallOk, CallFields
  <2> QED BY <2>1, <2>3, OneChanges
<1>6. ASSUME NEW m, TurnStep(m)
      PROVE  CallsOk' /\ AnswersKept
  BY <1>6, TurnCalls
<1> QED BY <1>1, <1>2, <1>3, <1>4, <1>5, <1>6 DEF ReplNext, ReplTask

LEMMA DiscordCalls ==
  ASSUME CallsOk, interface \in {"discord", "threads"}, UNCHANGED interface, DiscordNext
  PROVE  CallsOk' /\ AnswersKept
<1>1. CASE Receive \/ ReceiveSlash
  <2>1. PICK t, kind, slash : Handed(t, kind, slash)
    BY <1>1 DEF Receive, ReceiveSlash
  <2> DEFINE c == [NoCall EXCEPT !.place = t, !.kind = kind, !.slash = slash,
                                 !.pc = IF ReloadRaises(disk') THEN "lost" ELSE "syncing"]
  <2>2. calls' = [calls EXCEPT ![Min(Unsent)] = c]
    BY <2>1 DEF Handed
  <2>3. CallOk(c) /\ c.shown = "nothing"
    BY DEF NoCall, CallOk, CallFields
  <2> HIDE DEF c
  <2> QED BY <2>2, <2>3, OneChanges
<1>0. CASE Overheard
  <2>1. PICK t : calls' = [calls EXCEPT ![Min(Unsent)] = [NoCall EXCEPT !.pc = "done", !.place = t]]
    BY <1>0 DEF Overheard
  <2>2. CallOk([NoCall EXCEPT !.pc = "done", !.place = t]) /\ [NoCall EXCEPT !.pc = "done", !.place = t].shown = "nothing"
    BY DEF NoCall, CallOk, CallFields
  <2> QED BY <2>1, <2>2, OneChanges
<1>2. CASE DiscordRestart
  BY <1>2, RestartCalls DEF DiscordRestart, Restarted
<1>3. ASSUME NEW m \in Messages, DiscordTask(m)
      PROVE  CallsOk' /\ AnswersKept
  <2>0. CallOk(Finish(calls[m])) /\ Finish(calls[m]).shown = calls[m].shown /\ (~calls[m].edit => ~Finish(calls[m]).edit)
    BY EndedOk DEF Finish, CallsOk
  <2>1. CASE SyncBlock(m)
    <3>1. \/ calls' = [calls EXCEPT ![m].pc = "stopping"]
          \/ calls' = [calls EXCEPT ![m] = [@ EXCEPT !.block = IF calls[m].block = 2 THEN calls[m].block ELSE calls[m].block + 1,
                                    !.pc = IF calls[m].block = 2 THEN TargetFirst(m) ELSE "syncing"]]
      BY <2>1 DEF SyncBlock, SyncNow, SyncStops, SyncStopped, Goto
    <3>2. CASE calls' = [calls EXCEPT ![m].pc = "stopping"]
      BY <3>2 DEF CallsOk, CallOk, CallFields, AnswersKept
    <3>3. ASSUME NEW b, NEW pc, pc # "delivering", calls' = [calls EXCEPT ![m] = [@ EXCEPT !.block = b, !.pc = pc]]
          PROVE  CallsOk' /\ AnswersKept
      BY <3>3 DEF CallsOk, CallOk, CallFields, AnswersKept
    <3>4. (IF calls[m].block = 2 THEN TargetFirst(m) ELSE "syncing") # "delivering"
      BY DEF TargetFirst
    <3> QED BY <3>1, <3>2, <3>3, <3>4
  <2>2. CASE CreateThread(m)
    <3>1. \/ calls' = [calls EXCEPT ![m].pc = "routing"]
          \/ \E t : calls' = [calls EXCEPT ![m] = [@ EXCEPT !.pc = "routing", !.place = t]]
      BY <2>2 DEF CreateThread, Goto
    <3>2. CASE calls' = [calls EXCEPT ![m].pc = "routing"]
      BY <3>2 DEF CallsOk, CallOk, CallFields, AnswersKept
    <3>3. ASSUME NEW t, calls' = [calls EXCEPT ![m] = [@ EXCEPT !.pc = "routing", !.place = t]]
          PROVE  CallsOk' /\ AnswersKept
      BY <3>3 DEF CallsOk, CallOk, CallFields, AnswersKept
    <3> QED BY <3>1, <3>2, <3>3
  <2>3. CASE StopCommand(m)
    <3> DEFINE can(n, b) == [calls[n] EXCEPT !.cancelled = b]
    <3>1. /\ DOMAIN calls' = Messages
          /\ \A n \in Messages : calls'[n] = Finish(calls[n]) \/ \E b : calls'[n] = can(n, b)
      BY <2>3 DEF StopCommand
    <3>2. \A n \in Messages : CallOk(Finish(calls[n])) /\ Finish(calls[n]).shown = calls[n].shown
      BY EndedOk DEF Finish, CallsOk
    <3>3. \A n \in Messages : \A b : CallOk(can(n, b)) /\ can(n, b).shown = calls[n].shown
      BY DEF CallsOk, CallOk, CallFields
    <3> HIDE DEF can
    <3>4. \A n \in Messages : CallOk(calls'[n]) /\ calls'[n].shown = calls[n].shown
      BY <3>1, <3>2, <3>3
    <3> QED BY <3>1, <3>4, AllChange
  <2>4. CASE ResetCommand(m) \/ ModelCommand(m)
    <3>1. calls' = [calls EXCEPT ![m] = Finish(calls[m])]
      BY <2>4 DEF ResetCommand, ModelCommand
    <3> QED BY <2>0, <3>1, OneChanges
  <2>5. CASE RouteToAgent(m) \/ Acknowledged(m) \/ Starts(m)
    <3>1. \/ calls' = [calls EXCEPT ![m] = Finish(calls[m])]
          \/ \E pc \in {"anchoring", "starting", "placing"} : calls' = [calls EXCEPT ![m].pc = pc]
      BY <2>5 DEF RouteToAgent, Acknowledged, Starts, Runs, Acknowledge, RunAgent, Goto
    <3>2. CASE calls' = [calls EXCEPT ![m] = Finish(calls[m])]
      BY <2>0, <3>2, OneChanges
    <3>3. CASE \E pc \in {"anchoring", "starting", "placing"} : calls' = [calls EXCEPT ![m].pc = pc]
      BY <3>3 DEF CallsOk, CallOk, CallFields, AnswersKept
    <3> QED BY <3>1, <3>2, <3>3
  <2>6. CASE PostPlaceholder(m) \/ TakeTurn(m)
    <3>1. \/ \E shown \in {"thinking", "nothing"} : calls' = [calls EXCEPT ![m] = [@ EXCEPT !.pc = "locking", !.shown = shown]]
          \/ \E k : calls' = [calls EXCEPT ![m] = [@ EXCEPT !.pc = "waiting", !.session = k]]
      BY <2>6 DEF PostPlaceholder, TakeTurn
    <3>2. ASSUME NEW shown \in {"thinking", "nothing"}, calls' = [calls EXCEPT ![m] = [@ EXCEPT !.pc = "locking", !.shown = shown]]
          PROVE  CallsOk' /\ AnswersKept
      BY <2>6, <3>2 DEF PostPlaceholder, TakeTurn, At, CallsOk, CallOk, CallFields, AnswersKept
    <3>3. ASSUME NEW k, calls' = [calls EXCEPT ![m] = [@ EXCEPT !.pc = "waiting", !.session = k]]
          PROVE  CallsOk' /\ AnswersKept
      BY <3>3 DEF CallsOk, CallOk, CallFields, AnswersKept
    <3> QED BY <3>1, <3>2, <3>3
  <2>7. CASE AgentTurn(m)
    BY <2>7, TurnCalls DEF AgentTurn
  <2>8. CASE Progress(m) \/ Answered(m) \/ Unwinds(m)
    <3>1. \/ calls' = [NoEdit EXCEPT ![m].edit = TRUE] /\ calls[m].pc = "streaming" /\ calls[m].shown = "thinking"
          \/ calls' = [NoEdit EXCEPT ![m].pc = "delivering"]
          \/ \E p : calls' = [NoEdit EXCEPT ![m] = [@ EXCEPT !.pc = "finalizing", !.cancelled = FALSE, !.prev = p]]
      BY <2>8 DEF Progress, Answered, Unwinds, At
    <3>2. /\ DOMAIN NoEdit = Messages
          /\ \A n \in Messages : /\ DOMAIN NoEdit[n] = CallFields /\ ~NoEdit[n].edit
                                 /\ \A f \in CallFields \ {"edit"} : NoEdit[n][f] = calls[n][f]
      BY DEF NoEdit, CallsOk, CallOk, CallFields
    <3>3. ASSUME NEW x, DOMAIN x = CallFields, x.outcome = calls[m].outcome, x.shown = calls[m].shown,
                 ~x.edit \/ (x.shown = "thinking" /\ x.pc = "streaming" /\ interface \notin {"direct", "repl"}),
                 calls' = [NoEdit EXCEPT ![m] = x]
          PROVE  CallsOk' /\ AnswersKept
      BY <3>2, <3>3 DEF CallsOk, CallOk, CallFields, AnswersKept
    <3> DEFINE old == NoEdit[m]
    <3>4. DOMAIN old = CallFields /\ ~old.edit /\ old.outcome = calls[m].outcome /\ old.shown = calls[m].shown /\ old.pc = calls[m].pc
      BY <3>2 DEF CallFields
    <3> HIDE DEF old
    <3>5. \/ /\ calls[m].pc = "streaming" /\ calls[m].shown = "thinking"
             /\ calls' = [NoEdit EXCEPT ![m] = [old EXCEPT !.edit = TRUE]]
          \/ calls' = [NoEdit EXCEPT ![m] = [old EXCEPT !.pc = "delivering"]]
          \/ \E p : calls' = [NoEdit EXCEPT ![m] = [old EXCEPT !.pc = "finalizing", !.cancelled = FALSE, !.prev = p]]
      BY <3>1 DEF old
    <3>6. CASE /\ calls[m].pc = "streaming" /\ calls[m].shown = "thinking"
               /\ calls' = [NoEdit EXCEPT ![m] = [old EXCEPT !.edit = TRUE]]
      BY <3>3, <3>4, <3>6 DEF CallFields
    <3>7. CASE calls' = [NoEdit EXCEPT ![m] = [old EXCEPT !.pc = "delivering"]]
      BY <3>3, <3>4, <3>7 DEF CallFields
    <3>8. ASSUME NEW p, calls' = [NoEdit EXCEPT ![m] = [old EXCEPT !.pc = "finalizing", !.cancelled = FALSE, !.prev = p]]
          PROVE  CallsOk' /\ AnswersKept
      BY <3>3, <3>4, <3>8 DEF CallFields
    <3> QED BY <3>5, <3>6, <3>7, <3>8
  <2>9. CASE ShowAnswer(m)
    <3>1. /\ \E shown \in {"answer", "nothing"} : calls' = [calls EXCEPT ![m] = [Finish(calls[m]) EXCEPT !.shown = shown]]
          /\ ~calls[m].edit
      BY <2>0, <2>9 DEF ShowAnswer, At, CallsOk, CallOk
    <3>2. \A shown \in {"answer", "nothing"} :
            LET c == [Finish(calls[m]) EXCEPT !.shown = shown] IN CallOk(c) /\ c.shown = shown
      BY <2>0, <3>1 DEF CallOk, CallFields
    <3> QED BY <3>1, <3>2, OneChanges
  <2>10. CASE ShowError(m)
    <3>1. \E shown \in {"error", "nothing"} : calls' = [calls EXCEPT ![m] = [Finish(calls[m]) EXCEPT !.shown = shown]]
      BY <2>0, <2>10 DEF ShowError
    <3>2. \A shown \in {"error", "nothing"} :
            LET c == [Finish(calls[m]) EXCEPT !.shown = shown] IN CallOk(c) /\ c.shown = shown
      BY <2>0, EndedOk DEF CallOk, CallFields, Finish, Ended, NoCall
    <3> QED BY <3>1, <3>2, OneChanges
  <2>11. CASE FinalizeCancelled(m)
    <3>1. \/ calls' = [calls EXCEPT ![m] = Finish(calls[m])]
          \/ \E p : calls' = [[calls EXCEPT ![p].shown = "stopped"] EXCEPT ![m] = Finish([calls EXCEPT ![p].shown = "stopped"][m])]
      BY <2>11 DEF FinalizeCancelled
    <3>2. CASE calls' = [calls EXCEPT ![m] = Finish(calls[m])]
      BY <2>0, <3>2, OneChanges
    <3>3. ASSUME NEW p, calls' = [[calls EXCEPT ![p].shown = "stopped"] EXCEPT ![m] = Finish([calls EXCEPT ![p].shown = "stopped"][m])]
          PROVE  CallsOk' /\ AnswersKept
      <4> DEFINE noted == [calls EXCEPT ![p].shown = "stopped"]
      <4>1. /\ DOMAIN noted = Messages
            /\ \A n \in Messages : CallOk(noted[n]) /\ (calls[n].shown = "answer" => noted[n].shown # "progress")
        BY DEF CallsOk, CallOk, CallFields
      <4>2. CallOk(Finish(noted[m])) /\ Finish(noted[m]).shown = noted[m].shown
        BY <4>1, EndedOk DEF Finish
      <4>3. calls' = [noted EXCEPT ![m] = Finish(noted[m])]
        BY <3>3
      <4> HIDE DEF noted
      <4> QED BY <4>1, <4>2, <4>3, AllChange
    <3> QED BY <3>1, <3>2, <3>3
  <2> QED BY <1>3, <2>1, <2>2, <2>3, <2>4, <2>5, <2>6, <2>7, <2>8, <2>9, <2>10, <2>11 DEF DiscordTask, SlashCommand
<1>4. ASSUME NEW m \in Messages, EditLands(m)
      PROVE  CallsOk' /\ AnswersKept
  BY <1>4, LandCalls
<1> QED BY <1>0, <1>1, <1>2, <1>3, <1>4 DEF DiscordNext, DiscordRunsOn

LEMMA CallsStay ==
  ASSUME CallsOk, [Next]_vars
  PROVE  CallsOk' /\ AnswersKept
<1>1. CASE Settled \/ UNCHANGED vars
  <2>1. UNCHANGED <<interface, calls>>
    BY <1>1 DEF Settled, vars, sharedVars
  <2> QED BY <2>1, SameCalls
<1>2. CASE interface = "zulip" /\ ZulipNext /\ UNCHANGED interface
  BY <1>2, ZulipCalls
<1>3. CASE interface = "direct" /\ DirectNext /\ UNCHANGED interface
  BY <1>3, DirectCalls
<1>4. CASE interface \in {"discord", "threads"} /\ DiscordNext /\ UNCHANGED interface
  BY <1>4, DiscordCalls
<1>5. CASE interface = "repl" /\ ReplNext /\ UNCHANGED interface
  BY <1>5, ReplCalls
<1> QED BY <1>1, <1>2, <1>3, <1>4, <1>5 DEF Next

(* A stale progress edit never lands on the answer, in any interface and     *)
(* for any messages, faults, stops and restarts.                             *)
THEOREM AnswersAreFinal == Spec => AnswersStay
<1>1. Init => CallsOk
  BY NoCallOk DEF Init, SharedInit, CallsOk
<1>2. CallsOk /\ [Next]_vars => CallsOk' /\ AnswersKept
  BY CallsStay
<1>3. AnswersKept => [\A m \in Messages : calls[m].shown = "answer" => calls'[m].shown # "progress"]_calls
  BY DEF AnswersKept
<1> QED BY <1>1, <1>2, <1>3, PTL DEF Spec, AnswersStay

(***************************************************************************)
(* The order of a topic's answers.  A topic's tasks are a chain: each waits *)
(* for the one before it, and only a stop in between lets one go beside     *)
(* the chain.                                                              *)
(***************************************************************************)
Doomed(m) == calls[m].pc = "queued" /\ calls[m].cancelled
Live(m) == Alive(m) /\ calls[m].kind # "stop" /\ ~Doomed(m)
Behindhand(m) == calls[m].pc \in {"unsent", "unread", "lost"}

(* What users wrote is read in the order of its sending.                    *)
InboxInv ==
  /\ inbox \in Seq(Messages) /\ Range(inbox) = {m \in Messages : calls[m].pc = "unread"}
  /\ \A m \in Messages : calls[m].pc = "unread" => ~calls[m].cancelled /\ calls[m].place \in Places
SentInOrder ==
  \A n, m \in Messages : n < m =>
    /\ calls[n].pc = "unsent" => calls[m].pc = "unsent"
    /\ calls[n].pc = "unread" => Behindhand(m)

PostsInv ==
  /\ posts \in [Places -> Seq(Messages)]
  /\ \A t \in Places : \A j \in DOMAIN posts[t] : calls[posts[t][j]].pc = "done" /\ calls[posts[t][j]].place = t
InOrder ==
  \A t \in Places : \A j, k \in DOMAIN posts[t] :
    j < k => posts[t][j] < posts[t][k] \/ StoppedBetween(t, posts[t][k], posts[t][j])

(* A stop goes before every message that was sent after it.                 *)
StopInv ==
  /\ \A s \in Messages : calls[s].kind = "stop" => calls[s].pc \in {"unread", "queued", "lost"} /\ ~calls[s].edit /\ ~calls[s].cancelled
  /\ \A s \in Messages : calls[s].shown = "stopped" => calls[s].pc = "done" /\ ~calls[s].edit
  /\ \A s, n \in Messages : Stopping(s) /\ s < n /\ Alive(n) => calls[n].pc = "queued"

(* A topic's tail is the last of its live tasks, those apart that a stop    *)
(* has left beside the chain.                                               *)
TailInv == DOMAIN tails = Places /\
  \A t \in Places :
    /\ tails[t] # 0 => tails[t] \in Messages /\ calls[tails[t]].place = t /\ Live(tails[t])
    /\ poller # "stopped" => \A n \in Messages :
         Live(n) /\ calls[n].place = t /\ ~StoppedBetween(t, n, MaxMessages + 1) => tails[t] # 0 /\ n <= tails[t]

(* No task goes past one that is ahead of it in the chain.                  *)
Ahead(n, m) ==
  n < m /\ Live(n) /\ calls[n].place = calls[m].place /\ ~StoppedBetween(calls[m].place, n, m)
Waits(n, m) ==
  /\ ~(Alive(m) /\ calls[m].pc # "queued")
  /\ \A t \in Places : \A j \in DOMAIN posts[t] : posts[t][j] # m
  /\ calls[m].pc = "queued" /\ Live(m) =>
       calls[m].prev \in n..(m - 1) /\ Live(calls[m].prev) /\ calls[calls[m].prev].place = calls[m].place
ChainInv == \A m, n \in Messages : Ahead(n, m) => Waits(n, m)

OrderInv == InboxInv /\ SentInOrder /\ PostsInv /\ InOrder /\ StopInv /\ TailInv /\ ChainInv

(* What can run or end: not a queued task that still waits.                 *)
Free(m) ==
  /\ Alive(m) /\ calls[m].kind # "stop"
  /\ calls[m].pc = "queued" /\ ~calls[m].cancelled => calls[m].prev = 0 \/ ~Alive(calls[m].prev)

LEMMA FreeIsFirst ==
  ASSUME OrderInv, NEW m \in Messages, Free(m), Live(m)
  PROVE  \A n \in Messages : ~Ahead(n, m)
<1> SUFFICES ASSUME NEW n \in Messages, Ahead(n, m) PROVE FALSE
  OBVIOUS
<1>1. Waits(n, m)
  BY DEF OrderInv, ChainInv
<1>2. calls[m].pc = "queued" /\ ~calls[m].cancelled
  BY <1>1 DEF Waits, Free, Live, Doomed
<1>3. calls[m].prev # 0 /\ Alive(calls[m].prev)
  BY <1>1, <1>2 DEF Waits, Live, Messages
<1> QED BY <1>2, <1>3 DEF Free

(* Stops stay stopped, and what was not live does not become live.          *)
Shrinks ==
  \A x \in Messages :
    /\ Live(x)' => Live(x)
    /\ calls[x].pc # "unsent" => calls'[x].place = calls[x].place
    /\ calls[x].shown = "stopped" => calls'[x].shown = "stopped"

LEMMA StopsStay ==
  ASSUME Shrinks, StopInv, NEW t, NEW n \in Nat, NEW m \in Nat, m <= MaxMessages + 1, StoppedBetween(t, n, m)
  PROVE  StoppedBetween(t, n, m)'
<1>0. MaxMessages \in Nat
  BY SessionAssumption
<1>1. PICK s \in (n + 1)..(m - 1) : calls[s].place = t /\ calls[s].shown = "stopped"
  BY DEF StoppedBetween
<1>2. s \in Messages
  BY <1>0, <1>1 DEF Messages
<1>3. calls[s].pc = "done"
  BY <1>1, <1>2 DEF StopInv
<1> QED BY <1>1, <1>2, <1>3 DEF StoppedBetween, Shrinks

LEMMA AheadBefore ==
  ASSUME Shrinks, StopInv, NEW n \in Messages, NEW m \in Messages, calls[m].pc # "unsent", Ahead(n, m)'
  PROVE  Ahead(n, m)
<1>0. MaxMessages \in Nat /\ n \in Nat /\ m \in Nat /\ m <= MaxMessages + 1
  BY SessionAssumption DEF Messages
<1>1. Live(n) /\ n < m
  BY DEF Ahead, Shrinks
<1>2. calls'[m].place = calls[m].place /\ calls'[n].place = calls[n].place
  BY <1>1 DEF Shrinks, Live, Alive
<1>3. ~StoppedBetween(calls[m].place, n, m)
  <2>1. PICK t : t = calls[m].place /\ t = calls'[m].place
    BY <1>2
  <2>2. ~StoppedBetween(t, n, m)'
    BY <2>1 DEF Ahead
  <2>3. ~StoppedBetween(t, n, m)
    BY <2>2, <1>0, StopsStay
  <2> QED BY <2>1, <2>3
<1> QED BY <1>1, <1>2, <1>3 DEF Ahead

(* Where the chain, the queue and the posts stay and no stop is undone, the *)
(* order of the posts stays.                                                *)
LEMMA PostsStay ==
  ASSUME OrderInv, Shrinks, UNCHANGED posts
  PROVE  InOrder'
<1> SUFFICES ASSUME NEW t \in Places, NEW j \in DOMAIN posts[t], NEW k \in DOMAIN posts[t], j < k, ~(posts[t][j] < posts[t][k])
             PROVE  StoppedBetween(t, posts[t][k], posts[t][j])'
  BY DEF InOrder
<1>1. PICK n, m : n = posts[t][k] /\ m = posts[t][j]
  OBVIOUS
<1>2. n \in Messages /\ m \in Messages /\ n \in Nat /\ m \in Nat /\ m <= MaxMessages + 1
  BY <1>1, SessionAssumption DEF OrderInv, PostsInv, Messages
<1>3. StoppedBetween(t, n, m)
  BY <1>1, <1>2 DEF OrderInv, InOrder
<1>4. StoppedBetween(t, n, m)'
  BY <1>2, <1>3, StopsStay DEF OrderInv
<1> QED BY <1>1, <1>4

LEMMA LastStopsStay ==
  ASSUME Shrinks, StopInv, NEW t, NEW n \in Messages, ~StoppedBetween(t, n, MaxMessages + 1)'
  PROVE  ~StoppedBetween(t, n, MaxMessages + 1)
BY StopsStay, SessionAssumption DEF Messages

LEMMA UnsentWaits ==
  ASSUME OrderInv, NEW x \in Messages, NEW n, calls[x].pc = "unsent", calls'[x].pc \in {"unsent", "unread", "lost"}, UNCHANGED posts
  PROVE  Waits(n, x)'
BY DEF Waits, Alive, OrderInv, PostsInv

(* A task takes its turn, or a step of it.                                  *)
LEMMA TaskMoves ==
  ASSUME OrderInv, NEW m \in Messages, Free(m),
         \A x \in Messages \ {m} : calls'[x] = calls[x],
         calls'[m].place = calls[m].place, calls'[m].kind = calls[m].kind, calls'[m].prev = calls[m].prev,
         Alive(m)', calls'[m].pc # "queued", calls'[m].shown # "stopped",
         calls[m].pc = "queued" => ~calls[m].cancelled /\ \A s \in 1..(m - 1) : ~Stopping(s),
         UNCHANGED <<tails, inbox, posts, poller>>
  PROVE  OrderInv'
<1>1. Live(m) /\ Live(m)' /\ calls[m].pc \notin {"unsent", "unread", "lost", "done"} /\ calls[m].shown # "stopped"
  BY DEF Live, Doomed, Free, Alive, OrderInv, StopInv
<1>2. \A x \in Messages : (Live(x)' <=> Live(x)) /\ calls'[x].place = calls[x].place /\ (calls'[x].shown = "stopped" <=> calls[x].shown = "stopped")
  BY <1>1 DEF Live, Doomed, Alive
<1>3. Shrinks
  BY <1>2 DEF Shrinks
<1>4. InboxInv'
  BY <1>1 DEF OrderInv, InboxInv, Alive
<1>5. SentInOrder'
  BY <1>1 DEF OrderInv, SentInOrder, Behindhand, Alive
<1>6. PostsInv'
  BY <1>1 DEF OrderInv, PostsInv
<1>7. InOrder'
  BY <1>3, PostsStay
<1>8. StopInv'
  BY <1>1 DEF OrderInv, StopInv, Alive, Stopping, Free, Messages
<1>9. TailInv'
  BY <1>2, <1>3, LastStopsStay DEF OrderInv, TailInv
<1>10. ChainInv'
  <2> SUFFICES ASSUME NEW x \in Messages, NEW n \in Messages, Ahead(n, x)' PROVE Waits(n, x)'
    BY DEF ChainInv
  <2>1. CASE calls[x].pc = "unsent"
    <3>1. x # m /\ calls'[x] = calls[x]
      BY <1>1, <2>1
    <3> QED BY <2>1, <3>1, UnsentWaits
  <2>2. CASE calls[x].pc # "unsent"
    <3>1. Ahead(n, x)
      BY <1>3, <2>2, AheadBefore DEF OrderInv
    <3>2. x # m
      BY <1>1, <3>1, FreeIsFirst
    <3>3. Waits(n, x)
      BY <3>1 DEF OrderInv, ChainInv
    <3>4. calls'[x] = calls[x] /\ posts' = posts /\ (calls[x].prev \in n..(x - 1) => calls[x].prev \in Messages)
      BY <3>2, SessionAssumption DEF Messages
    <3> QED BY <1>2, <3>3, <3>4 DEF Waits, Alive
  <2> QED BY <2>1, <2>2
<1> QED BY <1>4, <1>5, <1>6, <1>7, <1>8, <1>9, <1>10 DEF OrderInv

(* What was posted stays in order, and so does an answer behind it.         *)
LEMMA PostedLast ==
  ASSUME OrderInv, Shrinks, NEW m \in Messages, Live(m), calls[m].pc # "done",
         posts' = [posts EXCEPT ![calls[m].place] = Append(@, m)]
  PROVE  InOrder'
<1> SUFFICES ASSUME NEW t \in Places, NEW j \in DOMAIN posts'[t], NEW k \in DOMAIN posts'[t], j < k, ~(posts'[t][j] < posts'[t][k])
             PROVE  StoppedBetween(t, posts[t][k], posts[t][j])'
  BY DEF InOrder
<1>0. posts[t] \in Seq(Messages)
  BY DEF OrderInv, PostsInv
<1>1. CASE posts'[t] = posts[t]
  <2>1. PICK n, p : n = posts'[t][k] /\ p = posts'[t][j] /\ n = posts[t][k] /\ p = posts[t][j]
    BY <1>1
  <2>2. n \in Messages /\ p \in Messages /\ n \in Nat /\ p \in Nat /\ p <= MaxMessages + 1
    <3>1. j \in DOMAIN posts[t] /\ k \in DOMAIN posts[t]
      BY <1>1
    <3>2. n \in Messages /\ p \in Messages
      BY <1>0, <2>1, <3>1
    <3> QED BY <3>2, SessionAssumption DEF Messages
  <2>3. StoppedBetween(t, n, p)
    BY <1>1, <2>1, <2>2 DEF OrderInv, InOrder
  <2> QED BY <2>1, <2>2, <2>3, StopsStay DEF OrderInv
<1>2. CASE t = calls[m].place /\ posts'[t] = Append(posts[t], m)
  <2>1. PICK n, p : n = posts'[t][k] /\ p = posts'[t][j]
    OBVIOUS
  <2>2. j \in DOMAIN posts[t] /\ p = posts[t][j] /\ ((k \in DOMAIN posts[t] /\ n = posts[t][k]) \/ n = m)
    BY <1>0, <1>2, <2>1
  <2>3. n \in Messages /\ p \in Messages /\ n \in Nat /\ p \in Nat /\ p <= MaxMessages + 1
    BY <1>0, <2>2, SessionAssumption DEF Messages
  <2>4. calls[p].pc = "done" /\ calls[p].place = t
    BY <2>2 DEF OrderInv, PostsInv
  <2>5. StoppedBetween(t, n, p)
    <3>1. CASE n = m
      <4>1. ~Waits(m, p)
        BY <2>2 DEF Waits
      <4>2. ~Ahead(m, p)
        BY <2>3, <4>1 DEF OrderInv, ChainInv
      <4>3. m < p
        BY <2>1, <2>3, <2>4, <3>1
      <4> QED BY <1>2, <2>4, <3>1, <4>2, <4>3 DEF Ahead
    <3>2. CASE k \in DOMAIN posts[t] /\ n = posts[t][k]
      BY <2>1, <2>2, <2>3, <3>2 DEF OrderInv, InOrder
    <3> QED BY <2>2, <3>1, <3>2
  <2> QED BY <2>1, <2>3, <2>5, StopsStay DEF OrderInv
<1> QED BY <1>0, <1>1, <1>2 DEF OrderInv, PostsInv

(* A task ends, with an answer or without one.                              *)
LEMMA TaskEnds ==
  ASSUME OrderInv, NEW m \in Messages, Free(m),
         \A x \in Messages \ {m} : calls'[x] = calls[x],
         calls'[m].place = calls[m].place, calls'[m].kind # "stop", calls'[m].pc = "done",
         calls'[m].shown = "stopped" => ~calls'[m].edit,
         posts' = posts \/ (Live(m) /\ posts' = [posts EXCEPT ![calls[m].place] = Append(@, m)]),
         tails' = Forget(m), UNCHANGED <<inbox, poller>>
  PROVE  OrderInv'
<1>1. /\ calls[m].pc \notin {"unsent", "unread", "lost", "done"} /\ calls[m].shown # "stopped" /\ ~Live(m)'
      /\ calls[m].place = calls'[m].place
  BY DEF Live, Free, Alive, OrderInv, StopInv
<1>2. \A x \in Messages : (Live(x)' <=> Live(x) /\ x # m) /\ calls'[x].place = calls[x].place
  BY <1>1 DEF Live, Doomed, Alive
<1>3. Shrinks
  BY <1>1, <1>2 DEF Shrinks
<1>4. InboxInv'
  BY <1>1 DEF OrderInv, InboxInv, Alive
<1>5. SentInOrder'
  BY <1>1 DEF OrderInv, SentInOrder, Behindhand, Alive
<1>6. PostsInv' /\ InOrder'
  <2>1. CASE posts' = posts
    BY <1>1, <1>3, <2>1, PostsStay DEF OrderInv, PostsInv
  <2>2. CASE Live(m) /\ posts' = [posts EXCEPT ![calls[m].place] = Append(@, m)]
    <3>1. InOrder'
      BY <1>1, <1>3, <2>2, PostedLast
    <3>2. PostsInv'
      <4>1. posts' \in [Places -> Seq(Messages)]
        <5>1. posts \in [Places -> Seq(Messages)]
          BY DEF OrderInv, PostsInv
        <5>2. ASSUME calls[m].place \in Places PROVE Append(posts[calls[m].place], m) \in Seq(Messages)
          BY <5>1, <5>2
        <5> QED BY <2>2, <5>1, <5>2
      <4>2. ASSUME NEW t \in Places, NEW j \in DOMAIN posts'[t]
            PROVE  calls'[posts'[t][j]].pc = "done" /\ calls'[posts'[t][j]].place = t
        <5>1. posts[t] \in Seq(Messages) /\ (posts'[t] = posts[t] \/ (t = calls[m].place /\ posts'[t] = Append(posts[t], m)))
          BY <2>2 DEF OrderInv, PostsInv
        <5>2. (j \in DOMAIN posts[t] /\ posts'[t][j] = posts[t][j]) \/ (t = calls[m].place /\ posts'[t][j] = m)
          BY <5>1
        <5>3. CASE j \in DOMAIN posts[t] /\ posts'[t][j] = posts[t][j]
          <6>1. posts[t][j] \in Messages /\ calls[posts[t][j]].pc = "done" /\ calls[posts[t][j]].place = t
            BY <5>1, <5>3 DEF OrderInv, PostsInv
          <6> QED BY <1>1, <5>3, <6>1
        <5> QED BY <1>1, <5>2, <5>3
      <4> QED BY <4>1, <4>2 DEF PostsInv
    <3> QED BY <3>1, <3>2
  <2> QED BY <2>1, <2>2
<1>7. StopInv'
  BY <1>1 DEF OrderInv, StopInv, Alive, Stopping, Free, Messages
<1>8. \A n \in Messages : Live(m) /\ n < m /\ Live(n) /\ calls[n].place = calls[m].place => StoppedBetween(calls[m].place, n, m)
  BY FreeIsFirst DEF Ahead
<1>9. TailInv'
  <2>1. DOMAIN tails' = Places /\ \A t \in Places : tails'[t] = IF t = calls[m].place /\ tails[t] = m THEN 0 ELSE tails[t]
    BY DEF Forget, OrderInv, TailInv
  <2>2. ASSUME NEW t \in Places, tails'[t] # 0
        PROVE  tails'[t] \in Messages /\ calls'[tails'[t]].place = t /\ Live(tails[t])'
    BY <1>2, <2>1, <2>2 DEF OrderInv, TailInv
  <2>3. ASSUME NEW t \in Places, poller' # "stopped", NEW n \in Messages, Live(n)', calls'[n].place = t,
               ~StoppedBetween(t, n, MaxMessages + 1)'
        PROVE  tails'[t] # 0 /\ n <= tails'[t]
    <3>1. ~StoppedBetween(t, n, MaxMessages + 1) /\ n # m /\ Live(n) /\ calls[n].place = t
      BY <1>2, <1>3, <2>3, LastStopsStay DEF OrderInv
    <3>2. tails[t] # 0 /\ n <= tails[t] /\ (tails[t] = m => Live(m) /\ calls[m].place = t)
      BY <2>3, <3>1 DEF OrderInv, TailInv
    <3>3. tails[t] # m
      <4> SUFFICES ASSUME tails[t] = m PROVE FALSE
        OBVIOUS
      <4>1. StoppedBetween(t, n, m)
        BY <1>8, <3>1, <3>2, SessionAssumption DEF Messages
      <4> QED BY <3>1, <4>1, SessionAssumption DEF StoppedBetween, Messages
    <3> QED BY <2>1, <3>2, <3>3
  <2> QED BY <2>1, <2>2, <2>3 DEF TailInv
<1>10. ChainInv'
  <2> SUFFICES ASSUME NEW x \in Messages, NEW n \in Messages, Ahead(n, x)' PROVE Waits(n, x)'
    BY DEF ChainInv
  <2>1. CASE calls[x].pc = "unsent"
    <3>1. x # m /\ calls'[x] = calls[x]
      BY <1>1, <2>1
    <3>2. \A t \in Places : \A j \in DOMAIN posts'[t] : posts'[t][j] # x
      BY <1>6, <2>1, <3>1 DEF PostsInv
    <3> QED BY <2>1, <3>1, <3>2 DEF Waits, Alive
  <2>2. CASE calls[x].pc # "unsent"
    <3>1. Ahead(n, x) /\ Waits(n, x) /\ n # m /\ Live(n)
      BY <1>2, <1>3, <2>2, AheadBefore DEF OrderInv, ChainInv, Ahead
    <3>2. \A t \in Places : \A j \in DOMAIN posts'[t] : posts'[t][j] # x
      <4>1. CASE posts' = posts
        BY <3>1, <4>1 DEF Waits
      <4>2. CASE Live(m) /\ posts' = [posts EXCEPT ![calls[m].place] = Append(@, m)]
        <5>1. x # m
          BY <3>1, <4>2, FreeIsFirst
        <5>2. ASSUME NEW t \in Places, NEW j \in DOMAIN posts'[t] PROVE posts'[t][j] # x
          <6>1. posts[t] \in Seq(Messages) /\ (posts'[t] = posts[t] \/ posts'[t] = Append(posts[t], m))
            BY <4>2 DEF OrderInv, PostsInv
          <6>2. (j \in DOMAIN posts[t] /\ posts'[t][j] = posts[t][j]) \/ posts'[t][j] = m
            BY <6>1
          <6> QED BY <3>1, <5>1, <6>2 DEF Waits
        <5> QED BY <5>2
      <4> QED BY <4>1, <4>2
    <3>3. calls[x].pc = "queued" /\ Live(x) /\ x # m => calls[x].prev # m /\ calls[x].prev \in Messages
      <4> SUFFICES ASSUME calls[x].pc = "queued", Live(x) PROVE calls[x].prev # m /\ calls[x].prev \in Messages
        OBVIOUS
      <4>1. calls[x].prev \in n..(x - 1) /\ Live(calls[x].prev) /\ calls[calls[x].prev].place = calls[x].place
        BY <3>1 DEF Waits
      <4>2. calls[x].prev \in Messages
        BY <4>1, SessionAssumption DEF Messages
      <4>3. calls[x].prev # m
        <5> SUFFICES ASSUME calls[x].prev = m PROVE FALSE
          OBVIOUS
        <5>1. n < m /\ m < x /\ Live(m) /\ calls[n].place = calls[m].place /\ calls[m].place = calls[x].place
          BY <3>1, <4>1 DEF Ahead, Messages
        <5>2. ~StoppedBetween(calls[m].place, n, m)
          BY <3>1, <5>1 DEF Ahead, StoppedBetween, Messages
        <5> QED BY <3>1, <5>1, <5>2, FreeIsFirst DEF Ahead
      <4> QED BY <4>2, <4>3
    <3> QED BY <1>1, <1>2, <3>1, <3>2, <3>3 DEF Waits, Alive
  <2> QED BY <2>1, <2>2
<1> QED BY <1>4, <1>5, <1>6, <1>7, <1>9, <1>10 DEF OrderInv

(* Steps that leave the chains alone; an edit may land.                     *)
LEMMA OrderStays ==
  ASSUME OrderInv, UNCHANGED <<tails, inbox, posts>>, poller' # "stopped" => poller # "stopped",
         \A x \in Messages :
           /\ calls'[x].pc = calls[x].pc /\ calls'[x].place = calls[x].place /\ calls'[x].kind = calls[x].kind
           /\ calls'[x].prev = calls[x].prev /\ calls'[x].cancelled = calls[x].cancelled
           /\ calls'[x].edit => calls[x].edit
           /\ calls'[x].shown = calls[x].shown \/ (calls[x].edit /\ calls'[x].shown # "stopped")
  PROVE  OrderInv'
<1>1. \A x \in Messages : (Live(x)' <=> Live(x)) /\ (Alive(x)' <=> Alive(x))
                          /\ (calls'[x].shown = "stopped" <=> calls[x].shown = "stopped")
  BY DEF Live, Doomed, Alive, OrderInv, StopInv
<1>2. Shrinks
  BY <1>1 DEF Shrinks
<1>3. InboxInv' /\ SentInOrder' /\ PostsInv'
  <2>1. InboxInv'
    BY DEF OrderInv, InboxInv
  <2>2. SentInOrder'
    BY DEF OrderInv, SentInOrder, Behindhand
  <2>3. PostsInv'
    BY DEF OrderInv, PostsInv
  <2> QED BY <2>1, <2>2, <2>3
<1>4. InOrder'
  BY <1>2, PostsStay
<1>5. StopInv'
  BY <1>1 DEF OrderInv, StopInv, Stopping
<1>6. TailInv'
  BY <1>1, <1>2, LastStopsStay DEF OrderInv, TailInv
<1>7. ChainInv'
  <2> SUFFICES ASSUME NEW x \in Messages, NEW n \in Messages, Ahead(n, x)' PROVE Waits(n, x)'
    BY DEF ChainInv
  <2>1. CASE calls[x].pc = "unsent"
    BY <2>1, UnsentWaits
  <2>2. CASE calls[x].pc # "unsent"
    <3>1. Waits(n, x)
      BY <1>2, <2>2, AheadBefore DEF OrderInv, ChainInv
    <3>2. calls[x].prev \in n..(x - 1) => calls[x].prev \in Messages
      BY SessionAssumption DEF Messages
    <3> QED BY <1>1, <3>1, <3>2 DEF Waits
  <2> QED BY <2>1, <2>2
<1> QED BY <1>3, <1>4, <1>5, <1>6, <1>7 DEF OrderInv

LEMMA InboxGrows ==
  ASSUME InboxInv, NEW m \in Messages, calls[m].pc = "unsent", \A x \in Messages \ {m} : calls'[x] = calls[x],
         calls'[m].pc = Written, ~calls'[m].cancelled, calls'[m].place \in Places, inbox' = Arrives(m)
  PROVE  InboxInv'
<1>1. Append(inbox, m) \in Seq(Messages) /\ Range(Append(inbox, m)) = Range(inbox) \cup {m}
  <2>1. inbox \in Seq(Messages)
    BY DEF InboxInv
  <2>2. DOMAIN Append(inbox, m) = DOMAIN inbox \cup {Len(inbox) + 1} /\ Append(inbox, m)[Len(inbox) + 1] = m
        /\ \A i \in DOMAIN inbox : Append(inbox, m)[i] = inbox[i]
    BY <2>1
  <2> QED BY <2>1, <2>2 DEF Range
<1> QED BY <1>1 DEF InboxInv, Arrives, Written

LEMMA MessageWritten ==
  ASSUME OrderInv, NEW m \in Messages, calls[m].pc = "unsent", \A x \in Messages : calls[x].pc = "unsent" => m <= x,
         \A x \in Messages \ {m} : calls'[x] = calls[x],
         calls'[m].pc = Written, ~calls'[m].edit, calls'[m].shown = "nothing", ~calls'[m].cancelled,
         calls'[m].place \in Places,
         inbox' = Arrives(m), UNCHANGED <<tails, posts, poller>>
  PROVE  OrderInv'
<1>1. \A x \in Messages : (Live(x)' <=> Live(x)) /\ (Alive(x)' <=> Alive(x)) /\ (Live(x) => x # m)
                          /\ (calls'[x].shown = "stopped" <=> calls[x].shown = "stopped")
  BY DEF Live, Doomed, Alive, OrderInv, StopInv, Written
<1>2. Shrinks
  BY <1>1 DEF Shrinks
<1>3. InboxInv'
  BY InboxGrows DEF OrderInv
<1>4. SentInOrder'
  BY DEF OrderInv, SentInOrder, Behindhand, Written, Messages
<1>5. PostsInv'
  BY DEF OrderInv, PostsInv
<1>6. InOrder'
  BY <1>2, PostsStay
<1>7. StopInv'
  BY <1>1 DEF OrderInv, StopInv, Stopping, Written
<1>8. TailInv'
  BY <1>1, <1>2, LastStopsStay DEF OrderInv, TailInv
<1>9. ChainInv'
  <2> SUFFICES ASSUME NEW x \in Messages, NEW n \in Messages, Ahead(n, x)' PROVE Waits(n, x)'
    BY DEF ChainInv
  <2>1. CASE calls[x].pc = "unsent"
    BY <2>1, UnsentWaits DEF Written
  <2>2. CASE calls[x].pc # "unsent"
    <3>1. Waits(n, x)
      BY <1>2, <2>2, AheadBefore DEF OrderInv, ChainInv
    <3>2. calls[x].prev \in n..(x - 1) => calls[x].prev \in Messages
      BY SessionAssumption DEF Messages
    <3> QED BY <1>1, <2>2, <3>1, <3>2 DEF Waits
  <2> QED BY <2>1, <2>2
<1> QED BY <1>3, <1>4, <1>5, <1>6, <1>7, <1>8, <1>9 DEF OrderInv

(* The queue expires, or a reload raises.                                   *)
LEMMA MessagesLost ==
  ASSUME OrderInv, UNCHANGED <<tails, posts>>, inbox' = <<>>, poller' # "stopped" => poller # "stopped",
         \A x \in Messages : IF calls[x].pc = "unread" THEN calls'[x] = Ended(calls[x], "lost") ELSE calls'[x] = calls[x]
  PROVE  OrderInv'
<1>0. \A x \in Messages : calls[x].pc = "unread" =>
        calls'[x].pc = "lost" /\ calls'[x].place = calls[x].place /\ calls'[x].shown = calls[x].shown
        /\ ~calls'[x].edit /\ calls'[x].kind = "say"
  BY DEF Ended, NoCall
<1>1. \A x \in Messages : (Live(x)' <=> Live(x)) /\ (Alive(x)' <=> Alive(x)) /\ (Live(x) => calls[x].pc # "unread")
                          /\ calls'[x].place = calls[x].place /\ (calls'[x].shown = "stopped" <=> calls[x].shown = "stopped")
  BY <1>0 DEF Live, Doomed, Alive
<1>2. Shrinks
  BY <1>1 DEF Shrinks
<1>3. InboxInv'
  <2>1. Range(<<>>) = {} /\ <<>> \in Seq(Messages)
    BY DEF Range
  <2> QED BY <1>0, <2>1 DEF OrderInv, InboxInv
<1>4. SentInOrder'
  BY <1>0 DEF OrderInv, SentInOrder, Behindhand
<1>5. PostsInv'
  BY <1>0 DEF OrderInv, PostsInv
<1>6. InOrder'
  BY <1>2, PostsStay
<1>7. StopInv'
  BY <1>0, <1>1 DEF OrderInv, StopInv, Stopping
<1>8. TailInv'
  BY <1>1, <1>2, LastStopsStay DEF OrderInv, TailInv
<1>9. ChainInv'
  <2> SUFFICES ASSUME NEW x \in Messages, NEW n \in Messages, Ahead(n, x)' PROVE Waits(n, x)'
    BY DEF ChainInv
  <2>1. CASE calls[x].pc = "unsent"
    BY <2>1, UnsentWaits
  <2>2. CASE calls[x].pc # "unsent"
    <3>1. Waits(n, x)
      BY <1>2, <2>2, AheadBefore DEF OrderInv, ChainInv
    <3>2. calls[x].prev \in n..(x - 1) => calls[x].prev \in Messages
      BY SessionAssumption DEF Messages
    <3> QED BY <1>0, <1>1, <2>2, <3>1, <3>2 DEF Waits
  <2> QED BY <2>1, <2>2
<1> QED BY <1>3, <1>4, <1>5, <1>6, <1>7, <1>8, <1>9 DEF OrderInv

(* A batch goes behind the tails, in the order of its sending.              *)
LEMMA BatchChained ==
  ASSUME OrderInv, poller # "stopped", \A x \in Messages : ~Stopping(x), UNCHANGED posts, inbox' = <<>>,
         poller' = poller, tails' = [t \in Places |-> Newest(Chained(t), tails[t])],
         \A x \in Messages : IF calls[x].pc = "unread"
           THEN /\ calls'[x].pc = "queued" /\ calls'[x].place = calls[x].place /\ calls'[x].kind = calls[x].kind
                /\ calls'[x].cancelled = calls[x].cancelled /\ calls'[x].edit = calls[x].edit
                /\ calls'[x].shown = calls[x].shown
                /\ calls[x].kind # "stop" =>
                     calls'[x].prev = Newest({n \in Chained(calls[x].place) : n < x}, tails[calls[x].place])
           ELSE calls'[x] = calls[x]
  PROVE  OrderInv'
<1> USE SessionAssumption
<1>1. \A x \in Messages : /\ calls[x].pc = "unread" => (Live(x)' <=> calls[x].kind # "stop")
                          /\ calls[x].pc # "unread" => (Live(x)' <=> Live(x))
                          /\ calls'[x].place = calls[x].place
                          /\ calls'[x].shown = "stopped" <=> calls[x].shown = "stopped"
                          /\ Live(x) => calls[x].pc \notin {"unsent", "unread", "lost", "done"}
  BY DEF Live, Doomed, Alive, OrderInv, InboxInv
<1>3. InboxInv'
  <2>1. Range(<<>>) = {} /\ <<>> \in Seq(Messages)
    BY DEF Range
  <2> QED BY <2>1 DEF OrderInv, InboxInv
<1>4. SentInOrder'
  BY DEF OrderInv, SentInOrder, Behindhand
<1>5. PostsInv'
  <2>1. \A x \in Messages : calls[x].pc = "done" => calls'[x] = calls[x]
    OBVIOUS
  <2>2. \A t \in Places : \A j \in DOMAIN posts[t] : posts[t][j] \in Messages
    BY DEF OrderInv, PostsInv
  <2> QED BY <2>1, <2>2 DEF OrderInv, PostsInv
<1>2. \A t : \A n \in Nat : \A m \in Nat : m <= MaxMessages + 1 => (StoppedBetween(t, n, m)' <=> StoppedBetween(t, n, m))
  BY <1>1 DEF StoppedBetween, Messages
<1>6. InOrder'
  <2> SUFFICES ASSUME NEW t \in Places, NEW j \in DOMAIN posts[t], NEW k \in DOMAIN posts[t], j < k, ~(posts[t][j] < posts[t][k])
               PROVE  StoppedBetween(t, posts[t][k], posts[t][j])'
    BY DEF InOrder
  <2>1. PICK n, m : n = posts[t][k] /\ m = posts[t][j]
    OBVIOUS
  <2>2. n \in Nat /\ m \in Nat /\ m <= MaxMessages + 1
    BY <2>1 DEF OrderInv, PostsInv, Messages
  <2> QED BY <2>1, <2>2, <1>2 DEF OrderInv, InOrder
<1>7. StopInv'
  <2>1. \A x \in Messages : Alive(x)' => calls[x].pc = "unread" \/ Alive(x)
    BY DEF Alive
  <2>2. \A x, n \in Messages : Stopping(x)' /\ x < n /\ Alive(n)' => calls'[n].pc = "queued"
    <3> SUFFICES ASSUME NEW x \in Messages, NEW n \in Messages, Stopping(x)', x < n, Alive(n)', calls[n].pc # "unread" PROVE FALSE
      OBVIOUS
    <3>1. calls[x].pc = "unread"
      BY DEF Stopping
    <3> QED BY <3>1, <2>1 DEF OrderInv, SentInOrder, Behindhand, Alive
  <2> QED BY <2>2 DEF OrderInv, StopInv
<1>8. \A t : \A n \in Chained(t) : n \in Messages /\ calls[n].pc = "unread" /\ calls[n].place = t /\ calls[n].kind # "stop" /\ Live(n)'
  BY <1>1 DEF Chained, OrderInv, InboxInv
<1>9. \A n \in Messages : calls[n].pc = "unread" /\ calls[n].kind # "stop" => n \in Chained(calls[n].place)
  BY DEF Chained, OrderInv, InboxInv
<1>10. \A n, u \in Messages : Live(n) /\ calls[u].pc = "unread" => n < u
  BY <1>1 DEF OrderInv, SentInOrder, Behindhand, Messages
<1>11. ASSUME NEW t \in Places, NEW S, S \subseteq Chained(t), S # {}
       PROVE  Newest(S, tails[t]) \in S /\ \A n \in S : n <= Newest(S, tails[t])
  <2>1. S \subseteq 0..MaxMessages
    BY <1>8, <1>11 DEF Messages
  <2>2. Max(S) \in S /\ \A n \in S : Max(S) >= n
    BY <1>11, <2>1, MaxFacts
  <2>3. \A n \in S : n \in Nat
    BY <2>1
  <2> QED BY <1>11, <2>2, <2>3 DEF Newest
<1>12. TailInv'
  <2> SUFFICES ASSUME NEW t \in Places
        PROVE  /\ tails'[t] # 0 => tails'[t] \in Messages /\ calls'[tails'[t]].place = t /\ Live(tails[t])'
               /\ \A n \in Messages : Live(n)' /\ calls'[n].place = t /\ ~StoppedBetween(t, n, MaxMessages + 1)'
                    => tails'[t] # 0 /\ n <= tails'[t]
    BY DEF TailInv
  <2>1. CASE Chained(t) = {}
    <3>1. tails'[t] = tails[t]
      BY <2>1 DEF Newest
    <3>2. tails[t] # 0 => tails[t] \in Messages /\ calls[tails[t]].place = t /\ Live(tails[t])
      BY DEF OrderInv, TailInv
    <3>3. \A n \in Messages : Live(n)' /\ calls'[n].place = t => Live(n) /\ calls[n].place = t
      BY <1>1, <1>9, <2>1
    <3>4. \A n \in Messages : ~StoppedBetween(t, n, MaxMessages + 1)' => ~StoppedBetween(t, n, MaxMessages + 1)
      BY <1>2 DEF Messages
    <3>5. \A n \in Messages : Live(n) /\ calls[n].place = t /\ ~StoppedBetween(t, n, MaxMessages + 1)
                    => tails[t] # 0 /\ n <= tails[t]
      BY DEF OrderInv, TailInv
    <3> QED BY <1>1, <3>1, <3>2, <3>3, <3>4, <3>5
  <2>2. CASE Chained(t) # {}
    <3>1. PICK u : u = tails'[t] /\ u \in Chained(t) /\ \A n \in Chained(t) : n <= u
      BY <1>11, <2>2
    <3>2. \A n \in Messages : Live(n)' /\ calls'[n].place = t => n <= u
      BY <1>1, <1>8, <1>9, <1>10, <3>1 DEF Messages
    <3> QED BY <1>1, <1>8, <3>1, <3>2 DEF Messages
  <2> QED BY <2>1, <2>2
<1>13. ChainInv'
  <2> SUFFICES ASSUME NEW x \in Messages, NEW n \in Messages, Ahead(n, x)' PROVE Waits(n, x)'
    BY DEF ChainInv
  <2>0. n < x /\ Live(n)' /\ calls[n].place = calls[x].place
    BY <1>1 DEF Ahead
  <2>00. ~StoppedBetween(calls[x].place, n, x)
    <3>1. PICK t : t = calls[x].place /\ t = calls'[x].place
      BY <1>1
    <3>2. ~StoppedBetween(t, n, x)'
      BY <3>1 DEF Ahead
    <3> QED BY <1>2, <3>1, <3>2 DEF Messages
  <2>1. CASE calls[x].pc # "unread"
    <3>1. CASE calls[x].pc \in {"unsent", "lost"}
      <4>1. calls'[x].pc \in {"unsent", "lost"}
        BY <2>1, <3>1
      <4>2. \A t \in Places : \A j \in DOMAIN posts[t] : posts[t][j] # x
        BY <3>1 DEF OrderInv, PostsInv
      <4> QED BY <4>1, <4>2 DEF Waits, Alive
    <3>2. CASE calls[n].pc # "unread"
      <4>1. Waits(n, x)
        BY <1>1, <2>0, <2>00, <3>2 DEF Ahead, OrderInv, ChainInv
      <4>2. calls[x].prev \in n..(x - 1) => calls[x].prev \in Messages
        BY DEF Messages
      <4>3. calls'[x] = calls[x]
        BY <2>1
      <4> QED BY <1>1, <2>1, <4>1, <4>2, <4>3 DEF Waits, Alive
    <3>3. CASE calls[n].pc = "unread"
      BY <2>0, <2>1, <3>1, <3>3 DEF OrderInv, SentInOrder, Behindhand
    <3> QED BY <3>2, <3>3
  <2>2. CASE calls[x].pc = "unread"
    <3>1. calls'[x].pc = "queued" /\ \A t \in Places : \A j \in DOMAIN posts[t] : posts[t][j] # x
      BY <2>2 DEF OrderInv, PostsInv
    <3>2. CASE calls[x].kind = "stop"
      BY <1>1, <2>2, <3>1, <3>2 DEF Waits
    <3>3. CASE calls[x].kind # "stop"
      <4> DEFINE t == calls[x].place
                 S == {c \in Chained(t) : c < x}
      <4>1. calls'[x].prev = Newest(S, tails[t]) /\ t \in Places
        BY <2>2, <3>3 DEF OrderInv, InboxInv
      <4>2. CASE S # {}
        <5>1. PICK p : p = Newest(S, tails[t]) /\ p \in S /\ \A c \in S : c <= p
          BY <1>11, <4>1, <4>2
        <5>2. n <= p
          <6>1. CASE calls[n].pc = "unread"
            <7>1. n \in S
              BY <1>1, <1>9, <2>0, <6>1
            <7> QED BY <5>1, <7>1
          <6>2. CASE calls[n].pc # "unread"
            BY <1>1, <1>8, <1>10, <2>0, <5>1, <6>2 DEF Messages
          <6> QED BY <6>1, <6>2
        <5>3. p \in n..(x - 1) /\ p \in Messages
          BY <1>8, <5>1, <5>2 DEF Messages
        <5>4. Live(p)' /\ calls'[p].place = calls'[x].place
          BY <1>1, <1>8, <5>1, <5>3
        <5> QED BY <3>1, <4>1, <5>1, <5>3, <5>4 DEF Waits
      <4>3. CASE S = {}
        <5>1. calls[n].pc # "unread" /\ Live(n)
          BY <1>1, <1>9, <2>0, <4>3
        <5>2. ~StoppedBetween(t, n, MaxMessages + 1)
          <6> SUFFICES ASSUME NEW s \in (n + 1)..MaxMessages, calls[s].place = t, calls[s].shown = "stopped" PROVE FALSE
            BY DEF StoppedBetween, Messages
          <6>1. s \in Messages /\ calls[s].pc = "done"
            BY DEF OrderInv, StopInv, Messages
          <6>2. ~(s < x)
            BY <2>00 DEF StoppedBetween, Messages
          <6>3. ~(x < s)
            BY <2>2, <6>1 DEF OrderInv, SentInOrder, Behindhand
          <6> QED BY <2>2, <6>1, <6>2, <6>3 DEF Messages
        <5>3. PICK p : p = tails[t] /\ p # 0 /\ n <= p /\ p \in Messages /\ calls[p].place = t /\ Live(p)
          BY <2>0, <4>1, <5>1, <5>2 DEF OrderInv, TailInv
        <5>4. p < x /\ Live(p)'
          BY <1>1, <1>10, <2>2, <5>3
        <5>5. calls'[x].prev = p
          BY <4>1, <4>3, <5>3 DEF Newest
        <5> QED BY <1>1, <3>1, <5>3, <5>4, <5>5 DEF Waits, Messages
      <4> QED BY <4>2, <4>3
    <3> QED BY <3>2, <3>3
  <2> QED BY <2>1, <2>2
<1> QED BY <1>3, <1>4, <1>5, <1>6, <1>7, <1>12, <1>13 DEF OrderInv

(* A stop is replied to; it cancels the tasks of its topic or a hand-off.    *)
LEMMA TopicStopped ==
  ASSUME OrderInv, NEW s \in Messages, Stopping(s), NEW cancels \in BOOLEAN,
         calls'[s].pc = "done", calls'[s].place = calls[s].place, calls'[s].kind = "say", calls'[s].shown = "stopped",
         ~calls'[s].edit,
         \A x \in Messages \ {s} :
           /\ calls'[x].pc = calls[x].pc /\ calls'[x].place = calls[x].place /\ calls'[x].kind = calls[x].kind
           /\ calls'[x].prev = calls[x].prev /\ calls'[x].edit = calls[x].edit /\ calls'[x].shown = calls[x].shown
           /\ calls'[x].cancelled <=> calls[x].cancelled \/ (cancels /\ x \in TasksOf(calls[s].place)),
         UNCHANGED <<posts, inbox, poller>>,
         DOMAIN tails' = Places,
         \A t \in Places : tails'[t] = IF cancels /\ t = calls[s].place /\ TasksOf(t) # {} THEN 0 ELSE tails[t]
  PROVE  OrderInv'
<1> USE SessionAssumption
<1> DEFINE topic == calls[s].place
<1>1. calls[s].pc = "queued" /\ calls[s].kind = "stop" /\ ~Live(s) /\ ~Live(s)' /\ calls[s].shown # "stopped"
  BY DEF Stopping, Live, Alive, OrderInv, StopInv
<1>2. \A x \in Messages : /\ Live(x)' => Live(x) /\ x # s
                          /\ cancels /\ calls[x].place = topic /\ calls[x].pc = "queued" => ~Live(x)'
                          /\ calls[x].place # topic \/ ~cancels => (Live(x)' <=> Live(x))
                          /\ calls'[x].place = calls[x].place
  BY <1>1 DEF Live, Doomed, Alive, TasksOf
<1>3. Shrinks
  BY <1>1, <1>2 DEF Shrinks
<1>4. InboxInv' /\ SentInOrder' /\ PostsInv'
  <2>1. \A x \in Messages : calls[x].pc = "unread" => x \notin TasksOf(topic)
    BY DEF TasksOf, Alive
  <2>2. InboxInv'
    BY <1>1, <2>1 DEF OrderInv, InboxInv
  <2>3. SentInOrder'
    BY <1>1 DEF OrderInv, SentInOrder, Behindhand
  <2>4. PostsInv'
    BY <1>1 DEF OrderInv, PostsInv
  <2> QED BY <2>2, <2>3, <2>4
<1>5. InOrder'
  BY <1>3, PostsStay
<1>6. StopInv'
  BY <1>1 DEF OrderInv, StopInv, Stopping, Alive, TasksOf
<1>7. TailInv'
  <2> SUFFICES ASSUME NEW t \in Places
        PROVE  /\ tails'[t] # 0 => tails'[t] \in Messages /\ calls'[tails'[t]].place = t /\ Live(tails[t])'
               /\ poller # "stopped" => \A n \in Messages :
                    Live(n)' /\ calls'[n].place = t /\ ~StoppedBetween(t, n, MaxMessages + 1)' => tails'[t] # 0 /\ n <= tails'[t]
    BY DEF TailInv, OrderInv
  <2>0. /\ tails[t] # 0 => tails[t] \in Messages /\ calls[tails[t]].place = t /\ Live(tails[t])
        /\ poller # "stopped" => \A n \in Messages :
             Live(n) /\ calls[n].place = t /\ ~StoppedBetween(t, n, MaxMessages + 1) => tails[t] # 0 /\ n <= tails[t]
    BY DEF OrderInv, TailInv
  <2>1. CASE t = topic /\ cancels
    <3>1. tails'[t] = 0
      <4>1. tails[t] # 0 => tails[t] \in TasksOf(t)
        BY <2>0 DEF TasksOf, Live
      <4> QED BY <2>1, <4>1 DEF OrderInv, TailInv
    <3>2. ASSUME NEW n \in Messages, Live(n)', calls'[n].place = t PROVE StoppedBetween(t, n, MaxMessages + 1)'
      <4>1. Live(n) /\ n # s /\ calls[n].pc # "queued" /\ Alive(n)
        BY <1>2, <2>1, <3>2 DEF Live
      <4>2. n < s
        BY <4>1 DEF OrderInv, StopInv, Messages
      <4> QED BY <2>1, <4>2 DEF StoppedBetween, Messages
    <3> QED BY <3>1, <3>2
  <2>2. CASE ~(t = topic /\ cancels)
    <3>1. tails'[t] = tails[t]
      BY <2>2 DEF OrderInv, TailInv
    <3>2. \A n \in Messages : calls[n].place = t => (Live(n)' <=> Live(n))
      BY <1>2, <2>2
    <3>3. \A n \in Messages : ~StoppedBetween(t, n, MaxMessages + 1)' => ~StoppedBetween(t, n, MaxMessages + 1)
      BY <1>3, LastStopsStay DEF OrderInv
    <3> QED BY <1>2, <2>0, <3>1, <3>2, <3>3
  <2> QED BY <2>1, <2>2
<1>8. ChainInv'
  <2> SUFFICES ASSUME NEW x \in Messages, NEW n \in Messages, Ahead(n, x)' PROVE Waits(n, x)'
    BY DEF ChainInv
  <2>1. CASE calls[x].pc = "unsent"
    BY <1>1, <2>1, UnsentWaits
  <2>2. CASE calls[x].pc # "unsent"
    <3>1. Waits(n, x)
      BY <1>3, <2>2, AheadBefore DEF OrderInv, ChainInv
    <3>2. calls[x].prev \in n..(x - 1) => calls[x].prev \in Messages
      BY DEF Messages
    <3>3. CASE x = s
      BY <3>1, <3>3 DEF Waits, Alive
    <3>4. CASE x # s
      <4>1. /\ ~(Alive(x)' /\ calls'[x].pc # "queued")
            /\ \A t \in Places : \A j \in DOMAIN posts[t] : posts[t][j] # x
        BY <3>1, <3>4 DEF Waits, Alive
      <4>2. ASSUME calls'[x].pc = "queued", Live(x)'
            PROVE  /\ calls'[x].prev \in n..(x - 1) /\ Live(calls[x].prev)'
                   /\ calls'[calls'[x].prev].place = calls'[x].place /\ calls'[x].prev = calls[x].prev
        BY <1>2, <3>1, <3>2, <3>4, <4>2 DEF Waits
      <4> QED BY <4>1, <4>2 DEF Waits
    <3> QED BY <3>3, <3>4
  <2> QED BY <2>1, <2>2
<1> QED BY <1>4, <1>5, <1>6, <1>7, <1>8 DEF OrderInv

LEMMA AllStopped ==
  ASSUME OrderInv, poller' = "stopped", UNCHANGED <<posts, inbox>>, tails' = [t \in Places |-> 0],
         calls' = Cancel(UNION {TasksOf(t) : t \in Places}), CallsOk
  PROVE  OrderInv'
<1> DEFINE ms == UNION {TasksOf(t) : t \in Places}
<1>1. \A x \in Messages :
        /\ calls'[x].pc = calls[x].pc /\ calls'[x].place = calls[x].place /\ calls'[x].kind = calls[x].kind
        /\ calls'[x].prev = calls[x].prev /\ calls'[x].edit = calls[x].edit /\ calls'[x].shown = calls[x].shown
        /\ calls'[x].cancelled <=> calls[x].cancelled \/ x \in ms
  BY DEF Cancel, CallsOk, CallOk, CallFields
<1> HIDE DEF ms
<1>2. \A x \in Messages : x \in ms <=> calls[x].place \in Places /\ calls[x].kind # "stop" /\ Alive(x)
  BY DEF ms, TasksOf
<1>3. \A x \in Messages : /\ Live(x)' => Live(x)
                          /\ calls[x].pc = "queued" /\ Live(x)' => calls[x].place \notin Places
                          /\ calls[x].place \notin Places => (Live(x)' <=> Live(x))
  BY <1>1, <1>2 DEF Live, Doomed, Alive
<1>4. Shrinks
  BY <1>1, <1>3 DEF Shrinks
<1>5. InboxInv'
  BY <1>1, <1>2 DEF OrderInv, InboxInv, Alive
<1>6. SentInOrder'
  BY <1>1 DEF OrderInv, SentInOrder, Behindhand
<1>7. PostsInv'
  BY <1>1 DEF OrderInv, PostsInv
<1>8. InOrder'
  BY <1>4, PostsStay
<1>9. StopInv'
  BY <1>1, <1>2 DEF OrderInv, StopInv, Stopping, Alive
<1>10. TailInv'
  BY DEF TailInv
<1>11. ChainInv'
  <2> SUFFICES ASSUME NEW x \in Messages, NEW n \in Messages, Ahead(n, x)' PROVE Waits(n, x)'
    BY DEF ChainInv
  <2>1. CASE calls[x].pc = "unsent"
    BY <1>1, <2>1, UnsentWaits
  <2>2. CASE calls[x].pc # "unsent"
    <3>1. Waits(n, x)
      BY <1>4, <2>2, AheadBefore DEF OrderInv, ChainInv
    <3>2. calls[x].prev \in n..(x - 1) => calls[x].prev \in Messages
      BY SessionAssumption DEF Messages
    <3> QED BY <1>1, <1>3, <3>1, <3>2 DEF Waits, Alive
  <2> QED BY <2>1, <2>2
<1> QED BY <1>5, <1>6, <1>7, <1>8, <1>9, <1>10, <1>11 DEF OrderInv

LEMMA AllLost ==
  ASSUME OrderInv, CallsOk, calls' = Lost, UNCHANGED posts, inbox' = <<>>, tails' = [t \in Places |-> 0]
  PROVE  OrderInv'
<1>1. \A x \in Messages :
        /\ calls'[x].pc = IF calls[x].pc \in {"unsent", "done"} THEN calls[x].pc ELSE "lost"
        /\ calls[x].pc = "unsent" => calls'[x] = calls[x]
        /\ calls[x].pc # "unsent" => calls'[x].place = calls[x].place /\ ~calls'[x].edit
        /\ calls'[x].shown = calls[x].shown /\ (calls[x].pc \notin {"unsent", "done"} => calls'[x].kind = "say")
        /\ calls[x].pc = "done" => calls'[x].kind = calls[x].kind
  BY DEF Lost, Ended, NoCall, CallsOk, CallOk, CallFields
<1>2. \A x \in Messages : ~Live(x)' /\ ~Alive(x)' /\ calls'[x].pc # "unread"
  BY <1>1 DEF Live, Alive
<1>3. Shrinks
  BY <1>1, <1>2 DEF Shrinks
<1>5. InboxInv'
  <2>1. Range(<<>>) = {} /\ <<>> \in Seq(Messages)
    BY DEF Range
  <2> QED BY <1>2, <2>1 DEF InboxInv
<1>6. SentInOrder'
  BY <1>1, <1>2 DEF OrderInv, SentInOrder
<1>7. PostsInv'
  BY <1>1 DEF OrderInv, PostsInv
<1>8. InOrder'
  BY <1>3, PostsStay
<1>9. StopInv'
  BY <1>1, <1>2 DEF OrderInv, StopInv
<1>10. TailInv'
  BY <1>2 DEF TailInv
<1>11. ChainInv'
  BY <1>2 DEF ChainInv, Ahead
<1> QED BY <1>5, <1>6, <1>7, <1>8, <1>9, <1>10, <1>11 DEF OrderInv

LEMMA OneCall ==
  ASSUME CallsOk, NEW m \in Messages, NEW c, calls' = [calls EXCEPT ![m] = c]
  PROVE  calls'[m] = c /\ \A x \in Messages \ {m} : calls'[x] = calls[x]
BY DEF CallsOk

LEMMA FinishFields ==
  ASSUME NEW c
  PROVE  /\ Finish(c).pc = "done" /\ Finish(c).place = c.place /\ Finish(c).kind = "say" /\ Finish(c).shown = c.shown
         /\ Finish(c).edit => c.edit
BY DEF Finish, Ended, NoCall

LEMMA TaskFinishes ==
  ASSUME CallsOk, OrderInv, NEW m \in Messages, Free(m), NEW c, c.place = calls[m].place, c.shown = calls[m].shown,
         calls' = [calls EXCEPT ![m] = Finish(c)], tails' = Forget(m), UNCHANGED <<posts, inbox, poller>>
  PROVE  OrderInv'
<1>1. calls'[m] = Finish(c) /\ \A x \in Messages \ {m} : calls'[x] = calls[x]
  BY OneCall
<1>2. calls[m].shown # "stopped"
  BY DEF Free, Alive, OrderInv, StopInv
<1>3. calls'[m].pc = "done" /\ calls'[m].place = calls[m].place /\ calls'[m].kind = "say" /\ calls'[m].shown # "stopped"
  BY <1>1, <1>2, FinishFields
<1> QED BY <1>1, <1>3, TaskEnds

(* A task beyond its place in the queue goes on.                            *)
GoesOn(m) ==
  /\ calls[m].pc \notin {"unsent", "unread", "lost", "done", "queued"}
  /\ \A x \in Messages \ {m} : calls'[x] = calls[x]
  /\ calls'[m].place = calls[m].place /\ calls'[m].kind = calls[m].kind /\ calls'[m].prev = calls[m].prev
  /\ calls'[m].pc \notin {"unsent", "unread", "lost", "done", "queued"}

LEMMA TaskGoesOn ==
  ASSUME OrderInv, NEW m \in Messages, GoesOn(m), calls'[m].shown # "stopped", UNCHANGED <<tails, inbox, posts, poller>>
  PROVE  OrderInv'
<1>1. calls[m].kind # "stop"
  BY DEF GoesOn, OrderInv, StopInv
<1>2. Free(m) /\ Alive(m)'
  BY <1>1 DEF GoesOn, Free, Alive
<1> QED BY <1>2, TaskMoves DEF GoesOn

LEMMA TurnGoesOn ==
  ASSUME CallsOk, NEW m \in Messages, TurnStep(m)
  PROVE  GoesOn(m) /\ calls'[m].shown = calls[m].shown
<1> USE DEF CallsOk, CallOk, CallFields, GoesOn
<1>1. CASE Acquire(m) \/ ContinueArchive(m) \/ BeginTurn(m) \/ StartHandoff(m) \/ TargetEnds(m) \/ TargetCloses(m)
           \/ UnwindHandoff(m)
  <2>1. /\ \E pc \in {"seeded", "opening", "streaming", "handing", "closing"} : calls' = [calls EXCEPT ![m].pc = pc]
        /\ calls[m].pc \in {"waiting", "opening", "seeded", "streaming", "handing", "closing"}
    BY <1>1 DEF Acquire, ContinueArchive, BeginTurn, StartHandoff, TargetEnds, TargetCloses, UnwindHandoff, Goto, At
  <2> QED BY <2>1
<1>2. CASE StreamEnds(m) \/ StreamRaises(m) \/ UnwindTurn(m)
  <2>1. /\ \E out : calls' = [calls EXCEPT ![m] = [@ EXCEPT !.pc = "left", !.outcome = out]]
        /\ calls[m].pc \in {"waiting", "opening", "seeded", "streaming", "closing"}
    BY <1>2 DEF StreamEnds, StreamRaises, UnwindTurn, At
  <2> QED BY <2>1
<1> QED BY <1>1, <1>2 DEF TurnStep

LEMMA EditKeepsOrder ==
  ASSUME CallsOk, OrderInv, NEW m \in Messages, EditLands(m), UNCHANGED <<inbox, tails, poller>>
  PROVE  OrderInv'
<1>1. \A x \in Messages :
           /\ calls'[x].pc = calls[x].pc /\ calls'[x].place = calls[x].place /\ calls'[x].kind = calls[x].kind
           /\ calls'[x].prev = calls[x].prev /\ calls'[x].cancelled = calls[x].cancelled
           /\ calls'[x].edit => calls[x].edit
           /\ calls'[x].shown = calls[x].shown \/ (calls[x].edit /\ calls'[x].shown # "stopped")
  BY DEF EditLands, CallsOk, CallOk, CallFields
<1> QED BY <1>1, OrderStays DEF EditLands

LEMMA ZulipTasksKeepOrder ==
  ASSUME CallsOk, OrderInv, interface = "zulip", NEW m \in Messages, ZulipTask(m)
  PROVE  OrderInv'
<1>1. CASE Handle(m)
  <2>0. Free(m) /\ ~calls[m].cancelled /\ calls[m].pc = "queued" /\ \A s \in 1..(m - 1) : ~Stopping(s)
    BY <1>1 DEF Handle, At, Free, Alive
  <2>1. CASE Ends(m)
    <3>1. calls' = [calls EXCEPT ![m] = Finish(calls[m])] /\ tails' = Forget(m)
      BY <2>1 DEF Ends
    <3>2. ~calls[m].edit \/ calls[m].shown # "stopped"
      BY DEF OrderInv, StopInv
    <3> QED BY <1>1, <2>0, <3>1, <3>2, TaskFinishes DEF Handle, turnVars
  <2>2. CASE ~Ends(m)
    <3>1. \/ calls' = [calls EXCEPT ![m].pc = "syncing"]
          \/ calls' = [calls EXCEPT ![m] = [@ EXCEPT !.pc = "restoring", !.session = Len(sessions) + 1]]
      BY <1>1, <2>2 DEF Handle, Goto
    <3>2. calls[m].shown # "stopped"
      BY <2>0 DEF OrderInv, StopInv
    <3>3. /\ \A x \in Messages \ {m} : calls'[x] = calls[x]
          /\ calls'[m].place = calls[m].place /\ calls'[m].kind = calls[m].kind /\ calls'[m].prev = calls[m].prev
          /\ calls'[m].pc \in {"syncing", "restoring"} /\ calls'[m].shown # "stopped"
      BY <3>1, <3>2 DEF CallsOk, CallOk, CallFields
    <3>4. UNCHANGED <<tails, inbox, posts, poller>>
      BY <1>1, <2>2 DEF Handle, turnVars
    <3> QED BY <2>0, <3>3, <3>4, TaskMoves DEF Alive
  <2> QED BY <2>1, <2>2
<1>2. CASE Restore(m) \/ (Probe(m) /\ ~Ends(m)) \/ Sync(m) \/ Place(m) \/ Delta(m)
  <2>1. /\ \/ \E pc \in {"syncing", "probing", "placing", "stopping"} : calls' = [calls EXCEPT ![m].pc = pc]
           \/ calls' = [calls EXCEPT ![m] = [@ EXCEPT !.pc = "placing", !.cancelled = FALSE]]
           \/ \E k : \E shown \in {"thinking", "nothing"} :
                calls' = [calls EXCEPT ![m] = [@ EXCEPT !.pc = "waiting", !.session = k, !.shown = shown]]
           \/ calls' = [calls EXCEPT ![m].edit = TRUE]
        /\ calls[m].pc \in {"restoring", "probing", "syncing", "stopping", "placing", "streaming"}
        /\ UNCHANGED <<tails, inbox, posts, poller>>
    <3>1. CASE Restore(m)
      BY <3>1 DEF Restore, Adopt, Goto, At, turnVars
    <3>2. CASE Probe(m) /\ ~Ends(m)
      BY <3>2 DEF Probe, Adopt, Goto, At, turnVars
    <3>3. CASE Sync(m)
      BY <3>3 DEF Sync, SyncNow, SyncStops, SyncStopped, Goto, At, zulipVars
    <3>4. CASE Place(m)
      <4>1. PICK shown \in {"thinking", "nothing"} :
              calls' = [calls EXCEPT ![m] = [@ EXCEPT !.pc = "waiting", !.session = owned[calls[m].place], !.shown = shown]]
        BY <3>4 DEF Place
      <4>2. calls[m].pc = "placing" /\ UNCHANGED <<tails, inbox, posts, poller>>
        BY <3>4 DEF Place, At, turnVars
      <4> QED BY <4>1, <4>2
    <3>5. CASE Delta(m)
      BY <3>5 DEF Delta, At, turnVars, zulipVars
    <3> QED BY <1>2, <3>1, <3>2, <3>3, <3>4, <3>5
  <2>2. calls[m].shown # "stopped"
    BY <2>1 DEF OrderInv, StopInv
  <2>3. GoesOn(m) /\ calls'[m].shown # "stopped"
    <3>1. ASSUME NEW pc \in {"syncing", "probing", "placing", "stopping"}, calls' = [calls EXCEPT ![m].pc = pc]
          PROVE  GoesOn(m) /\ calls'[m].shown # "stopped"
      BY <2>1, <2>2, <3>1 DEF GoesOn, CallsOk, CallOk, CallFields
    <3>2. ASSUME calls' = [calls EXCEPT ![m] = [@ EXCEPT !.pc = "placing", !.cancelled = FALSE]] PROVE GoesOn(m) /\ calls'[m].shown # "stopped"
      BY <2>1, <2>2, <3>2 DEF GoesOn, CallsOk, CallOk, CallFields
    <3>3. ASSUME NEW k, NEW shown \in {"thinking", "nothing"},
                 calls' = [calls EXCEPT ![m] = [@ EXCEPT !.pc = "waiting", !.session = k, !.shown = shown]]
          PROVE  GoesOn(m) /\ calls'[m].shown # "stopped"
      BY <2>1, <3>3 DEF GoesOn, CallsOk, CallOk, CallFields
    <3>4. ASSUME calls' = [calls EXCEPT ![m].edit = TRUE] PROVE GoesOn(m) /\ calls'[m].shown # "stopped"
      BY <2>1, <2>2, <3>4 DEF GoesOn, CallsOk, CallOk, CallFields
    <3> QED BY <2>1, <3>1, <3>2, <3>3, <3>4
  <2> QED BY <2>1, <2>3, TaskGoesOn
<1>3. CASE Turn(m)
  <2>1. GoesOn(m) /\ calls'[m].shown = calls[m].shown
    BY <1>3, TurnGoesOn DEF Turn
  <2>2. calls[m].shown # "stopped"
    BY <2>1 DEF GoesOn, OrderInv, StopInv
  <2> QED BY <1>3, <2>1, <2>2, TaskGoesOn DEF Turn, turnVars, zulipVars
<1>4. CASE (Probe(m) /\ Ends(m)) \/ Unwind(m)
  <2>1. /\ Ends(m) /\ UNCHANGED <<posts, inbox, poller>>
        /\ calls[m].pc \in {"queued", "restoring", "probing", "syncing", "placing", "delivering"}
        /\ calls[m].pc = "queued" => calls[m].cancelled
    BY <1>4 DEF Probe, Unwind, At, turnVars
  <2>2. Free(m) /\ calls[m].shown # "stopped"
    BY <2>1 DEF Free, Alive, OrderInv, StopInv
  <2>3. calls' = [calls EXCEPT ![m] = Finish(calls[m])] /\ tails' = Forget(m)
    BY <2>1 DEF Ends
  <2> QED BY <2>1, <2>2, <2>3, TaskFinishes
<1>5. CASE Settle(m)
  <2>1. calls[m].pc = "left" /\ calls[m].shown # "stopped" /\ Free(m)
    BY <1>5 DEF Settle, OrderInv, StopInv, Free, Alive
  <2>2. EditDropped(calls[m]).place = calls[m].place /\ EditDropped(calls[m]).shown = calls[m].shown
    BY DEF EditDropped, CallsOk, CallOk, CallFields
  <2>3. CASE calls[m].cancelled
    <3>1. calls' = [calls EXCEPT ![m] = Finish(EditDropped(calls[m]))] /\ tails' = Forget(m)
      BY <1>5, <2>3 DEF Settle
    <3>2. UNCHANGED <<posts, inbox, poller>>
      BY <1>5 DEF Settle, turnVars
    <3> QED BY <2>1, <2>2, <3>1, <3>2, TaskFinishes
  <2>4. CASE ~calls[m].cancelled
    <3>1. calls' = [calls EXCEPT ![m] = [EditDropped(calls[m]) EXCEPT !.pc = "delivering"]] /\ tails' = tails
      BY <1>5, <2>4 DEF Settle
    <3>2. GoesOn(m) /\ calls'[m].shown # "stopped"
      BY <2>1, <3>1 DEF EditDropped, GoesOn, CallsOk, CallOk, CallFields
    <3> QED BY <1>5, <3>1, <3>2, TaskGoesOn DEF Settle, turnVars
  <2> QED BY <2>3, <2>4
<1>6. CASE Deliver(m)
  <2>1. calls[m].pc = "delivering" /\ Free(m) /\ Live(m) /\ ~calls[m].edit
    BY <1>6 DEF Deliver, At, OrderInv, StopInv, Free, Alive, Live, Doomed, CallsOk, CallOk
  <2>2. DOMAIN Finish(calls[m]) = CallFields
    BY DEF Finish, Ended, NoCall, CallFields
  <2> DEFINE c == [Finish(calls[m]) EXCEPT !.shown = calls[m].outcome]
  <2>3. calls' = [calls EXCEPT ![m] = c]
    BY <1>6 DEF Deliver
  <2>4. c.pc = "done" /\ c.place = calls[m].place /\ c.kind = "say" /\ ~c.edit
    BY <2>1, <2>2, FinishFields DEF CallFields
  <2> HIDE DEF c
  <2>5. tails' = Forget(m) /\ posts' = [posts EXCEPT ![calls[m].place] = Append(@, m)] /\ UNCHANGED <<inbox, poller>>
    BY <1>6 DEF Deliver
  <2> QED BY <2>1, <2>3, <2>4, <2>5, OneCall, TaskEnds
<1>7. CASE StopTopic(m)
  <2> DEFINE topic == calls[m].place
             k == owned[topic]
             handing == k # 0 /\ sessions[k].handoff # "none"
             can(n) == [calls[n] EXCEPT !.cancelled = @ \/ n \in TasksOf(topic)]
  <2>1. Stopping(m) /\ calls[m].kind = "stop" /\ ~calls[m].edit /\ m \notin TasksOf(topic)
    BY <1>7 DEF StopTopic, Stopping, OrderInv, StopInv, TasksOf
  <2>2. \A x \in Messages :
          /\ can(x).pc = calls[x].pc /\ can(x).place = calls[x].place /\ can(x).kind = calls[x].kind
          /\ can(x).prev = calls[x].prev /\ can(x).edit = calls[x].edit /\ can(x).shown = calls[x].shown
          /\ can(x).cancelled <=> calls[x].cancelled \/ x \in TasksOf(topic)
    BY DEF CallsOk, CallOk, CallFields
  <2>3. \A c : c.place = topic /\ ~c.edit => /\ Replied(c).pc = "done" /\ Replied(c).place = topic /\ Replied(c).kind = "say"
                                             /\ Replied(c).shown = "stopped" /\ ~Replied(c).edit
    <3>1. \A c : DOMAIN Finish(c) = CallFields
      BY DEF Finish, Ended, NoCall, CallFields
    <3> QED BY <3>1, FinishFields DEF Replied, CallFields
  <2>4. UNCHANGED <<posts, inbox, poller>>
    BY <1>7 DEF StopTopic, turnVars
  <2>5. CASE handing
    <3>1. calls' = [calls EXCEPT ![m] = Replied(calls[m])] /\ tails' = tails
      BY <1>7, <2>5 DEF StopTopic
    <3>2. calls'[m] = Replied(calls[m]) /\ \A x \in Messages \ {m} : calls'[x] = calls[x]
      BY <3>1, OneCall
    <3> HIDE DEF can, handing
    <3>3. /\ calls'[m].pc = "done" /\ calls'[m].place = calls[m].place /\ calls'[m].kind = "say"
          /\ calls'[m].shown = "stopped" /\ ~calls'[m].edit
      BY <2>1, <2>3, <3>2
    <3>4. \A x \in Messages \ {m} :
            /\ calls'[x].pc = calls[x].pc /\ calls'[x].place = calls[x].place /\ calls'[x].kind = calls[x].kind
            /\ calls'[x].prev = calls[x].prev /\ calls'[x].edit = calls[x].edit /\ calls'[x].shown = calls[x].shown
            /\ calls'[x].cancelled <=> calls[x].cancelled \/ (FALSE /\ x \in TasksOf(calls[m].place))
      BY <3>2
    <3>5. /\ DOMAIN tails' = Places
          /\ \A t \in Places : tails'[t] = IF FALSE /\ t = calls[m].place /\ TasksOf(t) # {} THEN 0 ELSE tails[t]
      BY <3>1 DEF OrderInv, TailInv
    <3> QED BY <2>1, <2>4, <3>3, <3>4, <3>5, TopicStopped
  <2>6. CASE ~handing
    <3>1. /\ calls' = [Cancel(TasksOf(topic)) EXCEPT ![m] = Replied(@)]
          /\ tails' = [tails EXCEPT ![topic] = IF TasksOf(topic) = {} THEN @ ELSE 0]
      BY <1>7, <2>6 DEF StopTopic
    <3>2. Cancel(TasksOf(topic)) = [n \in Messages |-> can(n)]
      BY DEF Cancel
    <3> HIDE DEF can, handing, topic
    <3>3. calls'[m] = Replied(can(m)) /\ \A x \in Messages \ {m} : calls'[x] = can(x)
      BY <3>1, <3>2
    <3>4. topic = calls[m].place
      BY DEF topic
    <3>5. /\ calls'[m].pc = "done" /\ calls'[m].place = calls[m].place /\ calls'[m].kind = "say"
          /\ calls'[m].shown = "stopped" /\ ~calls'[m].edit
      BY <2>1, <2>2, <2>3, <3>3, <3>4
    <3>6. \A x \in Messages \ {m} :
            /\ calls'[x].pc = calls[x].pc /\ calls'[x].place = calls[x].place /\ calls'[x].kind = calls[x].kind
            /\ calls'[x].prev = calls[x].prev /\ calls'[x].edit = calls[x].edit /\ calls'[x].shown = calls[x].shown
            /\ calls'[x].cancelled <=> calls[x].cancelled \/ (TRUE /\ x \in TasksOf(calls[m].place))
      BY <2>2, <3>3, <3>4
    <3>7. /\ DOMAIN tails' = Places
          /\ \A t \in Places : tails'[t] = IF TRUE /\ t = calls[m].place /\ TasksOf(t) # {} THEN 0 ELSE tails[t]
      BY <3>1, <3>4 DEF OrderInv, TailInv
    <3> QED BY <2>1, <2>4, <3>5, <3>6, <3>7, TopicStopped
  <2> QED BY <2>5, <2>6
<1> QED BY <1>1, <1>2, <1>3, <1>4, <1>5, <1>6, <1>7 DEF ZulipTask

LEMMA ZulipKeepsOrder ==
  ASSUME CallsOk, OrderInv, interface = "zulip", UNCHANGED interface, ZulipNext
  PROVE  OrderInv'
<1>1. CASE StrangerWrites \/ Register \/ CloseAll
  <2>1. calls' = calls /\ UNCHANGED <<tails, inbox, posts>> /\ (poller' # "stopped" => poller # "stopped")
    BY <1>1 DEF StrangerWrites, Register, CloseAll, turnVars
  <2> QED BY <2>1, OrderStays
<1>2. CASE UserWrites
  <2> DEFINE m == Min(Unsent)
  <2>1. m \in Messages /\ calls[m].pc = "unsent" /\ \A x \in Messages : calls[x].pc = "unsent" => m <= x
    <3>1. Unsent # {} /\ Unsent \subseteq Nat
      BY <1>2 DEF UserWrites, NextMessage, Unsent, Messages
    <3> QED BY <3>1, MinFacts DEF Unsent
  <2>2. PICK topic \in Places, kind \in {"say", "mention", "stop"} : /\ calls' = [calls EXCEPT ![m] = [NoCall EXCEPT !.pc = Written, !.place = topic, !.kind = kind]]
                            /\ inbox' = Arrives(m)
    BY <1>2 DEF UserWrites
  <2>3. UNCHANGED <<tails, posts, poller>>
    BY <1>2 DEF UserWrites, turnVars
  <2> DEFINE c == [NoCall EXCEPT !.pc = Written, !.place = topic, !.kind = kind]
  <2>4. c.pc = Written /\ ~c.edit /\ c.shown = "nothing" /\ ~c.cancelled /\ c.place = topic
    BY DEF NoCall
  <2>5. calls' = [calls EXCEPT ![m] = c]
    BY <2>2
  <2> HIDE DEF m, c
  <2>6. calls'[m] = c /\ \A x \in Messages \ {m} : calls'[x] = calls[x]
    BY <2>1, <2>5, OneCall
  <2> QED BY <2>1, <2>2, <2>3, <2>4, <2>6, MessageWritten
<1>3. CASE QueueExpires
  <2>1. \A x \in Messages : IF calls[x].pc = "unread" THEN calls'[x] = Ended(calls[x], "lost") ELSE calls'[x] = calls[x]
    BY <1>3 DEF QueueExpires
  <2>2. UNCHANGED <<tails, posts>> /\ inbox' = <<>> /\ poller # "stopped"
    BY <1>3 DEF QueueExpires, turnVars
  <2> QED BY <2>1, <2>2, MessagesLost
<1>4. CASE Poll
  <2>1. \A x \in Messages : x \in Range(inbox) <=> calls[x].pc = "unread"
    BY DEF OrderInv, InboxInv
  <2>2. UNCHANGED posts /\ inbox' = <<>> /\ poller # "stopped" /\ \A x \in Messages : ~Stopping(x)
    BY <1>4 DEF Poll
  <2>3. CASE ReloadRaises(disk')
    <3>1. \A x \in Messages : IF calls[x].pc = "unread" THEN calls'[x] = Ended(calls[x], "lost") ELSE calls'[x] = calls[x]
      BY <1>4, <2>1, <2>3 DEF Poll
    <3>2. tails' = tails
      BY <1>4, <2>3 DEF Poll
    <3> QED BY <2>2, <3>1, <3>2, MessagesLost
  <2>4. CASE ~ReloadRaises(disk')
    <3>1. \A x \in Messages : IF calls[x].pc = "unread" THEN calls'[x] = Dispatch(x) ELSE calls'[x] = calls[x]
      BY <1>4, <2>1, <2>4 DEF Poll
    <3>2. tails' = [t \in Places |-> Newest(Chained(t), tails[t])] /\ poller' = poller
      BY <1>4, <2>4 DEF Poll
    <3>3. \A x \in Messages :
            /\ Dispatch(x).pc = "queued" /\ Dispatch(x).place = calls[x].place /\ Dispatch(x).kind = calls[x].kind
            /\ Dispatch(x).cancelled = calls[x].cancelled /\ Dispatch(x).edit = calls[x].edit
            /\ Dispatch(x).shown = calls[x].shown /\ Dispatch(x).prev = Behind(x)
      BY DEF Dispatch, CallsOk, CallOk, CallFields
    <3>4. \A x \in Messages : calls[x].kind # "stop" =>
            Behind(x) = Newest({n \in Chained(calls[x].place) : n < x}, tails[calls[x].place])
      BY DEF Behind
    <3>5. \A x \in Messages : IF calls[x].pc = "unread"
           THEN /\ calls'[x].pc = "queued" /\ calls'[x].place = calls[x].place /\ calls'[x].kind = calls[x].kind
                /\ calls'[x].cancelled = calls[x].cancelled /\ calls'[x].edit = calls[x].edit
                /\ calls'[x].shown = calls[x].shown
                /\ calls[x].kind # "stop" =>
                     calls'[x].prev = Newest({n \in Chained(calls[x].place) : n < x}, tails[calls[x].place])
           ELSE calls'[x] = calls[x]
      BY <3>1, <3>3, <3>4
    <3> QED BY <2>2, <3>2, <3>5, BatchChained
  <2> QED BY <2>3, <2>4
<1>5. CASE Shutdown
  BY <1>5, AllStopped DEF Shutdown, turnVars
<1>6. CASE Restart
  BY <1>6, AllLost DEF Restart, Restarted
<1>7. ASSUME NEW m \in Messages, EditLands(m) /\ UNCHANGED zulipVars
      PROVE  OrderInv'
  BY <1>7, EditKeepsOrder DEF zulipVars
<1>8. ASSUME NEW m \in Messages, ZulipTask(m) \/ Sync(m)
      PROVE  OrderInv'
  BY <1>8, ZulipTasksKeepOrder DEF ZulipTask
<1> QED BY <1>1, <1>2, <1>3, <1>4, <1>5, <1>6, <1>7, <1>8 DEF ZulipNext, ZulipRunsOn

(* In direct mode: what is in hand comes before what is admitted, and an     *)
(* answer before every message that may still get one.                      *)
HandOrder ==
  /\ \A m, n \in Messages : m \in InHand /\ n \in Admitted => m < n
  /\ \A m, n \in Messages : m \in InHand /\ n \in InHand => m = n
  /\ \A t \in Places : \A j \in DOMAIN posts[t] : \A n \in Messages : Alive(n) => posts[t][j] < n
Increasing == \A t \in Places : \A j, k \in DOMAIN posts[t] : j < k => posts[t][j] < posts[t][k]
DirectOrder == InboxInv /\ SentInOrder /\ PostsInv /\ HandOrder /\ Increasing

LEMMA DirectMoves ==
  ASSUME DirectOrder, NEW m \in Messages,
         \A x \in Messages \ {m} : calls'[x] = calls[x],
         \/ GoesOn(m)
         \/ InHand = {} /\ m \in Admitted /\ (\A x \in Admitted : m <= x) /\ Alive(m)' /\ calls'[m].pc # "queued",
         UNCHANGED <<inbox, posts>>
  PROVE  DirectOrder'
<1>1. Alive(m) /\ Alive(m)' /\ calls'[m].pc # "queued" /\ calls[m].pc \notin {"unsent", "unread", "lost", "done"}
  BY DEF Alive, GoesOn, Admitted
<1>2. InboxInv'
  BY <1>1 DEF DirectOrder, InboxInv, Alive
<1>3. SentInOrder'
  BY <1>1 DEF DirectOrder, SentInOrder, Behindhand, Alive
<1>4. PostsInv'
  BY <1>1 DEF DirectOrder, PostsInv
<1>5. InHand' = InHand \cup {m} /\ Admitted' = Admitted \ {m}
  BY <1>1 DEF InHand, Admitted, Alive
<1>6. HandOrder'
  <2>1. \A x \in Messages : Alive(x)' <=> Alive(x)
    BY <1>1 DEF Alive
  <2>2. m \in InHand \/ (InHand = {} /\ m \in Admitted /\ \A x \in Admitted : m <= x)
    BY <1>1 DEF GoesOn, InHand
  <2> QED BY <1>5, <2>1, <2>2 DEF DirectOrder, HandOrder, Messages
<1>7. Increasing'
  BY DEF DirectOrder, Increasing
<1> QED BY <1>2, <1>3, <1>4, <1>6, <1>7 DEF DirectOrder

(* The answer goes behind the ones before it, whether it is posted or not.  *)
LEMMA DirectReplies ==
  ASSUME DirectOrder, NEW m \in Messages, calls[m].pc = "left",
         \A x \in Messages \ {m} : calls'[x] = calls[x],
         calls'[m].pc = "done", calls'[m].place = calls[m].place,
         posts' = posts \/ posts' = [posts EXCEPT ![calls[m].place] = Append(@, m)], UNCHANGED inbox
  PROVE  DirectOrder'
<1>0. Alive(m) /\ ~Alive(m)' /\ m \in InHand
  BY DEF Alive, InHand
<1>1. \A t \in Places : /\ posts[t] \in Seq(Messages)
                        /\ posts'[t] = posts[t] \/ (t = calls[m].place /\ posts'[t] = Append(posts[t], m))
  BY DEF DirectOrder, PostsInv
<1>2. \A t \in Places : \A j \in DOMAIN posts'[t] :
        \/ j \in DOMAIN posts[t] /\ posts'[t][j] = posts[t][j] /\ posts[t][j] \in Messages
        \/ t = calls[m].place /\ posts'[t][j] = m /\ j = Len(posts[t]) + 1
  BY <1>1
<1>3. InboxInv'
  BY DEF DirectOrder, InboxInv
<1>4. SentInOrder'
  BY DEF DirectOrder, SentInOrder, Behindhand
<1>5. PostsInv'
  <2>1. posts' \in [Places -> Seq(Messages)]
    <3>1. posts \in [Places -> Seq(Messages)]
      BY DEF DirectOrder, PostsInv
    <3>2. ASSUME calls[m].place \in Places PROVE Append(posts[calls[m].place], m) \in Seq(Messages)
      BY <3>1, <3>2
    <3> QED BY <3>1, <3>2
  <2>2. \A t \in Places : \A j \in DOMAIN posts'[t] : calls'[posts'[t][j]].pc = "done" /\ calls'[posts'[t][j]].place = t
    <3> SUFFICES ASSUME NEW t \in Places, NEW j \in DOMAIN posts'[t]
                 PROVE  calls'[posts'[t][j]].pc = "done" /\ calls'[posts'[t][j]].place = t
      OBVIOUS
    <3>1. CASE j \in DOMAIN posts[t] /\ posts'[t][j] = posts[t][j] /\ posts[t][j] \in Messages
      <4>1. calls[posts[t][j]].pc = "done" /\ calls[posts[t][j]].place = t
        BY <3>1 DEF DirectOrder, PostsInv
      <4> QED BY <3>1, <4>1
    <3>2. CASE t = calls[m].place /\ posts'[t][j] = m
      BY <3>2
    <3> QED BY <1>2, <3>1, <3>2
  <2> QED BY <2>1, <2>2 DEF PostsInv
<1>6. HandOrder'
  <2>1. InHand' = InHand \ {m} /\ Admitted' = Admitted
    BY <1>0 DEF InHand, Admitted, Alive
  <2>2. \A n \in Messages : Alive(n)' => Alive(n) /\ m < n
    BY <1>0 DEF DirectOrder, HandOrder, InHand, Admitted, Alive
  <2>3. ASSUME NEW t \in Places, NEW j \in DOMAIN posts'[t], NEW n \in Messages, Alive(n)' PROVE posts'[t][j] < n
    <3>1. CASE j \in DOMAIN posts[t] /\ posts'[t][j] = posts[t][j]
      BY <2>2, <2>3, <3>1 DEF DirectOrder, HandOrder
    <3>2. CASE posts'[t][j] = m
      BY <2>2, <2>3, <3>2
    <3> QED BY <1>2, <3>1, <3>2
  <2> QED BY <2>1, <2>3 DEF DirectOrder, HandOrder
<1>7. Increasing'
  <2> SUFFICES ASSUME NEW t \in Places, NEW j \in DOMAIN posts'[t], NEW k \in DOMAIN posts'[t], j < k
               PROVE  posts'[t][j] < posts'[t][k]
    BY DEF Increasing
  <2>1. j \in DOMAIN posts[t] /\ posts'[t][j] = posts[t][j]
    BY <1>1, <1>2
  <2>2. CASE k \in DOMAIN posts[t] /\ posts'[t][k] = posts[t][k]
    BY <2>1, <2>2 DEF DirectOrder, Increasing
  <2>3. CASE posts'[t][k] = m
    BY <1>0, <2>1, <2>3 DEF DirectOrder, HandOrder
  <2> QED BY <1>2, <2>2, <2>3
<1> QED BY <1>3, <1>4, <1>5, <1>6, <1>7 DEF DirectOrder

(* Messages that come, are admitted or are lost touch nobody in hand.       *)
LEMMA DirectReceives ==
  ASSUME DirectOrder, InboxInv', SentInOrder', UNCHANGED posts,
         \A x \in Messages : calls[x].pc = "done" => calls'[x].pc = "done" /\ calls'[x].place = calls[x].place,
         \/ \A x \in Messages : (x \in InHand' <=> x \in InHand) /\ (x \in Admitted' <=> x \in Admitted)
         \/ InHand' = {} /\ \A x \in Admitted' : calls[x].pc = "unread"
  PROVE  DirectOrder'
<1>1. PostsInv' /\ Increasing'
  BY DEF DirectOrder, PostsInv, Increasing
<1>2. \A x \in Messages : Alive(x) <=> x \in InHand \cup Admitted
  BY DEF InHand, Admitted, Alive
<1>3. \A x \in Messages : Alive(x)' <=> x \in InHand' \cup Admitted'
  BY DEF InHand, Admitted, Alive
<1>4. \A t \in Places : \A j \in DOMAIN posts[t] : posts[t][j] \in Messages /\ calls[posts[t][j]].pc = "done"
  BY DEF DirectOrder, PostsInv
<1>5. \A x, p \in Messages : calls[x].pc = "unread" /\ calls[p].pc = "done" => p < x
  BY DEF DirectOrder, SentInOrder, Behindhand, Messages
<1>6. HandOrder'
  BY <1>2, <1>3, <1>4, <1>5 DEF DirectOrder, HandOrder
<1> QED BY <1>1, <1>6 DEF DirectOrder

LEMMA EmptyInbox == Range(<<>>) = {} /\ <<>> \in Seq(Messages)
BY DEF Range

LEMMA DirectKeepsOrder ==
  ASSUME CallsOk, DirectOrder, interface = "direct", UNCHANGED interface, DirectNext
  PROVE  DirectOrder'
<1>1. CASE RegisterDirect
  <2>1. UNCHANGED <<calls, inbox, posts>>
    BY <1>1 DEF RegisterDirect, Register, turnVars
  <2> QED BY <2>1 DEF DirectOrder, InboxInv, SentInOrder, PostsInv, HandOrder, Increasing, Behindhand, Alive, InHand, Admitted
<1>2. CASE PeerWrites
  <2> DEFINE m == Min(Unsent)
  <2>1. m \in Messages /\ calls[m].pc = "unsent" /\ \A x \in Messages : calls[x].pc = "unsent" => m <= x
    <3>1. Unsent # {} /\ Unsent \subseteq Nat
      BY <1>2 DEF PeerWrites, NextMessage, Unsent, Messages
    <3> QED BY <3>1, MinFacts DEF Unsent
  <2>2. PICK peer \in Places : calls' = [calls EXCEPT ![m] = [NoCall EXCEPT !.pc = Written, !.place = peer]]
    BY <1>2 DEF PeerWrites
  <2>3. UNCHANGED posts /\ inbox' = Arrives(m)
    BY <1>2 DEF PeerWrites, turnVars
  <2> DEFINE c == [NoCall EXCEPT !.pc = Written, !.place = peer]
  <2>4. c.pc = Written /\ ~c.cancelled /\ c.place = peer
    BY DEF NoCall
  <2>5. calls' = [calls EXCEPT ![m] = c]
    BY <2>2
  <2> HIDE DEF m, c
  <2>6. calls'[m] = c /\ \A x \in Messages \ {m} : calls'[x] = calls[x]
    BY <2>1, <2>5, OneCall
  <2>7. InboxInv'
    BY <2>1, <2>3, <2>4, <2>6, InboxGrows DEF DirectOrder
  <2>8. SentInOrder'
    BY <2>1, <2>4, <2>6 DEF DirectOrder, SentInOrder, Behindhand, Written, Messages
  <2>9. \A x \in Messages : (x \in InHand' <=> x \in InHand) /\ (x \in Admitted' <=> x \in Admitted)
    BY <2>1, <2>4, <2>6 DEF InHand, Admitted, Alive, Written
  <2> QED BY <2>1, <2>3, <2>6, <2>7, <2>8, <2>9, DirectReceives
<1>3. CASE PollDirect \/ QueueExpires
  <2>1. /\ \A x \in Messages :
             /\ calls[x].pc = "unread" => calls'[x] = Ended(calls[x], "lost") \/ calls'[x] = [calls[x] EXCEPT !.pc = "queued"]
             /\ calls[x].pc # "unread" => calls'[x] = calls[x]
        /\ UNCHANGED posts /\ inbox' = <<>>
    <3>1. \A x \in Messages : x \in Range(inbox) <=> calls[x].pc = "unread"
      BY DEF DirectOrder, InboxInv
    <3>2. CASE PollDirect
      BY <3>1, <3>2 DEF PollDirect
    <3>3. CASE QueueExpires
      BY <3>3 DEF QueueExpires, turnVars
    <3> QED BY <1>3, <3>2, <3>3
  <2>2. \A x \in Messages :
          /\ calls[x].pc = "unread" => calls'[x].pc \in {"lost", "queued"}
          /\ calls[x].pc # "unread" => calls'[x] = calls[x]
    BY <2>1 DEF Ended, NoCall, CallsOk, CallOk, CallFields
  <2>3. InboxInv'
    BY <2>1, <2>2, EmptyInbox DEF InboxInv
  <2>4. SentInOrder'
    BY <2>2 DEF DirectOrder, SentInOrder, Behindhand
  <2>5. CASE PollDirect
    <3>1. InHand = {} /\ Admitted = {}
      BY <2>5 DEF PollDirect
    <3>2. InHand' = {} /\ \A x \in Admitted' : calls[x].pc = "unread"
      BY <2>2, <3>1 DEF InHand, Admitted, Alive
    <3> QED BY <2>1, <2>2, <2>3, <2>4, <3>2, DirectReceives
  <2>6. CASE QueueExpires
    <3>1. \A x \in Messages : calls[x].pc = "unread" => calls'[x].pc = "lost"
      BY <2>6 DEF QueueExpires, Ended, NoCall
    <3>2. \A x \in Messages : (x \in InHand' <=> x \in InHand) /\ (x \in Admitted' <=> x \in Admitted)
      BY <2>2, <3>1 DEF InHand, Admitted, Alive
    <3> QED BY <2>1, <2>2, <2>3, <2>4, <3>2, DirectReceives
  <2> QED BY <1>3, <2>5, <2>6
<1>4. CASE DirectRestart
  <2>1. calls' = Lost /\ UNCHANGED posts /\ inbox' = <<>>
    BY <1>4 DEF DirectRestart, Restarted
  <2>2. \A x \in Messages : /\ calls'[x].pc = IF calls[x].pc \in {"unsent", "done"} THEN calls[x].pc ELSE "lost"
                            /\ calls[x].pc = "done" => calls'[x].place = calls[x].place
    BY <2>1 DEF Lost, Ended, NoCall, CallsOk, CallOk, CallFields
  <2>3. InboxInv' /\ InHand' = {} /\ Admitted' = {}
    BY <2>1, <2>2, EmptyInbox DEF InboxInv, InHand, Admitted, Alive
  <2>4. SentInOrder'
    BY <2>2 DEF DirectOrder, SentInOrder, Behindhand
  <2> QED BY <2>1, <2>2, <2>3, <2>4, DirectReceives
<1>5. ASSUME NEW m \in Messages, HandleDirect(m)
      PROVE  DirectOrder'
  <2>1. InHand = {} /\ m \in Admitted /\ \A x \in Admitted : m <= x
    <3>1. Admitted # {} /\ m = Min(Admitted) /\ InHand = {}
      BY <1>5 DEF HandleDirect
    <3>2. Admitted \subseteq Nat
      BY DEF Admitted, Messages
    <3> QED BY <3>1, <3>2, MinFacts
  <2>2. \E k : calls' = [calls EXCEPT ![m] = [@ EXCEPT !.pc = "waiting", !.session = k]]
    BY <1>5 DEF HandleDirect, InSession
  <2>3. calls'[m].pc = "waiting" /\ \A x \in Messages \ {m} : calls'[x] = calls[x]
    BY <2>2 DEF CallsOk, CallOk, CallFields
  <2>4. UNCHANGED <<inbox, posts>>
    BY <1>5 DEF HandleDirect, turnVars, zulipVars
  <2> QED BY <2>1, <2>3, <2>4, DirectMoves DEF Alive
<1>6. ASSUME NEW m \in Messages, Reply(m)
      PROVE  DirectOrder'
  <2>1. PICK shown \in {"answer", "nothing"} : calls' = [calls EXCEPT ![m] = [Finish(calls[m]) EXCEPT !.shown = shown]]
    BY <1>6 DEF Reply
  <2> DEFINE c == [Finish(calls[m]) EXCEPT !.shown = shown]
  <2>2. c.pc = "done" /\ c.place = calls[m].place
    BY FinishFields DEF Finish, Ended, NoCall
  <2> HIDE DEF c
  <2>3. calls'[m] = c /\ \A x \in Messages \ {m} : calls'[x] = calls[x]
    BY <2>1, OneCall DEF c
  <2>4. /\ calls[m].pc = "left" /\ UNCHANGED inbox
        /\ posts' = posts \/ posts' = [posts EXCEPT ![calls[m].place] = Append(@, m)]
    BY <1>6 DEF Reply, directVars, zulipVars
  <2> QED BY <2>2, <2>3, <2>4, DirectReplies
<1>7. ASSUME NEW m \in Messages, TurnStep(m), UNCHANGED <<turnVars, directVars>>
      PROVE  DirectOrder'
  <2>1. GoesOn(m) /\ UNCHANGED <<inbox, posts>>
    BY <1>7, TurnGoesOn DEF turnVars, directVars, zulipVars
  <2> QED BY <2>1, DirectMoves DEF GoesOn
<1> QED BY <1>1, <1>2, <1>3, <1>4, <1>5, <1>6, <1>7 DEF DirectNext

(* The calls are whole, and an interface that answers in order has what it   *)
(* takes to do so.                                                           *)
Ordered == CallsOk /\ (interface = "zulip" => OrderInv) /\ (interface = "direct" => DirectOrder)

LEMMA AlwaysOrdered == Spec => []Ordered
<1> USE DEF Ordered
<1>1. Init => Ordered
  <2> SUFFICES ASSUME Init PROVE Ordered
    OBVIOUS
  <2>1. DOMAIN calls = Messages /\ (\A x \in Messages : calls[x] = NoCall) /\ posts = [t \in Places |-> <<>>]
        /\ inbox = <<>> /\ tails = [t \in Places |-> 0]
    BY DEF Init, SharedInit, ZulipInit
  <2>2. \A x \in Messages : calls[x].pc = "unsent" /\ calls[x].kind = "say" /\ calls[x].shown = "nothing"
    BY <2>1 DEF NoCall
  <2>3. \A x \in Messages : ~Alive(x) /\ ~Live(x)
    BY <2>2 DEF Alive, Live
  <2>4. CallsOk
    BY <2>1, NoCallOk DEF CallsOk
  <2>5. InboxInv /\ SentInOrder
    BY <2>1, <2>2, EmptyInbox DEF InboxInv, SentInOrder
  <2>6. PostsInv /\ InOrder /\ Increasing
    <3>1. \A t \in Places : posts[t] \in Seq(Messages) /\ DOMAIN posts[t] = {}
      BY <2>1
    <3> QED BY <2>1, <3>1 DEF PostsInv, InOrder, Increasing
  <2>7. StopInv /\ TailInv /\ ChainInv
    BY <2>1, <2>2, <2>3 DEF StopInv, TailInv, ChainInv, Ahead
  <2>8. HandOrder
    BY <2>2, <2>3 DEF HandOrder, InHand, Admitted
  <2> QED BY <2>4, <2>5, <2>6, <2>7, <2>8 DEF OrderInv, DirectOrder
<1>2. Ordered /\ [Next]_vars => Ordered'
  <2> SUFFICES ASSUME Ordered, [Next]_vars PROVE Ordered'
    OBVIOUS
  <2>1. CallsOk'
    BY CallsStay
  <2>2. CASE interface = "zulip" /\ ZulipNext /\ UNCHANGED interface
    BY <2>1, <2>2, ZulipKeepsOrder
  <2>3. CASE interface = "direct" /\ DirectNext /\ UNCHANGED interface
    BY <2>1, <2>3, DirectKeepsOrder
  <2>4. CASE interface \notin {"zulip", "direct"} /\ UNCHANGED interface
    BY <2>1, <2>4
  <2>5. CASE UNCHANGED vars
    <3>1. UNCHANGED <<interface, calls, posts, inbox, tails, poller>>
      BY <2>5 DEF vars, sharedVars, zulipVars
    <3>2. OrderInv => OrderInv'
      BY <3>1, OrderStays
    <3>3. DirectOrder => DirectOrder'
      BY <3>1 DEF DirectOrder, InboxInv, SentInOrder, PostsInv, HandOrder, Increasing, Behindhand, Alive, InHand, Admitted
    <3> QED BY <2>1, <3>1, <3>2, <3>3
  <2> QED BY <2>2, <2>3, <2>4, <2>5 DEF Next, Settled
<1> QED BY <1>1, <1>2, PTL DEF Spec

(* The answers of a topic come in the order of its messages, around stops   *)
(* that were replied to apart, for every number of places, messages and      *)
(* events; in direct mode they always do.                                   *)
THEOREM AnswersComeInOrder == Spec => []AnswersInOrder
<1>1. Ordered => AnswersInOrder
  BY DEF Ordered, OrderInv, InOrder, DirectOrder, Increasing, AnswersInOrder
<1> QED BY <1>1, AlwaysOrdered, PTL

(***************************************************************************)
(* Conversations.                                                          *)
(***************************************************************************)
Locked == {"opening", "seeded", "streaming", "handing", "closing"}
InSessionPcs == Locked \cup {"waiting"}
Early == {"unsent", "unread", "queued", "restoring", "probing", "syncing", "stopping", "threading"}

Distinct(q) == \A i, j \in DOMAIN q : q[i] = q[j] => i = j

(* What leaves the lock's queue leaves the others as they are.              *)
LEMMA QueueWithout ==
  ASSUME NEW S, NEW q \in Seq(S), Distinct(q), NEW m \in Range(q)
  PROVE  LET r == RemoveFirst(q, m)
         IN  /\ r \in Seq(S) /\ Distinct(r) /\ Range(r) = Range(q) \ {m}
             /\ q[1] # m => r # <<>> /\ r[1] = q[1]
<1> DEFINE r == RemoveFirst(q, m)
<1>1. PICK i \in DOMAIN q : q[i] = m
  BY DEF Range
<1>2. DOMAIN q = 1..Len(q) /\ Len(q) \in Nat
  OBVIOUS
<1>3. {j \in 1..Len(q) : q[j] = m} = {i}
  BY <1>1, <1>2 DEF Distinct
<1>4. Min({i}) = i
  <2>1. {i} \subseteq Nat /\ {i} # {}
    BY <1>2
  <2> QED BY <2>1, MinFacts
<1>5. r = SubSeq(q, 1, i - 1) \o SubSeq(q, i + 1, Len(q))
  BY <1>1, <1>2, <1>3, <1>4 DEF RemoveFirst, RemoveAt, SelectInSeq
<1> HIDE DEF r
<1>6. /\ r \in Seq(S) /\ Len(r) = Len(q) - 1
      /\ \A j \in 1..Len(r) : r[j] = q[IF j < i THEN j ELSE j + 1]
  <2> DEFINE a == SubSeq(q, 1, i - 1)
             b == SubSeq(q, i + 1, Len(q))
  <2>1. i \in 1..Len(q)
    BY <1>1, <1>2
  <2>2. a \in Seq(S) /\ Len(a) = i - 1 /\ \A j \in 1..(i - 1) : a[j] = q[j]
    BY <1>2, <2>1
  <2>3. b \in Seq(S) /\ Len(b) = Len(q) - i /\ \A j \in 1..(Len(q) - i) : b[j] = q[j + i]
    BY <1>2, <2>1
  <2>4. r = a \o b
    BY <1>5
  <2> HIDE DEF a, b
  <2>5. /\ r \in Seq(S) /\ Len(r) = Len(a) + Len(b)
        /\ \A j \in 1..(Len(a) + Len(b)) : r[j] = IF j <= Len(a) THEN a[j] ELSE b[j - Len(a)]
    <3>1. a \in Seq(S) /\ b \in Seq(S)
      BY <2>2, <2>3
    <3>2. r \in Seq(S) /\ Len(r) = Len(a) + Len(b)
      BY <2>4, <3>1
    <3>3. \A j \in 1..(Len(a) + Len(b)) : r[j] = IF j <= Len(a) THEN a[j] ELSE b[j - Len(a)]
      BY <2>4, <3>1
    <3> QED BY <3>2, <3>3
  <2>6. ASSUME NEW j \in 1..Len(r)
        PROVE  r[j] = q[IF j < i THEN j ELSE j + 1]
    <3>1. CASE j < i
      BY <1>2, <2>1, <2>2, <2>3, <2>5, <3>1
    <3>2. CASE j >= i
      <4>1. j - (i - 1) \in 1..(Len(q) - i)
        BY <1>2, <2>1, <2>2, <2>3, <2>5, <3>2
      <4>2. r[j] = b[j - (i - 1)] /\ (j - (i - 1)) + i = j + 1
        BY <1>2, <2>1, <2>2, <2>3, <2>5, <3>2
      <4> QED BY <2>1, <2>3, <3>2, <4>1, <4>2
    <3> QED BY <2>1, <3>1, <3>2
  <2> QED BY <1>2, <2>1, <2>2, <2>3, <2>5, <2>6
<1>7. DOMAIN r = 1..Len(r)
  BY <1>6
<1>8. Distinct(r)
  <2> SUFFICES ASSUME NEW j \in DOMAIN r, NEW l \in DOMAIN r, r[j] = r[l] PROVE j = l
    BY DEF Distinct
  <2>1. \A x \in DOMAIN r : (IF x < i THEN x ELSE x + 1) \in DOMAIN q /\ x \in Nat
    BY <1>1, <1>2, <1>6, <1>7
  <2>2. (IF j < i THEN j ELSE j + 1) = (IF l < i THEN l ELSE l + 1)
    BY <1>6, <1>7, <2>1 DEF Distinct
  <2> QED BY <1>1, <1>2, <2>1, <2>2
<1>9. Range(r) = Range(q) \ {m}
  <2>1. \A j \in DOMAIN r : r[j] \in Range(q) \ {m}
    BY <1>1, <1>2, <1>6, <1>7 DEF Distinct, Range
  <2>2. ASSUME NEW j \in DOMAIN q, q[j] # m
        PROVE  q[j] \in Range(r)
    <3>1. CASE j < i
      <4>1. j \in DOMAIN r /\ r[j] = q[j]
        BY <1>1, <1>2, <1>6, <1>7, <3>1
      <4> QED BY <4>1 DEF Range
    <3>2. CASE j > i
      <4>1. j - 1 \in DOMAIN r /\ r[j - 1] = q[j]
        BY <1>1, <1>2, <1>6, <1>7, <3>2
      <4> QED BY <4>1 DEF Range
    <3> QED BY <1>1, <1>2, <2>2, <3>1, <3>2
  <2> QED BY <2>1, <2>2 DEF Range
<1>10. q[1] # m => r # <<>> /\ r[1] = q[1]
  BY <1>1, <1>2, <1>6, <1>7
<1> QED BY <1>6, <1>8, <1>9, <1>10 DEF r

(* A message with a place of its own for good.                              *)
Placed(n, p) == n \in Messages /\ calls[n].place = p /\ calls[n].pc \notin Early

(* A history of messages of one place.                                      *)
Line == [role : {"user", "assistant", "stopped"}, of : SUBSET (Messages \cup {0})]
HistoryOf(h, p) == h \in Seq(Line) /\ \A j \in DOMAIN h : \A n \in h[j].of \ {0} : Placed(n, p)

(* The lock of a Session: who holds it and who waits, of its own turns.     *)
QueueOk(k) ==
  /\ sessions[k].queue \in Seq(Messages) /\ Distinct(sessions[k].queue)
  /\ \A n \in Range(sessions[k].queue) : calls[n].session = k /\ calls[n].pc \in InSessionPcs
CallerOk(k) ==
  sessions[k].handoff # "none" =>
    /\ sessions[k].caller \in Messages /\ calls[sessions[k].caller].session = k
    /\ calls[sessions[k].caller].pc \in {"handing", "closing"}
SessionApart(k) ==
  /\ DOMAIN sessions[k] = SessionFields /\ sessions[k].turn \in Int /\ sessions[k].place \in Places
  /\ HistoryOf(sessions[k].history, sessions[k].place) /\ QueueOk(k) /\ CallerOk(k)

EndsWith(h, l) == h # <<>> /\ h[Len(h)] = l
TurnApart(m) ==
  calls[m].pc \in InSessionPcs =>
    /\ calls[m].session \in DOMAIN sessions /\ Of(m).place = calls[m].place /\ m \in Range(Of(m).queue)
    /\ calls[m].pc \in Locked => Of(m).queue[1] = m
    /\ InTurn(m) => EndsWith(Of(m).history, User(m))
    /\ calls[m].pc \in {"handing", "closing"} => Of(m).handoff # "none" /\ Of(m).caller = m
HasPlace(m) == calls[m].pc # "unsent" => calls[m].place \in Places

Entry == [turn : Int, role : {"user", "assistant"}, of : SUBSET Messages]
ArchiveApart ==
  /\ archive \in [Places -> Seq(Entry)]
  /\ \A p \in Places : \A j \in DOMAIN archive[p] : \A n \in archive[p][j].of : Placed(n, p)

ApartInv ==
  /\ sessions \in Seq(Elements(sessions)) /\ \A k \in DOMAIN sessions : SessionApart(k)
  /\ \A m \in Messages : TurnApart(m) /\ HasPlace(m)
  /\ ArchiveApart

(* A step leaves a Session's conversation alone, or gives one to a Session  *)
(* that nobody uses yet.                                                    *)
SameTalk(s, t) ==
  /\ DOMAIN t = SessionFields /\ t.place = s.place /\ t.queue = s.queue /\ t.turn = s.turn /\ t.ready = s.ready
  /\ t.history = s.history \/ (s.queue = <<>> /\ HistoryOf(t.history, s.place))
  /\ t.caller = s.caller /\ (t.handoff = "none" <=> s.handoff = "none")

KeepsPlace(m) ==
  /\ calls[m].pc \notin Early => calls'[m].pc \notin Early /\ calls'[m].place = calls[m].place
  /\ HasPlace(m)'
Outside(m) == calls[m].pc \notin InSessionPcs /\ calls'[m].pc \notin InSessionPcs
Steady(m) == calls'[m].pc = calls[m].pc /\ calls'[m].session = calls[m].session /\ calls'[m].place = calls[m].place

(* ... and it leaves the archive and the turn numbers alone, unless it is a  *)
(* turn's.                                                                  *)
SameNumbers(k) ==
  /\ k \in DOMAIN sessions /\ sessions'[k].place = sessions[k].place
  /\ sessions'[k].turn = sessions[k].turn /\ sessions'[k].ready = sessions[k].ready
Queuing(m) == calls[m].pc \notin InSessionPcs /\ calls'[m].pc = "waiting"
NumbersStay ==
  /\ UNCHANGED archive
  /\ \A k \in DOMAIN sessions' : sessions'[k].ready => SameNumbers(k)
  /\ \A m \in Messages : calls'[m].pc \in InSessionPcs => Queuing(m) \/ (Steady(m) /\ SameNumbers(calls[m].session))
OneTurn(m) ==
  /\ calls[m].pc \in InSessionPcs /\ calls'[m].session = calls[m].session /\ calls'[m].place = calls[m].place
  /\ calls'[m].pc \notin Early /\ \A n \in Messages \ {m} : calls'[n] = calls[n]
TurnFrame(m) ==
  /\ OneTurn(m) /\ calls'[m].pc \in InSessionPcs \cup {"left"} /\ DOMAIN sessions' = DOMAIN sessions
  /\ calls[m].session \in DOMAIN sessions /\ sessions'[calls[m].session].place = Of(m).place
  /\ \A j \in DOMAIN sessions : j # calls[m].session => sessions'[j] = sessions[j]
ApartStep == ApartInv' /\ (NumbersStay \/ \E m \in Messages : TurnStep(m) /\ TurnFrame(m))

LEMMA HistoryStays ==
  ASSUME \A m \in Messages : KeepsPlace(m), NEW h, NEW p, HistoryOf(h, p)
  PROVE  HistoryOf(h, p)'
BY DEF HistoryOf, KeepsPlace, Placed

LEMMA ArchiveStays ==
  ASSUME \A m \in Messages : KeepsPlace(m), ArchiveApart, UNCHANGED archive
  PROVE  ArchiveApart'
BY DEF ArchiveApart, KeepsPlace, Placed

LEMMA TalksStay ==
  ASSUME ApartInv, sessions' \in Seq(Elements(sessions')), DOMAIN sessions' = DOMAIN sessions,
         \A k \in DOMAIN sessions : SameTalk(sessions[k], sessions'[k]), UNCHANGED archive,
         \A m \in Messages : KeepsPlace(m) /\ (Outside(m) \/ Steady(m))
  PROVE  ApartStep
<1>1. ASSUME NEW k \in DOMAIN sessions
      PROVE  SessionApart(k)'
  <2>1. SessionApart(k) /\ SameTalk(sessions[k], sessions'[k])
    BY DEF ApartInv
  <2>2. HistoryOf(sessions[k].history, sessions[k].place) /\ QueueOk(k) /\ CallerOk(k)
    BY <2>1 DEF SessionApart
  <2>3. HistoryOf(sessions'[k].history, sessions[k].place)
    BY <2>1, <2>2 DEF SameTalk
  <2>4. HistoryOf(sessions[k].history, sessions[k].place)'
    <3> DEFINE h == sessions'[k].history
    <3>1. \A n, p : Placed(n, p) => Placed(n, p)'
      BY DEF KeepsPlace, Placed
    <3>2. sessions'[k].place = sessions[k].place
      BY <2>1 DEF SameTalk
    <3> QED BY <2>3, <3>1, <3>2 DEF HistoryOf
  <2>5. \A n \in Range(sessions[k].queue) : n \in Messages /\ calls'[n].session = k /\ calls'[n].pc \in InSessionPcs
    <3>1. \A n \in Range(sessions[k].queue) : n \in Messages
      BY <2>2 DEF QueueOk, Range
    <3> QED BY <2>2, <3>1 DEF QueueOk, Outside, Steady
  <2>6. QueueOk(k)'
    BY <2>1, <2>2, <2>5 DEF QueueOk, SameTalk
  <2>7. CallerOk(k)'
    BY <2>1, <2>2 DEF CallerOk, SameTalk, Outside, Steady, InSessionPcs, Locked
  <2> QED BY <2>1, <2>4, <2>6, <2>7 DEF SessionApart, SameTalk
<1>2. ASSUME NEW m \in Messages
      PROVE  TurnApart(m)'
  <2> SUFFICES ASSUME calls'[m].pc \in InSessionPcs PROVE TurnApart(m)'
    BY DEF TurnApart
  <2>1. Steady(m) /\ calls[m].pc \in InSessionPcs
    BY DEF Outside, Steady
  <2> DEFINE k == calls[m].session
  <2>2. TurnApart(m) /\ k \in DOMAIN sessions /\ SameTalk(sessions[k], sessions'[k]) /\ m \in Range(sessions[k].queue)
    BY <2>1 DEF ApartInv, TurnApart, Of
  <2>3. sessions[k].queue # <<>>
    BY <2>2 DEF Range
  <2> QED BY <2>1, <2>2, <2>3 DEF TurnApart, Steady, SameTalk, Of, InTurn
<1>3. ArchiveApart'
  BY ArchiveStays DEF ApartInv
<1>4. \A k \in DOMAIN sessions : SameNumbers(k)
  BY DEF SameNumbers, SameTalk
<1>5. NumbersStay
  <2>1. ASSUME NEW m \in Messages, calls'[m].pc \in InSessionPcs
        PROVE  Steady(m) /\ SameNumbers(calls[m].session)
    BY <1>4, <2>1 DEF Outside, Steady, ApartInv, TurnApart
  <2> QED BY <1>4, <2>1 DEF NumbersStay
<1> QED BY <1>1, <1>2, <1>3, <1>5 DEF ApartInv, ApartStep, KeepsPlace

OwnTalk(t) ==
  /\ DOMAIN t = SessionFields /\ t.turn \in Int /\ t.place \in Places /\ t.handoff = "none" /\ ~t.ready
  /\ HistoryOf(t.history, t.place)

(* What the parts say of a Session and of a turn that a step leaves alone.  *)
LEMMA TalkStays ==
  ASSUME ApartInv, NEW k \in DOMAIN sessions, SameTalk(sessions[k], sessions'[k]),
         \A m \in Messages : KeepsPlace(m) /\ (calls[m].pc \in InSessionPcs /\ calls[m].session = k => Steady(m))
  PROVE  SessionApart(k)'
<1>1. SessionApart(k) /\ HistoryOf(sessions[k].history, sessions[k].place) /\ QueueOk(k) /\ CallerOk(k)
  BY DEF ApartInv, SessionApart
<1>2. HistoryOf(sessions[k].history, sessions[k].place)'
  <2>1. HistoryOf(sessions'[k].history, sessions[k].place)
    BY <1>1 DEF SameTalk
  <2>2. \A n, p : Placed(n, p) => Placed(n, p)'
    BY DEF KeepsPlace, Placed
  <2>3. sessions'[k].place = sessions[k].place
    BY DEF SameTalk
  <2> QED BY <2>1, <2>2, <2>3 DEF HistoryOf
<1>3. \A n \in Range(sessions[k].queue) : n \in Messages /\ calls'[n].session = k /\ calls'[n].pc \in InSessionPcs
  <2>1. \A n \in Range(sessions[k].queue) : n \in Messages
    BY <1>1 DEF QueueOk, Range
  <2> QED BY <1>1, <2>1 DEF QueueOk, Steady
<1>4. QueueOk(k)'
  BY <1>1, <1>3 DEF QueueOk, SameTalk
<1>5. CallerOk(k)'
  BY <1>1 DEF CallerOk, SameTalk, Steady, InSessionPcs, Locked
<1> QED BY <1>1, <1>2, <1>4, <1>5 DEF SessionApart, SameTalk

LEMMA TurnStays ==
  ASSUME ApartInv, NEW m \in Messages, Steady(m),
         calls[m].pc \in InSessionPcs =>
           calls[m].session \in DOMAIN sessions' /\ SameTalk(sessions[calls[m].session], sessions'[calls[m].session])
  PROVE  TurnApart(m)'
<1> SUFFICES ASSUME calls'[m].pc \in InSessionPcs PROVE TurnApart(m)'
  BY DEF TurnApart
<1>1. calls[m].pc \in InSessionPcs
  BY DEF Steady
<1> DEFINE k == calls[m].session
<1>2. TurnApart(m) /\ SameTalk(sessions[k], sessions'[k]) /\ m \in Range(sessions[k].queue)
  BY <1>1 DEF ApartInv, TurnApart, Of
<1>3. sessions[k].queue # <<>>
  BY <1>2 DEF Range
<1> QED BY <1>1, <1>2, <1>3 DEF TurnApart, Steady, SameTalk, Of, InTurn

LEMMA TalkOpens ==
  ASSUME ApartInv, sessions' \in Seq(Elements(sessions')), NEW k, k \notin DOMAIN sessions,
         DOMAIN sessions' = DOMAIN sessions \cup {k},
         \A j \in DOMAIN sessions : SameTalk(sessions[j], sessions'[j]), UNCHANGED archive,
         OwnTalk(sessions'[k]), sessions'[k].queue = <<>>,
         \A m \in Messages : KeepsPlace(m) /\ (Outside(m) \/ Steady(m))
  PROVE  ApartStep
<1>1. \A j \in DOMAIN sessions : SessionApart(j)'
  BY TalkStays DEF Outside
<1>2. SessionApart(k)'
  <2>1. HistoryOf(sessions[k].history, sessions[k].place)'
    <3>1. \A n, p : Placed(n, p) => Placed(n, p)'
      BY DEF KeepsPlace, Placed
    <3> QED BY <3>1 DEF HistoryOf, OwnTalk
  <2>2. QueueOk(k)'
    BY DEF QueueOk, Distinct, Range
  <2> QED BY <2>1, <2>2 DEF SessionApart, OwnTalk, CallerOk
<1>3. ASSUME NEW m \in Messages
      PROVE  TurnApart(m)'
  <2>1. CASE Outside(m)
    BY <2>1 DEF Outside, TurnApart
  <2>2. CASE Steady(m)
    BY <2>2, TurnStays DEF ApartInv, TurnApart
  <2> QED BY <2>1, <2>2
<1>4. ArchiveApart'
  BY ArchiveStays DEF ApartInv
<1>5. \A j \in DOMAIN sessions : SameNumbers(j)
  BY DEF SameNumbers, SameTalk
<1>6. NumbersStay
  <2>1. ASSUME NEW j \in DOMAIN sessions', sessions'[j].ready
        PROVE  SameNumbers(j)
    BY <1>5, <2>1 DEF OwnTalk
  <2>2. ASSUME NEW m \in Messages, calls'[m].pc \in InSessionPcs
        PROVE  Steady(m) /\ SameNumbers(calls[m].session)
    BY <1>5, <2>2 DEF Outside, Steady, ApartInv, TurnApart
  <2> QED BY <2>1, <2>2 DEF NumbersStay
<1> QED BY <1>1, <1>2, <1>3, <1>4, <1>6 DEF ApartInv, ApartStep, KeepsPlace

(* A turn queues for its Session, an old or a new one.                      *)
Queues(s, t, m) ==
  /\ DOMAIN t = SessionFields /\ t.place = s.place /\ t.queue = Append(s.queue, m) /\ t.turn = s.turn
  /\ t.ready = s.ready /\ t.history = s.history /\ t.caller = s.caller /\ t.handoff = s.handoff

LEMMA TurnEnters ==
  ASSUME ApartInv, sessions' \in Seq(Elements(sessions')), NEW k, DOMAIN sessions' = DOMAIN sessions \cup {k},
         \A j \in DOMAIN sessions \ {k} : SameTalk(sessions[j], sessions'[j]), UNCHANGED archive,
         NEW m \in Messages, calls[m].pc \notin InSessionPcs, calls'[m].pc = "waiting", calls'[m].session = k,
         calls'[m].place = sessions'[k].place,
         \/ k \in DOMAIN sessions /\ Queues(sessions[k], sessions'[k], m)
         \/ k \notin DOMAIN sessions /\ OwnTalk(sessions'[k]) /\ sessions'[k].queue = <<m>>,
         \A n \in Messages : KeepsPlace(n), \A n \in Messages \ {m} : Steady(n)
  PROVE  ApartStep
<1>1. ASSUME NEW j \in DOMAIN sessions, j # k
      PROVE  SessionApart(j)'
  BY <1>1, TalkStays
<1>2. \A n, p : Placed(n, p) => Placed(n, p)'
  BY DEF KeepsPlace, Placed
<1>3. SessionApart(k)' /\ m \in Range(sessions'[k].queue)
       /\ \A n \in Messages \ {m} : TurnApart(n) /\ calls[n].pc \in InSessionPcs /\ calls[n].session = k => TurnApart(n)'
  <2>1. CASE k \in DOMAIN sessions
    <3> DEFINE q == sessions[k].queue
               r == sessions'[k].queue
    <3>1. SessionApart(k) /\ Queues(sessions[k], sessions'[k], m) /\ QueueOk(k) /\ CallerOk(k)
      BY <2>1 DEF ApartInv, SessionApart
    <3>2. q \in Seq(Messages) /\ Len(q) \in Nat /\ DOMAIN q = 1..Len(q) /\ m \notin Range(q)
      BY <3>1 DEF QueueOk
    <3>3. /\ r \in Seq(Messages) /\ Len(r) = Len(q) + 1 /\ DOMAIN r = 1..Len(r)
          /\ r[Len(q) + 1] = m /\ \A i \in 1..Len(q) : r[i] = q[i]
      BY <3>1, <3>2 DEF Queues
    <3> HIDE DEF q, r
    <3>4. Range(r) = Range(q) \cup {m}
      BY <3>2, <3>3 DEF Range
    <3>5. Distinct(r)
      <4>1. Distinct(q)
        BY <3>1 DEF QueueOk, q
      <4>2. \A i \in DOMAIN q : q[i] # m
        BY <3>2 DEF Range
      <4> QED BY <3>2, <3>3, <4>1, <4>2 DEF Distinct
    <3>6. Range(q) \subseteq Messages
      BY <3>2 DEF Range
    <3>7. \A n \in Range(r) : calls'[n].session = k /\ calls'[n].pc \in InSessionPcs
      <4>1. \A n \in Range(q) : n \in Messages /\ calls[n].session = k /\ calls[n].pc \in InSessionPcs
        BY <3>1, <3>6 DEF QueueOk, q
      <4> QED BY <3>4, <4>1 DEF Steady, InSessionPcs
    <3>8. QueueOk(k)'
      BY <3>3, <3>5, <3>7 DEF QueueOk, r
    <3>9. CallerOk(k)'
      BY <3>1 DEF CallerOk, Queues, Steady, InSessionPcs, Locked
    <3>10. HistoryOf(sessions[k].history, sessions[k].place)'
      BY <1>2, <3>1 DEF HistoryOf, Queues, SessionApart
    <3>11. SessionApart(k)'
      BY <3>1, <3>8, <3>9, <3>10 DEF SessionApart, Queues
    <3>12. ASSUME NEW n \in Messages \ {m}, TurnApart(n), calls[n].pc \in InSessionPcs, calls[n].session = k
           PROVE  TurnApart(n)'
      <4>1. Steady(n) /\ n \in Range(q) /\ n \in Range(r)
        BY <3>4, <3>12 DEF TurnApart, Of, q
      <4>2. r[1] = q[1]
        BY <3>2, <3>3, <4>1 DEF Range
      <4> QED BY <2>1, <3>1, <3>12, <4>1, <4>2 DEF TurnApart, Steady, Queues, Of, InTurn, q, r
    <3> QED BY <3>4, <3>11, <3>12 DEF r
  <2>2. CASE k \notin DOMAIN sessions
    <3>1. OwnTalk(sessions'[k]) /\ sessions'[k].queue = <<m>>
      BY <2>2
    <3>2. Range(<<m>>) = {m} /\ <<m>> \in Seq(Messages) /\ Distinct(<<m>>)
      BY DEF Range, Distinct
    <3>3. QueueOk(k)'
      BY <3>1, <3>2 DEF QueueOk, InSessionPcs
    <3>4. HistoryOf(sessions[k].history, sessions[k].place)'
      BY <1>2, <3>1 DEF HistoryOf, OwnTalk
    <3>5. SessionApart(k)'
      BY <3>1, <3>3, <3>4 DEF SessionApart, OwnTalk, CallerOk
    <3> QED BY <2>2, <3>1, <3>2, <3>5 DEF TurnApart
  <2> QED BY <2>1, <2>2
<1>4. ASSUME NEW n \in Messages \ {m}
      PROVE  TurnApart(n)'
  <2>1. CASE calls[n].pc \in InSessionPcs /\ calls[n].session = k
    BY <1>3, <2>1 DEF ApartInv
  <2>2. CASE ~(calls[n].pc \in InSessionPcs /\ calls[n].session = k)
    BY <2>2, TurnStays DEF ApartInv, TurnApart
  <2> QED BY <2>1, <2>2
<1>5. TurnApart(m)'
  BY <1>3 DEF TurnApart, Of, InTurn, Locked
<1>6. ArchiveApart'
  BY ArchiveStays DEF ApartInv
<1>7. \A j \in DOMAIN sessions : SameNumbers(j)
  BY DEF SameNumbers, SameTalk, Queues
<1>8. NumbersStay
  <2>1. ASSUME NEW j \in DOMAIN sessions', sessions'[j].ready
        PROVE  SameNumbers(j)
    BY <1>7, <2>1 DEF OwnTalk
  <2>2. ASSUME NEW n \in Messages, calls'[n].pc \in InSessionPcs
        PROVE  Queuing(n) \/ (Steady(n) /\ SameNumbers(calls[n].session))
    BY <1>7, <2>2 DEF Queuing, Steady, ApartInv, TurnApart
  <2> QED BY <2>1, <2>2 DEF NumbersStay
<1> QED BY <1>1, <1>3, <1>4, <1>5, <1>6, <1>8 DEF ApartInv, ApartStep, KeepsPlace

LEMMA HistoryGrows ==
  ASSUME NEW h, NEW p, HistoryOf(h, p), NEW l \in Line, \A n \in l.of \ {0} : Placed(n, p)
  PROVE  HistoryOf(Append(h, l), p) /\ EndsWith(Append(h, l), l)
<1>1. h \in Seq(Line) /\ Len(h) \in Nat /\ DOMAIN h = 1..Len(h)
  BY DEF HistoryOf
<1>2. /\ Append(h, l) \in Seq(Line) /\ Len(Append(h, l)) = Len(h) + 1 /\ DOMAIN Append(h, l) = 1..(Len(h) + 1)
      /\ Append(h, l)[Len(h) + 1] = l /\ \A i \in 1..Len(h) : Append(h, l)[i] = h[i]
  BY <1>1
<1>3. \A j \in 1..(Len(h) + 1) : j \in 1..Len(h) \/ j = Len(h) + 1
  BY <1>1
<1> QED BY <1>1, <1>2, <1>3 DEF HistoryOf, EndsWith

LEMMA NewestTurn ==
  ASSUME ArchiveApart, NEW p \in Places
  PROVE  /\ LastTurn(p) \in Int /\ LastTurn(p) >= -1
         /\ \A j \in DOMAIN archive[p] : archive[p][j].turn <= LastTurn(p)
<1> DEFINE e == archive[p]
           S(n) == {-1} \cup {e[j].turn : j \in 1..n}
           HasMax(n) == \E x \in S(n) : \A y \in S(n) : x >= y
           Bad == {n \in 0..Len(e) : ~HasMax(n)}
<1>1. e \in Seq(Entry) /\ Len(e) \in Nat /\ DOMAIN e = 1..Len(e) /\ \A j \in 1..Len(e) : e[j].turn \in Int
  <2>1. e \in Seq(Entry)
    BY DEF ArchiveApart
  <2>2. Len(e) \in Nat /\ DOMAIN e = 1..Len(e) /\ \A j \in 1..Len(e) : e[j] \in Entry
    BY <2>1
  <2> HIDE DEF e
  <2> QED BY <2>1, <2>2 DEF Entry
<1> HIDE DEF e
<1>2. HasMax(0)
  OBVIOUS
<1>3. ASSUME NEW n \in 1..Len(e), HasMax(n - 1)
      PROVE  HasMax(n)
  <2>1. S(n) = S(n - 1) \cup {e[n].turn} /\ e[n].turn \in Int /\ S(n - 1) \subseteq Int
    BY <1>1
  <2>2. PICK x \in S(n - 1) : \A y \in S(n - 1) : x >= y
    BY <1>3
  <2> HIDE DEF S
  <2>3. CASE x >= e[n].turn
    BY <2>1, <2>2, <2>3
  <2>4. CASE x < e[n].turn
    BY <2>1, <2>2, <2>4
  <2> QED BY <2>1, <2>2, <2>3, <2>4
<1>4. Bad = {}
  <2> SUFFICES ASSUME Bad # {} PROVE FALSE
    OBVIOUS
  <2>1. Bad \subseteq Nat
    BY <1>1
  <2> HIDE DEF HasMax
  <2>2. PICK n \in Bad : \A y \in Bad : n <= y
    BY <2>1, LeastExists
  <2>3. n \in 1..Len(e) /\ n - 1 \in 0..Len(e) /\ n - 1 \notin Bad
    BY <1>1, <1>2, <2>2
  <2> QED BY <1>3, <2>2, <2>3
<1>5. HasMax(Len(e))
  <2> HIDE DEF HasMax
  <2> QED BY <1>1, <1>4
<1>6. LastTurn(p) = Max(S(Len(e)))
  BY <1>1 DEF LastTurn, e
<1>7. Max(S(Len(e))) \in S(Len(e)) /\ \A y \in S(Len(e)) : Max(S(Len(e))) >= y
  <2> HIDE DEF S
  <2> QED BY <1>5 DEF Max
<1>8. S(Len(e)) \subseteq Int /\ -1 \in S(Len(e)) /\ \A j \in DOMAIN e : e[j].turn \in S(Len(e))
  BY <1>1
<1> HIDE DEF S
<1>9. \A y \in S(Len(e)) : y <= LastTurn(p)
  BY <1>6, <1>7, <1>8
<1> QED BY <1>6, <1>7, <1>8, <1>9 DEF e

(* What is read back from a place's archive is of that place.               *)
LEMMA ResumedHistory ==
  ASSUME ArchiveApart, NEW p \in Places
  PROVE  HistoryOf(ResumableHistory(p), p)
<1> DEFINE e == archive[p]
           last == LastTurn(p)
           of(t, role) == UNION {e[k].of : k \in {k \in DOMAIN e : e[k].turn = t /\ e[k].role = role}}
           h == ResumableHistory(p)
<1>1. last \in Int /\ last >= -1
  BY NewestTurn
<1>2. e \in Seq(Entry) /\ \A j \in DOMAIN e : e[j].of \subseteq Messages /\ \A n \in e[j].of : Placed(n, p)
  <2>1. e \in Seq(Entry) /\ \A j \in DOMAIN e : \A n \in e[j].of : Placed(n, p)
    BY DEF ArchiveApart
  <2>2. \A j \in DOMAIN e : e[j] \in Entry
    BY <2>1
  <2> HIDE DEF e
  <2> QED BY <2>1, <2>2 DEF Entry
<1>3. \A t, role : of(t, role) \subseteq Messages /\ \A n \in of(t, role) : Placed(n, p)
  BY <1>2
<1>4. Interrupted \in Line /\ Interrupted.of = {0}
  BY DEF Interrupted, Line
<1> DEFINE Own(l) == l \in Line /\ \A n \in l.of \ {0} : Placed(n, p)
<1>5. ASSUME NEW t, NEW role \in {"user", "assistant"}
      PROVE  Own([role |-> role, of |-> of(t, role)])
  <2> HIDE DEF of
  <2> QED BY <1>3 DEF Line
<1>6. Own(Interrupted)
  BY <1>4
<1>7. 2 * (last + 1) \in Nat
  BY <1>1
<1>8. /\ h = [k \in 1..(2 * (last + 1)) |-> h[k]]
      /\ \A k \in 1..(2 * (last + 1)) :
           \/ h[k] = Interrupted
           \/ \E t : \E role \in {"user", "assistant"} : h[k] = [role |-> role, of |-> of(t, role)]
  <2> HIDE DEF last
  <2> QED BY DEF ResumableHistory, last
<1> HIDE DEF h, of, last, Own
<1>9. \A k \in 1..(2 * (last + 1)) : Own(h[k])
  BY <1>5, <1>6, <1>8
<1>10. h \in Seq(Line) /\ DOMAIN h = 1..(2 * (last + 1))
  BY <1>7, <1>8, <1>9 DEF Own
<1> QED BY <1>9, <1>10 DEF HistoryOf, Own, h

(* The turn that holds the lock goes on.                                    *)
OneSession(k, t) ==
  /\ sessions' \in Seq(Elements(sessions')) /\ DOMAIN sessions' = DOMAIN sessions
  /\ sessions'[k] = t /\ \A j \in DOMAIN sessions \ {k} : sessions'[j] = sessions[j]
  /\ DOMAIN t = SessionFields /\ t.place = sessions[k].place /\ t.turn \in Int
HandoffOf(m, s, pc) ==
  /\ s.handoff # "none" => pc \in {"handing", "closing"} /\ s.caller = m
  /\ pc \in {"handing", "closing"} => s.handoff # "none"

LEMMA TurnPlaces ==
  ASSUME ApartInv, NEW m \in Messages, OneTurn(m)
  PROVE  (\A n \in Messages : KeepsPlace(n)) /\ \A n \in Messages \ {m} : Steady(n)
<1>1. \A n \in Messages : HasPlace(n)
  BY DEF ApartInv
<1>2. calls[m].pc # "unsent"
  BY DEF OneTurn, InSessionPcs, Locked
<1> QED BY <1>1, <1>2 DEF KeepsPlace, HasPlace, OneTurn, Steady

LEMMA SameIsSame ==
  ASSUME ApartInv, NEW j \in DOMAIN sessions, sessions'[j] = sessions[j]
  PROVE  SameTalk(sessions[j], sessions'[j])
BY DEF SameTalk, ApartInv, SessionApart

(* Who holds the lock is alone in it, and so is its hand-off.               *)
LEMMA HolderAlone ==
  ASSUME ApartInv, NEW m \in Messages, calls[m].pc \in Locked
  PROVE  /\ calls[m].session \in DOMAIN sessions /\ SessionApart(calls[m].session)
         /\ Of(m).place = calls[m].place /\ Of(m).queue[1] = m /\ m \in Range(Of(m).queue)
         /\ \A n \in Messages : calls[n].pc \in Locked /\ calls[n].session = calls[m].session => n = m
         /\ HandoffOf(m, Of(m), calls[m].pc)
<1>1. \A n \in Messages : TurnApart(n)
  BY DEF ApartInv
<1>2. calls[m].session \in DOMAIN sessions /\ SessionApart(calls[m].session) /\ CallerOk(calls[m].session)
  BY <1>1 DEF TurnApart, InSessionPcs, ApartInv, SessionApart
<1>3. /\ Of(m).place = calls[m].place /\ Of(m).queue[1] = m /\ m \in Range(Of(m).queue)
      /\ \A n \in Messages : calls[n].pc \in Locked /\ calls[n].session = calls[m].session => n = m
  BY <1>1 DEF TurnApart, InSessionPcs, Of
<1>4. HandoffOf(m, Of(m), calls[m].pc)
  BY <1>1, <1>2, <1>3 DEF TurnApart, CallerOk, HandoffOf, InSessionPcs, Locked, Of
<1> QED BY <1>2, <1>3, <1>4

LEMMA TurnHolds ==
  ASSUME ApartInv, NEW m \in Messages, OneTurn(m), calls'[m].pc \in Locked, NEW t, OneSession(calls[m].session, t),
         t.queue = Of(m).queue, t.queue[1] = m, HistoryOf(t.history, t.place),
         InTurn(m)' => EndsWith(t.history, User(m)), HandoffOf(m, t, calls'[m].pc), ArchiveApart'
  PROVE  ApartInv'
<1>0. PICK k : k = calls[m].session
  OBVIOUS
<1>1. (\A n \in Messages : KeepsPlace(n)) /\ \A n \in Messages \ {m} : Steady(n)
  BY TurnPlaces
<1>2. /\ k \in DOMAIN sessions /\ TurnApart(m) /\ SessionApart(k) /\ QueueOk(k)
      /\ calls[m].pc \in InSessionPcs
  BY <1>0 DEF OneTurn, ApartInv, TurnApart, SessionApart
<1>3. \A j \in DOMAIN sessions \ {k} : SameTalk(sessions[j], sessions'[j])
  BY <1>0, SameIsSame DEF OneSession
<1>4. ASSUME NEW j \in DOMAIN sessions, j # k
      PROVE  SessionApart(j)'
  BY <1>0, <1>1, <1>3, <1>4, TalkStays
<1>5. SessionApart(k)'
  <2>1. HistoryOf(sessions[k].history, sessions[k].place)'
    <3>1. \A n, p : Placed(n, p) => Placed(n, p)'
      BY <1>0, <1>1 DEF KeepsPlace, Placed
    <3> QED BY <1>0, <3>1 DEF HistoryOf, OneSession
  <2>2. QueueOk(k)'
    <3>1. \A n \in Range(sessions[k].queue) : n \in Messages /\ calls'[n].session = k /\ calls'[n].pc \in InSessionPcs
      <4>1. \A n \in Range(sessions[k].queue) : n \in Messages /\ calls[n].session = k /\ calls[n].pc \in InSessionPcs
        BY <1>0, <1>2 DEF QueueOk, Range
      <4> QED BY <1>0, <1>1, <4>1 DEF OneTurn, Steady, InSessionPcs
    <3> QED BY <1>0, <1>2, <3>1 DEF QueueOk, OneSession, Of
  <2>3. CallerOk(k)'
    BY <1>0 DEF CallerOk, OneSession, OneTurn, HandoffOf
  <2> QED BY <1>0, <1>2, <2>1, <2>2, <2>3 DEF SessionApart, OneSession
<1>6. TurnApart(m)'
  BY <1>0, <1>2 DEF TurnApart, OneTurn, OneSession, Of, HandoffOf
<1>7. ASSUME NEW n \in Messages \ {m}
      PROVE  TurnApart(n)'
  <2>1. CASE calls[n].pc \in InSessionPcs /\ calls[n].session = k
    <3>1. TurnApart(n) /\ Steady(n)
      BY <1>0, <1>1 DEF ApartInv
    <3>2. calls[n].pc \notin Locked
      BY <1>0, <2>1, <3>1 DEF TurnApart, Of
    <3>3. ~InTurn(n)' /\ calls'[n].pc \notin {"handing", "closing"} /\ calls'[n].pc \notin Locked
      BY <1>0, <3>1, <3>2 DEF Steady, InTurn, Locked
    <3> QED BY <1>0, <1>2, <2>1, <3>1, <3>3 DEF TurnApart, Steady, OneSession, Of
  <2>2. CASE ~(calls[n].pc \in InSessionPcs /\ calls[n].session = k)
    <3>1. calls[n].pc \in InSessionPcs => calls[n].session \in DOMAIN sessions
      BY <1>0 DEF ApartInv, TurnApart
    <3> QED BY <1>0, <1>1, <1>3, <2>2, <3>1, TurnStays DEF OneSession
  <2> QED BY <1>0, <2>1, <2>2
<1> QED BY <1>0, <1>1, <1>4, <1>5, <1>6, <1>7 DEF ApartInv, KeepsPlace, OneSession

(* A turn leaves the lock, or the queue before it.                          *)
LEMMA TurnLeaves ==
  ASSUME ApartInv, NEW m \in Messages, OneTurn(m), calls'[m].pc \notin InSessionPcs, NEW t, OneSession(calls[m].session, t),
         t.queue = RemoveFirst(Of(m).queue, m), HistoryOf(t.history, t.place),
         IF calls[m].pc \in Locked THEN t.handoff = "none"
         ELSE t.history = Of(m).history /\ t.handoff = Of(m).handoff /\ t.caller = Of(m).caller,
         ArchiveApart'
  PROVE  ApartInv'
<1>0. PICK k : k = calls[m].session
  OBVIOUS
<1> DEFINE q == sessions[k].queue
           r == sessions'[k].queue
<1>1. (\A n \in Messages : KeepsPlace(n)) /\ \A n \in Messages \ {m} : Steady(n)
  BY TurnPlaces
<1>2. /\ k \in DOMAIN sessions /\ TurnApart(m) /\ SessionApart(k) /\ QueueOk(k) /\ CallerOk(k)
      /\ calls[m].pc \in InSessionPcs
  BY <1>0 DEF OneTurn, ApartInv, TurnApart, SessionApart
<1>3. \A j \in DOMAIN sessions \ {k} : SameTalk(sessions[j], sessions'[j])
  BY <1>0, SameIsSame DEF OneSession
<1>4. ASSUME NEW j \in DOMAIN sessions, j # k
      PROVE  SessionApart(j)'
  BY <1>0, <1>1, <1>3, <1>4, TalkStays
<1>5. q \in Seq(Messages) /\ Distinct(q) /\ m \in Range(q)
  BY <1>0, <1>2 DEF QueueOk, TurnApart, Of
<1>6. r = RemoveFirst(q, m)
  BY <1>0 DEF OneSession, Of
<1>7. /\ r \in Seq(Messages) /\ Distinct(r) /\ Range(r) = Range(q) \ {m}
      /\ q[1] # m => r # <<>> /\ r[1] = q[1]
  <2> HIDE DEF q, r
  <2> QED BY <1>5, <1>6, QueueWithout
<1>8. SessionApart(k)'
  <2>1. HistoryOf(sessions[k].history, sessions[k].place)'
    <3>1. \A n, p : Placed(n, p) => Placed(n, p)'
      BY <1>0, <1>1 DEF KeepsPlace, Placed
    <3> QED BY <1>0, <3>1 DEF HistoryOf, OneSession
  <2>2. QueueOk(k)'
    <3>1. \A n \in Range(r) : n \in Messages \ {m} /\ calls[n].session = k /\ calls[n].pc \in InSessionPcs
      <4>1. Range(q) \subseteq Messages
        BY <1>5 DEF Range
      <4> HIDE DEF r
      <4>2. \A n \in Range(r) : n \in Range(q) \ {m}
        BY <1>7
      <4> QED BY <1>2, <4>1, <4>2 DEF QueueOk
    <3> QED BY <1>0, <1>1, <1>7, <3>1 DEF QueueOk, Steady
  <2>3. CallerOk(k)'
    BY <1>0, <1>1, <1>2 DEF CallerOk, OneSession, Steady, Of, Locked
  <2> QED BY <1>0, <1>2, <2>1, <2>2, <2>3 DEF SessionApart, OneSession
<1>9. TurnApart(m)'
  BY <1>0 DEF TurnApart
<1>10. ASSUME NEW n \in Messages \ {m}
       PROVE  TurnApart(n)'
  <2>1. CASE calls[n].pc \in InSessionPcs /\ calls[n].session = k
    <3>1. TurnApart(n) /\ Steady(n) /\ n \in Range(r)
      BY <1>0, <1>1, <1>7, <2>1 DEF ApartInv, TurnApart, Of
    <3>2. CASE calls[m].pc \in Locked
      <4>1. calls[n].pc \notin Locked
        BY <1>0, <2>1, <3>2, HolderAlone
      <4>2. ~InTurn(n)' /\ calls'[n].pc \notin {"handing", "closing"} /\ calls'[n].pc \notin Locked
        BY <1>0, <3>1, <4>1 DEF Steady, InTurn, Locked
      <4> QED BY <1>0, <1>2, <2>1, <3>1, <4>2 DEF TurnApart, Steady, OneSession, Of
    <3>3. CASE calls[m].pc \notin Locked
      <4>1. calls[n].pc \in Locked => r[1] = n
        BY <1>0, <1>7, <2>1, <3>1 DEF TurnApart, Of
      <4> QED BY <1>0, <1>2, <2>1, <3>1, <3>3, <4>1 DEF TurnApart, Steady, OneSession, Of, InTurn
    <3> QED BY <3>2, <3>3
  <2>2. CASE ~(calls[n].pc \in InSessionPcs /\ calls[n].session = k)
    <3>1. calls[n].pc \in InSessionPcs => calls[n].session \in DOMAIN sessions
      BY <1>0 DEF ApartInv, TurnApart
    <3> QED BY <1>0, <1>1, <1>3, <2>2, <3>1, TurnStays DEF OneSession
  <2> QED BY <1>0, <2>1, <2>2
<1> QED BY <1>0, <1>1, <1>4, <1>8, <1>9, <1>10 DEF ApartInv, KeepsPlace, OneSession

LEMMA Refreshed ==
  ASSUME NEW s, DOMAIN s = SessionFields, s.turn \in Int, NEW rt
  PROVE  LET t == RefreshIfStale(s, rt)
         IN  /\ DOMAIN t = SessionFields /\ t.place = s.place /\ t.history = s.history /\ t.queue = s.queue
             /\ t.handoff = s.handoff /\ t.caller = s.caller /\ t.turn \in Int
BY DEF RefreshIfStale, Rebuilt, SessionFields

LEMMA LeftFields ==
  ASSUME NEW s, DOMAIN s = SessionFields, NEW m
  PROVE  LET t == Left(s, m)
         IN  /\ DOMAIN t = SessionFields /\ t.place = s.place /\ t.history = s.history /\ t.turn = s.turn
             /\ t.queue = RemoveFirst(s.queue, m) /\ t.handoff = s.handoff /\ t.caller = s.caller
<1> DEFINE out == [s EXCEPT !.queue = RemoveFirst(s.queue, m), !.inFlight = s.inFlight \ {m}]
<1>1. Left(s, m) \in {out, CloseLog(out)}
  BY DEF Left
<1>2. /\ DOMAIN out = SessionFields /\ out.place = s.place /\ out.history = s.history /\ out.turn = s.turn
      /\ out.queue = RemoveFirst(s.queue, m) /\ out.handoff = s.handoff /\ out.caller = s.caller
  BY DEF SessionFields
<1> HIDE DEF out
<1> QED BY <1>1, <1>2 DEF CloseLog, SessionFields

LEMMA FunctionIsSeq ==
  ASSUME NEW n \in Nat, NEW S, NEW f \in [1..n -> S]
  PROVE  f \in Seq(S)
OBVIOUS

LEMMA SeqIsFunction ==
  ASSUME NEW S, NEW q \in Seq(S)
  PROVE  Len(q) \in Nat /\ DOMAIN q = 1..Len(q) /\ q \in [1..Len(q) -> S]
OBVIOUS

LEMMA SetOne ==
  ASSUME ApartInv, NEW k \in DOMAIN sessions, NEW t, sessions' = [sessions EXCEPT ![k] = t]
  PROVE  /\ sessions' \in Seq(Elements(sessions')) /\ DOMAIN sessions' = DOMAIN sessions
         /\ sessions'[k] = t /\ \A j \in DOMAIN sessions \ {k} : sessions'[j] = sessions[j]
<1>1. sessions \in Seq(Elements(sessions)) /\ Len(sessions) \in Nat /\ DOMAIN sessions = 1..Len(sessions)
  BY DEF ApartInv
<1>2. sessions' \in [1..Len(sessions) -> Elements(sessions')]
  BY <1>1 DEF Elements
<1>3. sessions' \in Seq(Elements(sessions'))
  BY <1>1, <1>2, FunctionIsSeq
<1> QED BY <1>3

(* An entry of a turn's own message joins the archive of its place.         *)
LEMMA EntryAdded ==
  ASSUME ApartInv, NEW m \in Messages, OneTurn(m), calls[m].pc \in Locked, NEW turn \in Int, NEW role \in {"user", "assistant"},
         archive' = [archive EXCEPT ![calls[m].place] = Append(archive[calls[m].place], [turn |-> turn, role |-> role, of |-> {m}])]
  PROVE  ArchiveApart'
<1>0. PICK p : p = calls[m].place
  OBVIOUS
<1> DEFINE x == [turn |-> turn, role |-> role, of |-> {m}]
           e == archive[p]
<1>1. p \in Places /\ ArchiveApart
  BY <1>0 DEF ApartInv, HasPlace, Locked
<1>2. \A n, l : Placed(n, l) => Placed(n, l)'
  <2>1. \A n \in Messages : KeepsPlace(n)
    BY TurnPlaces
  <2> QED BY <2>1 DEF KeepsPlace, Placed
<1>3. x \in Entry /\ x.of = {m} /\ Placed(m, p)'
  BY <1>0 DEF Entry, Placed, OneTurn
<1>4. e \in Seq(Entry) /\ Len(e) \in Nat /\ DOMAIN e = 1..Len(e)
  BY <1>1 DEF ArchiveApart
<1> HIDE DEF x
<1>5. /\ Append(e, x) \in Seq(Entry) /\ Len(Append(e, x)) = Len(e) + 1 /\ DOMAIN Append(e, x) = 1..(Len(e) + 1)
      /\ Append(e, x)[Len(e) + 1] = x /\ \A i \in 1..Len(e) : Append(e, x)[i] = e[i]
  BY <1>3, <1>4
<1>6. archive' = [archive EXCEPT ![p] = Append(e, x)]
  BY <1>0 DEF x
<1>7. archive' \in [Places -> Seq(Entry)]
  BY <1>1, <1>5, <1>6 DEF ArchiveApart
<1>8. ASSUME NEW j \in DOMAIN archive'[p], NEW n \in archive'[p][j].of
      PROVE  Placed(n, p)'
  <2>1. archive'[p] = Append(e, x)
    BY <1>1, <1>6 DEF ArchiveApart
  <2>2. j \in 1..Len(e) \/ j = Len(e) + 1
    BY <1>4, <1>5, <2>1
  <2> QED BY <1>1, <1>2, <1>3, <1>4, <1>5, <1>8, <2>1, <2>2 DEF ArchiveApart
<1>9. ASSUME NEW l \in Places, l # p, NEW j \in DOMAIN archive'[l], NEW n \in archive'[l][j].of
      PROVE  Placed(n, l)'
  BY <1>1, <1>2, <1>6, <1>9 DEF ArchiveApart
<1> QED BY <1>7, <1>8, <1>9 DEF ArchiveApart

(* A turn, whatever its model, its archive and its hand-off do.             *)
LEMMA TurnKeepsApart ==
  ASSUME CallsOk, ApartInv, NEW m \in Messages, TurnStep(m)
  PROVE  ApartInv' /\ TurnFrame(m)
<1>0. PICK k : k = calls[m].session
  OBVIOUS
<1> DEFINE s == sessions[k]
<1>1. calls[m].pc \in InSessionPcs
  BY DEF TurnStep, Acquire, ContinueArchive, BeginTurn, StreamEnds, StreamRaises, StartHandoff, TargetEnds, TargetCloses,
         UnwindHandoff, UnwindTurn, At, InSessionPcs, Locked
<1>2. k \in DOMAIN sessions /\ SessionApart(k) /\ s.place = calls[m].place /\ m \in Range(s.queue) /\ Of(m) = s
  BY <1>0, <1>1 DEF ApartInv, TurnApart, Of
<1>3. HistoryOf(s.history, s.place) /\ DOMAIN s = SessionFields /\ s.turn \in Int
  BY <1>2 DEF SessionApart
<1>4. calls[m].pc \in Locked => s.queue[1] = m /\ HandoffOf(m, s, calls[m].pc)
  BY <1>0, <1>2, HolderAlone
<1>5. InTurn(m) => EndsWith(s.history, User(m))
  BY <1>0, <1>1, <1>2 DEF ApartInv, TurnApart
<1>6. ASSUME NEW c, calls' = [calls EXCEPT ![m] = c], c.session = calls[m].session, c.place = calls[m].place, c.pc \notin Early
      PROVE  OneTurn(m) /\ calls'[m].pc = c.pc
  BY <1>1, <1>6, OneCall DEF OneTurn
<1>7. ASSUME NEW pc, Goto(m, pc), pc \notin Early
      PROVE  OneTurn(m) /\ calls'[m].pc = pc
  <2> DEFINE c == [calls[m] EXCEPT !.pc = pc]
  <2>1. c.pc = pc /\ c.session = calls[m].session /\ c.place = calls[m].place
    BY DEF CallsOk, CallOk, CallFields
  <2>2. calls' = [calls EXCEPT ![m] = c]
    BY <1>7 DEF Goto
  <2> HIDE DEF c
  <2> QED BY <1>6, <1>7, <2>1, <2>2
<1>8. ASSUME NEW out, calls' = [calls EXCEPT ![m] = [@ EXCEPT !.pc = "left", !.outcome = out]]
      PROVE  OneTurn(m) /\ calls'[m].pc = "left"
  <2> DEFINE c == [calls[m] EXCEPT !.pc = "left", !.outcome = out]
  <2>1. c.pc = "left" /\ c.session = calls[m].session /\ c.place = calls[m].place
    BY DEF CallsOk, CallOk, CallFields
  <2>2. calls' = [calls EXCEPT ![m] = c]
    BY <1>8 DEF CallsOk, CallOk, CallFields
  <2> HIDE DEF c
  <2> QED BY <1>6, <2>1, <2>2 DEF Early
<1>9. ASSUME NEW t, Set(m, t), DOMAIN t = SessionFields, t.place = s.place, t.turn \in Int
      PROVE  OneSession(calls[m].session, t)
  BY <1>0, <1>2, <1>9, SetOne DEF Set, OneSession
<1>20. ASSUME OneTurn(m), calls'[m].pc \in InSessionPcs \cup {"left"}, NEW t, OneSession(calls[m].session, t)
       PROVE  TurnFrame(m)
  BY <1>0, <1>2, <1>20 DEF TurnFrame, OneSession
<1>10. UNCHANGED archive /\ OneTurn(m) => ArchiveApart'
  BY TurnPlaces, ArchiveStays DEF ApartInv
<1>11. Placed(m, s.place) /\ User(m) \in Line /\ Assistant(m) \in Line /\ User(m).of = {m} /\ Assistant(m).of = {m}
  BY <1>1, <1>2 DEF Placed, User, Assistant, Line, Early, InSessionPcs, Locked
<1> HIDE DEF s
<1>12. \A h : HistoryOf(h, s.place) =>
         /\ HistoryOf(Append(h, User(m)), s.place) /\ EndsWith(Append(h, User(m)), User(m))
         /\ HistoryOf(Append(h, Assistant(m)), s.place)
  BY <1>11, HistoryGrows
<1>13. CASE Acquire(m)
  <2> DEFINE f == RefreshIfStale(s, runtime)
             t == IF f.ready THEN Said(f, m) ELSE f
             pc == IF f.ready THEN "seeded" ELSE "opening"
  <2>1. /\ DOMAIN f = SessionFields /\ f.place = s.place /\ f.history = s.history /\ f.queue = s.queue
        /\ f.handoff = s.handoff /\ f.caller = s.caller /\ f.turn \in Int
    BY <1>3, Refreshed
  <2>2. Set(m, t) /\ Goto(m, pc) /\ UNCHANGED archive /\ calls[m].pc = "waiting" /\ Head(s.queue) = m
    BY <1>2, <1>13 DEF Acquire, At
  <2> HIDE DEF f
  <2>3. /\ DOMAIN t = SessionFields /\ t.place = s.place /\ t.queue = s.queue /\ t.turn \in Int
        /\ t.handoff = s.handoff /\ t.caller = s.caller
        /\ HistoryOf(t.history, s.place) /\ (pc = "seeded" => EndsWith(t.history, User(m)))
    BY <1>3, <1>12, <2>1 DEF Said, SessionFields
  <2>4. OneTurn(m) /\ calls'[m].pc = pc /\ pc \in {"seeded", "opening"}
    BY <1>7, <2>2 DEF Early
  <2>5. s.queue[1] = m
    BY <1>2, <2>2
  <2>6. s.handoff = "none"
    <3> SUFFICES ASSUME s.handoff # "none" PROVE FALSE
      OBVIOUS
    <3>1. s.caller \in Messages /\ calls[s.caller].session = k /\ calls[s.caller].pc \in {"handing", "closing"}
      BY <1>2 DEF SessionApart, CallerOk, s
    <3>2. s.queue[1] = s.caller
      BY <3>1, HolderAlone DEF Locked, Of, s
    <3> QED BY <2>2, <2>5, <3>1, <3>2
  <2> HIDE DEF t, pc
  <2>7. OneSession(calls[m].session, t)
    BY <1>9, <2>2, <2>3
  <2> QED BY <1>20, <1>2, <1>10, <2>2, <2>3, <2>4, <2>5, <2>6, <2>7, TurnHolds DEF HandoffOf, InTurn, Locked, InSessionPcs
<1>14. CASE ContinueArchive(m)
  <2>1. PICK b \in BOOLEAN : Set(m, Said(Continued(s, b), m))
    BY <1>2, <1>14 DEF ContinueArchive
  <2>2. Goto(m, "seeded") /\ UNCHANGED archive /\ calls[m].pc = "opening"
    BY <1>14 DEF ContinueArchive, At
  <2> DEFINE t == Said(Continued(s, b), m)
  <2>3. LastTurn(s.place) \in Int
    BY <1>2, NewestTurn DEF ApartInv, SessionApart, s
  <2>4. /\ DOMAIN t = SessionFields /\ t.place = s.place /\ t.queue = s.queue /\ t.turn \in Int
        /\ t.handoff = s.handoff /\ t.caller = s.caller /\ t.history = Append(s.history, User(m))
    BY <1>3, <2>3 DEF Said, Continued, SessionFields
  <2>5. OneTurn(m) /\ calls'[m].pc = "seeded"
    BY <1>7, <2>2 DEF Early
  <2> HIDE DEF t
  <2>6. OneSession(calls[m].session, t)
    BY <1>9, <2>1, <2>4 DEF t
  <2> QED BY <1>20, <1>2, <1>3, <1>4, <1>10, <1>12, <2>2, <2>4, <2>5, <2>6, TurnHolds DEF HandoffOf, InTurn, Locked, InSessionPcs
<1>15. CASE BeginTurn(m)
  <2> DEFINE t == [s EXCEPT !.turn = s.turn + 1, !.notice = FALSE]
  <2>1. /\ Set(m, t) /\ Goto(m, "streaming") /\ calls[m].pc = "seeded"
        /\ Record(s, [turn |-> s.turn + 1, role |-> "user", of |-> {m}])
    BY <1>2, <1>15 DEF BeginTurn, At
  <2>2. /\ DOMAIN t = SessionFields /\ t.place = s.place /\ t.queue = s.queue /\ t.turn \in Int
        /\ t.handoff = s.handoff /\ t.caller = s.caller /\ t.history = s.history
    BY <1>3 DEF SessionFields
  <2>3. OneTurn(m) /\ calls'[m].pc = "streaming"
    BY <1>7, <2>1 DEF Early
  <2>4. ArchiveApart'
    <3>1. archive' = [archive EXCEPT ![calls[m].place] =
                        Append(archive[calls[m].place], [turn |-> s.turn + 1, role |-> "user", of |-> {m}])]
      BY <1>2, <2>1 DEF Record
    <3>2. s.turn + 1 \in Int
      BY <1>3
    <3> QED BY <2>1, <2>3, <3>1, <3>2, EntryAdded DEF Locked
  <2> HIDE DEF t
  <2>5. OneSession(calls[m].session, t)
    BY <1>9, <2>1, <2>2
  <2> QED BY <1>20, <1>2, <1>3, <1>4, <1>5, <2>1, <2>2, <2>3, <2>4, <2>5, TurnHolds DEF HandoffOf, InTurn, Locked, InSessionPcs
<1>16. CASE StreamEnds(m)
  <2> DEFINE u == [s EXCEPT !.history = Append(s.history, Assistant(m))]
             t == Left(u, m)
  <2>1. /\ Set(m, t) /\ calls' = [calls EXCEPT ![m] = [@ EXCEPT !.pc = "left", !.outcome = "answer"]] /\ calls[m].pc = "streaming"
        /\ Record(s, [turn |-> s.turn, role |-> "assistant", of |-> {m}])
    BY <1>2, <1>16 DEF StreamEnds, At
  <2>2. /\ DOMAIN u = SessionFields /\ u.place = s.place /\ u.queue = s.queue /\ u.turn = s.turn
        /\ u.handoff = s.handoff /\ u.history = Append(s.history, Assistant(m))
    BY <1>3 DEF SessionFields
  <2> HIDE DEF u
  <2>3. /\ DOMAIN t = SessionFields /\ t.place = s.place /\ t.queue = RemoveFirst(s.queue, m) /\ t.turn \in Int
        /\ t.handoff = s.handoff /\ HistoryOf(t.history, s.place)
    <3>1. /\ DOMAIN t = SessionFields /\ t.place = s.place /\ t.queue = RemoveFirst(s.queue, m) /\ t.turn \in Int
          /\ t.handoff = s.handoff /\ t.history = Append(s.history, Assistant(m))
      BY <1>3, <2>2, LeftFields
    <3> QED BY <1>3, <1>12, <3>1
  <2>4. OneTurn(m) /\ calls'[m].pc = "left"
    BY <1>8, <2>1
  <2>5. ArchiveApart'
    BY <1>2, <1>3, <2>1, <2>4, EntryAdded DEF Record, Locked
  <2> HIDE DEF t
  <2>6. OneSession(calls[m].session, t)
    BY <1>9, <2>1, <2>3
  <2> QED BY <1>20, <1>2, <1>4, <2>1, <2>3, <2>4, <2>5, <2>6, TurnLeaves DEF HandoffOf, InSessionPcs, Locked
<1>17. CASE StreamRaises(m)
  <2> DEFINE t == Left(s, m)
  <2>1. /\ Set(m, t) /\ calls' = [calls EXCEPT ![m] = [@ EXCEPT !.pc = "left", !.outcome = "error"]] /\ calls[m].pc = "streaming"
        /\ UNCHANGED archive
    BY <1>2, <1>17 DEF StreamRaises, At
  <2>2. /\ DOMAIN t = SessionFields /\ t.place = s.place /\ t.queue = RemoveFirst(s.queue, m) /\ t.turn \in Int
        /\ t.handoff = s.handoff /\ HistoryOf(t.history, s.place)
    BY <1>3, LeftFields
  <2>3. OneTurn(m) /\ calls'[m].pc = "left"
    BY <1>8, <2>1
  <2> HIDE DEF t
  <2>4. OneSession(calls[m].session, t)
    BY <1>9, <2>1, <2>2
  <2> QED BY <1>20, <1>2, <1>4, <1>10, <2>1, <2>2, <2>3, <2>4, TurnLeaves DEF HandoffOf, InSessionPcs, Locked
<1>18. CASE StartHandoff(m) \/ TargetEnds(m) \/ TargetCloses(m) \/ UnwindHandoff(m)
  <2> DEFINE Moves(handoff, caller, pc) ==
               /\ Set(m, [s EXCEPT !.handoff = handoff, !.caller = caller])
               /\ \/ handoff = "running" /\ caller = m /\ pc = "handing"
                  \/ handoff = "closing" /\ caller = s.caller /\ pc = "closing" /\ calls[m].pc = "handing"
                  \/ handoff = "none" /\ pc = "streaming"
               /\ Goto(m, pc)
  <2>1. PICK handoff, caller, pc : Moves(handoff, caller, pc)
    <3>1. [s EXCEPT !.handoff = "closing"] = [s EXCEPT !.handoff = "closing", !.caller = s.caller]
      BY <1>3 DEF SessionFields
    <3>2. StartHandoff(m) => Moves("running", m, "handing")
      BY <1>2 DEF StartHandoff
    <3>3. TargetEnds(m) => Moves("closing", s.caller, "closing")
      BY <1>2, <3>1 DEF TargetEnds, At
    <3>4. TargetCloses(m) => Moves("none", 0, "streaming")
      BY <1>2 DEF TargetCloses, HandoffOver
    <3>5. UnwindHandoff(m) => Moves("closing", s.caller, "closing")
      BY <1>2, <3>1 DEF UnwindHandoff
    <3> HIDE DEF Moves
    <3> QED BY <1>18, <3>2, <3>3, <3>4, <3>5
  <2>2. calls[m].pc \in {"streaming", "handing", "closing"} /\ UNCHANGED archive
    BY <1>18 DEF StartHandoff, TargetEnds, TargetCloses, UnwindHandoff, At
  <2> DEFINE t == [s EXCEPT !.handoff = handoff, !.caller = caller]
  <2>3. /\ DOMAIN t = SessionFields /\ t.place = s.place /\ t.queue = s.queue /\ t.turn \in Int
        /\ t.handoff = handoff /\ t.caller = caller /\ t.history = s.history
    BY <1>3 DEF SessionFields
  <2>4. pc \in {"streaming", "handing", "closing"}
    BY <2>1
  <2>5. OneTurn(m) /\ calls'[m].pc = pc
    BY <1>7, <2>1, <2>4 DEF Early
  <2>6. HandoffOf(m, t, pc)
    BY <1>4, <2>1, <2>2, <2>3 DEF HandoffOf, Locked
  <2> HIDE DEF t
  <2>7. OneSession(calls[m].session, t)
    BY <1>9, <2>1, <2>3 DEF t
  <2> QED BY <1>20, <1>2, <1>3, <1>4, <1>5, <1>10, <2>2, <2>3, <2>4, <2>5, <2>6, <2>7, TurnHolds DEF InTurn, Locked, InSessionPcs
<1>19. CASE UnwindTurn(m)
  <2> DEFINE u == IF calls[m].pc = "closing" THEN HandoffOver(s) ELSE s
             t == Left(u, m)
  <2>1. /\ Set(m, t) /\ calls' = [calls EXCEPT ![m] = [@ EXCEPT !.pc = "left", !.outcome = "cancelled"]]
        /\ calls[m].pc \in {"waiting", "opening", "seeded", "streaming", "closing"} /\ UNCHANGED archive
    BY <1>2, <1>19 DEF UnwindTurn
  <2>2. /\ DOMAIN u = SessionFields /\ u.place = s.place /\ u.queue = s.queue /\ u.turn = s.turn /\ u.history = s.history
        /\ u.handoff = IF calls[m].pc = "closing" THEN "none" ELSE s.handoff
        /\ calls[m].pc # "closing" => u.caller = s.caller
    BY <1>3 DEF HandoffOver, SessionFields
  <2> HIDE DEF u
  <2>3. /\ DOMAIN t = SessionFields /\ t.place = s.place /\ t.queue = RemoveFirst(s.queue, m) /\ t.turn \in Int
        /\ t.handoff = u.handoff /\ t.caller = u.caller /\ t.history = s.history
    BY <1>3, <2>2, LeftFields
  <2>4. OneTurn(m) /\ calls'[m].pc = "left"
    BY <1>8, <2>1
  <2> HIDE DEF t
  <2>5. OneSession(calls[m].session, t)
    BY <1>9, <2>1, <2>3
  <2> QED BY <1>20, <1>2, <1>3, <1>4, <1>10, <2>1, <2>2, <2>3, <2>4, <2>5, TurnLeaves DEF HandoffOf, InSessionPcs, Locked
<1> QED BY <1>13, <1>14, <1>15, <1>16, <1>17, <1>18, <1>19 DEF TurnStep

LEMMA TurnApartStep ==
  ASSUME CallsOk, ApartInv, NEW m \in Messages, TurnStep(m)
  PROVE  ApartStep /\ TurnFrame(m)
BY TurnKeepsApart DEF ApartStep

-----------------------------------------------------------------------------
(* Calls that no Session knows of.                                          *)
PlaceKept(c, d) ==
  /\ c.pc \notin InSessionPcs /\ d.pc \notin InSessionPcs
  /\ c.pc \notin Early => d.pc \notin Early /\ d.place = c.place
  /\ d.pc # "unsent" => d.place \in Places
CallsApart == \A n \in Messages : KeepsPlace(n) /\ (Outside(n) \/ Steady(n))

LEMMA CallsMoveApart ==
  ASSUME ApartInv, \A n \in Messages :
           \/ PlaceKept(calls[n], calls'[n])
           \/ calls'[n].pc = calls[n].pc /\ calls'[n].session = calls[n].session /\ calls'[n].place = calls[n].place
  PROVE  CallsApart
<1>1. \A n \in Messages : HasPlace(n)
  BY DEF ApartInv
<1> QED BY <1>1 DEF CallsApart, KeepsPlace, Outside, Steady, PlaceKept, HasPlace

LEMMA CallMovesApart ==
  ASSUME CallsOk, ApartInv, NEW m \in Messages, NEW c, calls' = [calls EXCEPT ![m] = c], PlaceKept(calls[m], c)
  PROVE  CallsApart /\ calls'[m] = c /\ \A n \in Messages \ {m} : calls'[n] = calls[n]
<1>1. calls'[m] = c /\ \A n \in Messages \ {m} : calls'[n] = calls[n]
  BY OneCall
<1> QED BY <1>1, CallsMoveApart

LEMMA SessionsSame ==
  ASSUME ApartInv, UNCHANGED sessions
  PROVE  /\ sessions' \in Seq(Elements(sessions')) /\ DOMAIN sessions' = DOMAIN sessions
         /\ \A k \in DOMAIN sessions : SameTalk(sessions[k], sessions'[k])
BY SameIsSame DEF ApartInv

(* The operations on a Session that are nothing to its conversation.        *)
LEMMA TalkOps ==
  ASSUME NEW s, DOMAIN s = SessionFields
  PROVE  SameTalk(s, SetRunContext(s)) /\ SameTalk(s, Close(s)) /\ SameTalk(s, CancelHandoff(s)) /\ SameTalk(s, s)
<1>1. \A r : DOMAIN r = SessionFields => SameTalk(r, CloseLog(r))
  BY DEF CloseLog, SameTalk, SessionFields
<1>2. \A x : SameTalk(s, [s EXCEPT !.closing = x])
  BY DEF SameTalk, SessionFields
<1>3. SameTalk(s, Close(s))
  <2>1. SameTalk(s, [s EXCEPT !.closing = TRUE]) /\ DOMAIN [s EXCEPT !.closing = TRUE] = SessionFields
    BY <1>2
  <2> DEFINE r == [s EXCEPT !.closing = TRUE]
  <2>2. Close(s) \in {r, CloseLog(r)}
    BY DEF Close
  <2>3. r.queue = s.queue /\ r.place = s.place /\ r.history = s.history /\ r.turn = s.turn /\ r.caller = s.caller /\ r.handoff = s.handoff
        /\ r.ready = s.ready
    BY DEF SessionFields
  <2> HIDE DEF r
  <2>4. DOMAIN CloseLog(r) = SessionFields /\ CloseLog(r).queue = r.queue /\ CloseLog(r).place = r.place /\ CloseLog(r).history = r.history
        /\ CloseLog(r).turn = r.turn /\ CloseLog(r).caller = r.caller /\ CloseLog(r).handoff = r.handoff /\ CloseLog(r).ready = r.ready
    BY <2>1 DEF CloseLog, SessionFields, r
  <2> QED BY <2>1, <2>2, <2>3, <2>4 DEF SameTalk, r
<1> QED BY <1>3 DEF SetRunContext, CancelHandoff, SameTalk, SessionFields

LEMMA TalkSet ==
  ASSUME ApartInv, NEW k \in DOMAIN sessions, NEW t, sessions' = [sessions EXCEPT ![k] = t], SameTalk(sessions[k], t)
  PROVE  /\ sessions' \in Seq(Elements(sessions')) /\ DOMAIN sessions' = DOMAIN sessions
         /\ \A j \in DOMAIN sessions : SameTalk(sessions[j], sessions'[j])
BY SetOne, SameIsSame

LEMMA TalkMap ==
  ASSUME ApartInv, sessions' = [k \in DOMAIN sessions |-> sessions'[k]],
         \A k \in DOMAIN sessions : SameTalk(sessions[k], sessions'[k])
  PROVE  sessions' \in Seq(Elements(sessions')) /\ DOMAIN sessions' = DOMAIN sessions
<1>1. Len(sessions) \in Nat /\ DOMAIN sessions = 1..Len(sessions)
  BY DEF ApartInv
<1>2. sessions' \in [1..Len(sessions) -> Elements(sessions')]
  BY <1>1 DEF Elements
<1> QED BY <1>1, <1>2, FunctionIsSeq

(* A reload reaches every Session and no conversation.                      *)
LEMMA NotifiedTalk ==
  ASSUME ApartInv, NEW d
  PROVE  /\ Notified(sessions, d) = [k \in DOMAIN sessions |-> Notified(sessions, d)[k]]
         /\ \A k \in DOMAIN sessions : SameTalk(sessions[k], Notified(sessions, d)[k])
<1>1. ASSUME NEW s, NEW x, DOMAIN s = SessionFields
      PROVE  SameTalk(s, [s EXCEPT !.stale = x])
  BY <1>1 DEF SameTalk, SessionFields
<1> QED BY <1>1 DEF Notified, ApartInv, SessionApart

LEMMA SessionAppended ==
  ASSUME ApartInv, NEW olds, olds = [k \in DOMAIN sessions |-> olds[k]], NEW s, sessions' = Append(olds, s)
  PROVE  /\ sessions' \in Seq(Elements(sessions')) /\ Len(sessions) + 1 \notin DOMAIN sessions
         /\ DOMAIN sessions' = DOMAIN sessions \cup {Len(sessions) + 1} /\ sessions'[Len(sessions) + 1] = s
         /\ \A k \in DOMAIN sessions : sessions'[k] = olds[k]
<1> DEFINE S == Elements(olds) \cup {s}
           n == Len(sessions)
<1>1. n \in Nat /\ DOMAIN sessions = 1..n
  BY DEF ApartInv
<1>2. olds \in [1..n -> S] /\ s \in S
  BY <1>1 DEF Elements
<1>3. olds \in Seq(S) /\ Len(olds) = n
  BY <1>1, <1>2, FunctionIsSeq
<1> HIDE DEF S
<1>4. /\ sessions' \in Seq(S) /\ Len(sessions') = n + 1
      /\ sessions'[n + 1] = s /\ \A j \in 1..n : sessions'[j] = olds[j]
  BY <1>2, <1>3
<1>5. DOMAIN sessions' = 1..(n + 1) /\ sessions' \in [1..(n + 1) -> Elements(sessions')]
  <2>1. DOMAIN sessions' = 1..(n + 1) /\ sessions' \in [1..(n + 1) -> S]
    BY <1>1, <1>4, SeqIsFunction
  <2> HIDE DEF n
  <2> QED BY <2>1 DEF Elements
<1>6. sessions' \in Seq(Elements(sessions'))
  <2> DEFINE E == Elements(sessions')
  <2>1. n + 1 \in Nat /\ sessions' \in [1..(n + 1) -> E]
    BY <1>1, <1>5
  <2> HIDE DEF E, n
  <2>2. sessions' \in Seq(E)
    BY <2>1, FunctionIsSeq
  <2> QED BY <2>2 DEF E
<1> QED BY <1>1, <1>4, <1>5, <1>6

LEMMA OpenedTalk ==
  ASSUME NEW p \in Places, NEW rt
  PROVE  LET s == NewSession(p, rt)
         IN  /\ OwnTalk(s) /\ s.queue = <<>> /\ s.place = p
             /\ OwnTalk(SetRunContext(s)) /\ SetRunContext(s).queue = <<>> /\ SetRunContext(s).place = p
<1>1. HistoryOf(<<>>, p)
  BY DEF HistoryOf
<1>2. /\ DOMAIN NewSession(p, rt) = SessionFields /\ NewSession(p, rt).history = <<>> /\ NewSession(p, rt).queue = <<>>
      /\ NewSession(p, rt).place = p /\ NewSession(p, rt).turn \in Int /\ NewSession(p, rt).handoff = "none" /\ ~NewSession(p, rt).ready
  BY DEF NewSession, Opened, SessionFields
<1> DEFINE s == NewSession(p, rt)
<1> HIDE DEF s
<1>3. OwnTalk(s)
  BY <1>1, <1>2 DEF OwnTalk, s
<1>4. /\ DOMAIN SetRunContext(s) = SessionFields /\ SetRunContext(s).history = s.history /\ SetRunContext(s).queue = s.queue
      /\ SetRunContext(s).place = s.place /\ SetRunContext(s).turn = s.turn /\ SetRunContext(s).handoff = s.handoff
      /\ SetRunContext(s).ready = s.ready
  BY <1>2 DEF SetRunContext, SessionFields, s
<1> QED BY <1>2, <1>3, <1>4 DEF OwnTalk, s

-----------------------------------------------------------------------------
(* Zulip: the Session a topic owns is its own, and one that is yet to be    *)
(* adopted is its task's alone and has no turns.                            *)
Opening(m) == calls[m].pc \in {"restoring", "probing"}
Heading(m) == calls[m].pc \in {"syncing", "stopping", "placing"}
OwnedApart ==
  /\ DOMAIN owned = Places
  /\ \A t \in Places : owned[t] # 0 => owned[t] \in DOMAIN sessions /\ sessions[owned[t]].place = t
Unowned(k) == \A t \in Places : owned[t] # k
OpeningApart(m) ==
  Opening(m) =>
    /\ calls[m].session \in DOMAIN sessions /\ Unowned(calls[m].session)
    /\ Of(m).place = calls[m].place /\ Of(m).queue = <<>> /\ ~Of(m).ready
    /\ \A n \in Messages \ {m} : Opening(n) => calls[n].session # calls[m].session
ZulipApart ==
  /\ OwnedApart
  /\ \A m \in Messages : OpeningApart(m) /\ (Heading(m) => owned[calls[m].place] # 0)

SessionsGo ==
  /\ DOMAIN sessions \subseteq DOMAIN sessions'
  /\ \A k \in DOMAIN sessions :
       /\ sessions'[k].place = sessions[k].place
       /\ sessions[k].queue = <<>> /\ ~sessions[k].ready /\ Unowned(k) => sessions'[k].queue = <<>> /\ ~sessions'[k].ready
HeadsOn(m) ==
  /\ Heading(m)' => (Heading(m) /\ calls'[m].place = calls[m].place) \/ owned[calls'[m].place] # 0
  /\ Opening(m)' => Opening(m) /\ calls'[m].session = calls[m].session /\ calls'[m].place = calls[m].place

LEMMA TalkGoes ==
  ASSUME DOMAIN sessions' = DOMAIN sessions, \A k \in DOMAIN sessions : SameTalk(sessions[k], sessions'[k])
  PROVE  SessionsGo
BY DEF SessionsGo, SameTalk

LEMMA ZulipStaysApart ==
  ASSUME ZulipApart, UNCHANGED owned, SessionsGo, \A m \in Messages : HeadsOn(m)
  PROVE  ZulipApart'
<1>1. OwnedApart'
  BY DEF ZulipApart, OwnedApart, SessionsGo
<1>2. ASSUME NEW m \in Messages
      PROVE  OpeningApart(m)' /\ (Heading(m)' => owned'[calls'[m].place] # 0)
  <2>1. OpeningApart(m) /\ HeadsOn(m)
    BY DEF ZulipApart
  <2>2. Heading(m)' => owned'[calls'[m].place] # 0
    BY <2>1 DEF ZulipApart, HeadsOn
  <2>3. OpeningApart(m)'
    <3> SUFFICES ASSUME Opening(m)' PROVE OpeningApart(m)'
      BY DEF OpeningApart
    <3>1. Opening(m) /\ calls'[m].session = calls[m].session /\ calls'[m].place = calls[m].place
      BY <2>1 DEF HeadsOn
    <3>2. \A n \in Messages \ {m} : Opening(n)' => calls'[n].session # calls'[m].session
      BY <2>1, <3>1 DEF HeadsOn, OpeningApart
    <3>3. Unowned(calls[m].session)'
      BY <2>1, <3>1 DEF OpeningApart, Unowned
    <3> QED BY <2>1, <3>1, <3>2, <3>3 DEF OpeningApart, SessionsGo, Of
  <2> QED BY <2>2, <2>3
<1> QED BY <1>1, <1>2 DEF ZulipApart

(* Nothing but the calls changes, and they stay what they were.             *)
LEMMA ZulipCallsApart ==
  ASSUME ApartInv, ZulipApart, UNCHANGED <<owned, archive>>, CallsApart, \A m \in Messages : HeadsOn(m),
         sessions' \in Seq(Elements(sessions')), DOMAIN sessions' = DOMAIN sessions,
         \A k \in DOMAIN sessions : SameTalk(sessions[k], sessions'[k])
  PROVE  ApartStep /\ ZulipApart'
<1>1. ApartStep
  BY TalksStay DEF CallsApart
<1> QED BY <1>1, TalkGoes, ZulipStaysApart

LEMMA AdoptApart ==
  ASSUME CallsOk, ApartInv, ZulipApart, NEW m \in Messages, Opening(m), NEW s,
         SameTalk(Of(m), s) \/ (DOMAIN s = SessionFields /\ s.place = Of(m).place /\ s.queue = Of(m).queue /\ s.turn = Of(m).turn /\ s.ready = Of(m).ready
                                /\ s.caller = Of(m).caller /\ s.handoff = Of(m).handoff /\ HistoryOf(s.history, s.place)),
         Adopt(m, s), UNCHANGED archive
  PROVE  ApartStep /\ ZulipApart'
<1>0. PICK k : k = calls[m].session
  OBVIOUS
<1>1. /\ k \in DOMAIN sessions /\ Unowned(k) /\ Of(m) = sessions[k] /\ Of(m).place = calls[m].place /\ Of(m).queue = <<>>
      /\ \A n \in Messages \ {m} : Opening(n) => calls[n].session # k
  BY <1>0 DEF ZulipApart, OpeningApart, Of
<1> DEFINE t == SetRunContext(s)
<1>2. DOMAIN s = SessionFields /\ SameTalk(s, t)
  BY TalkOps DEF SameTalk
<1>3. SameTalk(sessions[k], t)
  BY <1>1, <1>2 DEF SameTalk
<1> HIDE DEF t
<1>4. sessions' = [sessions EXCEPT ![k] = t] /\ owned' = [owned EXCEPT ![calls[m].place] = k] /\ Goto(m, "syncing")
  BY <1>0 DEF Adopt, Set, t
<1>5. /\ sessions' \in Seq(Elements(sessions')) /\ DOMAIN sessions' = DOMAIN sessions
      /\ \A j \in DOMAIN sessions : SameTalk(sessions[j], sessions'[j])
  BY <1>1, <1>3, <1>4, TalkSet
<1>6. calls[m].place \in Places
  BY DEF ApartInv, HasPlace, Opening
<1>7. CallsApart /\ calls'[m] = [calls[m] EXCEPT !.pc = "syncing"] /\ \A n \in Messages \ {m} : calls'[n] = calls[n]
  <2> DEFINE c == [calls[m] EXCEPT !.pc = "syncing"]
  <2>1. PlaceKept(calls[m], c)
    BY <1>6 DEF PlaceKept, CallsOk, CallOk, CallFields, Opening, Early, InSessionPcs, Locked
  <2>2. calls' = [calls EXCEPT ![m] = c]
    BY <1>4 DEF Goto
  <2> HIDE DEF c
  <2>3. CallsApart /\ calls'[m] = c /\ \A n \in Messages \ {m} : calls'[n] = calls[n]
    BY <2>1, <2>2, CallMovesApart
  <2> QED BY <2>3 DEF c
<1>8. ApartStep
  BY <1>5, <1>7, TalksStay DEF CallsApart, Adopt
<1>9. calls'[m].pc = "syncing" /\ calls'[m].place = calls[m].place /\ owned'[calls[m].place] = k /\ k # 0
  BY <1>1, <1>4, <1>6, <1>7 DEF CallsOk, CallOk, CallFields, ZulipApart, OwnedApart, ApartInv
<1>10. \A p \in Places : owned'[p] = k \/ owned'[p] = owned[p]
  BY <1>4 DEF ZulipApart, OwnedApart
<1>11. OwnedApart'
  BY <1>1, <1>4, <1>5 DEF ZulipApart, OwnedApart, SameTalk
<1>12. ASSUME NEW n \in Messages
       PROVE  OpeningApart(n)' /\ (Heading(n)' => owned'[calls'[n].place] # 0)
  <2>1. CASE n = m
    BY <1>9, <2>1 DEF OpeningApart, Opening
  <2>2. CASE n # m
    <3>1. calls'[n] = calls[n] /\ OpeningApart(n) /\ HasPlace(n)
      BY <1>7, <2>2 DEF ZulipApart, ApartInv
    <3>2. Heading(n)' => owned'[calls'[n].place] # 0
      <4>1. Heading(n) => owned[calls[n].place] # 0 /\ calls[n].place \in Places
        BY <3>1 DEF ZulipApart, HasPlace, Heading
      <4> QED BY <1>9, <1>10, <3>1, <4>1 DEF Heading
    <3>3. Opening(n) => Unowned(calls[n].session)' /\ calls[n].session # k
      BY <1>1, <1>7, <1>10, <2>2, <3>1 DEF OpeningApart, Unowned
    <3>4. \A l \in Messages \ {n} : Opening(l)' => Opening(l) /\ calls'[l].session = calls[l].session
      BY <1>7, <1>9 DEF Opening
    <3> QED BY <1>5, <3>1, <3>2, <3>3, <3>4 DEF OpeningApart, Opening, SameTalk, Of
  <2> QED BY <2>1, <2>2
<1> QED BY <1>8, <1>11, <1>12 DEF ZulipApart

SameTalks ==
  /\ sessions' \in Seq(Elements(sessions')) /\ DOMAIN sessions' = DOMAIN sessions
  /\ \A k \in DOMAIN sessions : SameTalk(sessions[k], sessions'[k])
SameCall(c, d) == d.pc = c.pc /\ d.session = c.session /\ d.place = c.place

LEMMA ZulipCallApart ==
  ASSUME CallsOk, ApartInv, ZulipApart, NEW m \in Messages, NEW c, calls' = [calls EXCEPT ![m] = c],
         \/ SameCall(calls[m], c)
         \/ /\ PlaceKept(calls[m], c)
            /\ c.pc \in {"syncing", "stopping", "placing"} =>
                 (Heading(m) /\ c.place = calls[m].place) \/ owned[c.place] # 0
            /\ c.pc \in {"restoring", "probing"} => Opening(m) /\ c.session = calls[m].session /\ c.place = calls[m].place,
         UNCHANGED <<owned, archive>>, SameTalks
  PROVE  ApartStep /\ ZulipApart'
<1>1. calls'[m] = c /\ \A n \in Messages \ {m} : calls'[n] = calls[n]
  BY OneCall
<1>2. CallsApart
  BY <1>1, CallsMoveApart DEF SameCall
<1>3. \A n \in Messages : HeadsOn(n)
  BY <1>1 DEF HeadsOn, Heading, Opening, SameCall
<1> QED BY <1>2, <1>3, ZulipCallsApart DEF SameTalks

LEMMA RestoredTalk ==
  ASSUME ApartInv, NEW k \in DOMAIN sessions, sessions[k].queue = <<>>, NEW ok
  PROVE  SameTalk(sessions[k], Restored(sessions[k], ok))
<1> DEFINE s == sessions[k]
<1>1. DOMAIN s = SessionFields /\ s.place \in Places /\ ArchiveApart
  BY DEF ApartInv, SessionApart
<1>2. HistoryOf(ResumableHistory(s.place), s.place)
  BY <1>1, ResumedHistory
<1> HIDE DEF s
<1>3. SameTalk(s, [s EXCEPT !.notice = TRUE])
  BY <1>1 DEF SameTalk, SessionFields
<1>4. SameTalk(s, [s EXCEPT !.history = ResumableHistory(s.place)])
  <2> DEFINE h == ResumableHistory(s.place)
  <2>1. s.queue = <<>>
    BY DEF s
  <2> HIDE DEF h
  <2> QED BY <1>1, <1>2, <2>1 DEF SameTalk, SessionFields, h
<1> QED BY <1>3, <1>4 DEF Restored, s

LEMMA ZulipTaskApart ==
  ASSUME CallsOk, ApartInv, ZulipApart, interface = "zulip", NEW m \in Messages, ZulipTask(m)
  PROVE  ApartStep /\ ZulipApart'
<1> DEFINE p == calls[m].place
           Finished(c) == PlaceKept(calls[m], c) /\ c.pc \in {"done", "delivering"}
<1>1. calls[m].pc # "unsent" => p \in Places
  BY DEF ApartInv, HasPlace
<1>2. UNCHANGED sessions => SameTalks
  BY SessionsSame DEF SameTalks
<1>3. \A k \in DOMAIN sessions : DOMAIN sessions[k] = SessionFields
  BY DEF ApartInv, SessionApart
<1>4. ASSUME NEW k \in DOMAIN sessions, NEW t, sessions' = [sessions EXCEPT ![k] = t], SameTalk(sessions[k], t)
      PROVE  SameTalks
  BY <1>4, TalkSet DEF SameTalks
<1>5. \A pc : LET c == [calls[m] EXCEPT !.pc = pc]
              IN  c.pc = pc /\ c.session = calls[m].session /\ c.place = p
  BY DEF CallsOk, CallOk, CallFields
<1>6. \A c : c.place = p /\ calls[m].pc \notin InSessionPcs \cup {"unsent"} => PlaceKept(calls[m], Finish(c)) /\ Finish(c).pc = "done"
  BY <1>1, FinishFields DEF PlaceKept, InSessionPcs, Locked, Early
<1>7. ASSUME Ends(m), calls[m].pc \notin InSessionPcs \cup {"unsent"}, UNCHANGED <<owned, archive>>, SameTalks
      PROVE  ApartStep /\ ZulipApart'
  <2>1. calls' = [calls EXCEPT ![m] = Finish(calls[m])]
    BY <1>7 DEF Ends
  <2> QED BY <1>6, <1>7, <2>1, ZulipCallApart
<1>8. CASE Handle(m)
  <2>1. calls[m].pc = "queued" /\ p \in Places /\ UNCHANGED <<owned, archive>>
    BY <1>1, <1>8 DEF Handle, At
  <2>2. CASE owned[p] # 0 /\ Goto(m, "syncing") /\ sessions' = [sessions EXCEPT ![owned[p]] = SetRunContext(sessions[owned[p]])]
    <3>1. owned[p] \in DOMAIN sessions
      BY <2>1, <2>2 DEF ZulipApart, OwnedApart
    <3>2. SameTalks
      BY <1>3, <1>4, <2>2, <3>1, TalkOps
    <3> DEFINE c == [calls[m] EXCEPT !.pc = "syncing"]
    <3>3. calls' = [calls EXCEPT ![m] = c]
      BY <2>2 DEF Goto
    <3>4. PlaceKept(calls[m], c) /\ c.pc = "syncing" /\ c.place = p
      BY <1>5, <2>1 DEF PlaceKept, InSessionPcs, Locked, Early
    <3> HIDE DEF c
    <3> QED BY <2>1, <2>2, <3>2, <3>3, <3>4, ZulipCallApart
  <2>3. CASE Ends(m) /\ sessions' = sessions
    BY <1>2, <1>7, <2>1, <2>3 DEF InSessionPcs, Locked
  <2>4. CASE /\ sessions' = Append(sessions, NewSession(p, runtime))
             /\ calls' = [calls EXCEPT ![m] = [@ EXCEPT !.pc = "restoring", !.session = Len(sessions) + 1]]
    <3>0. PICK k : k = Len(sessions) + 1
      OBVIOUS
    <3> DEFINE c == [calls[m] EXCEPT !.pc = "restoring", !.session = Len(sessions) + 1]
               s == NewSession(p, runtime)
    <3>1. calls' = [calls EXCEPT ![m] = c] /\ c.pc = "restoring" /\ c.session = k /\ c.place = p
      BY <2>4, <3>0 DEF CallsOk, CallOk, CallFields
    <3>2. PlaceKept(calls[m], c)
      BY <2>1, <3>1 DEF PlaceKept, InSessionPcs, Locked, Early
    <3>3. OwnTalk(s) /\ s.queue = <<>> /\ s.place = p /\ ~s.ready
      BY <2>1, OpenedTalk DEF OwnTalk
    <3> HIDE DEF c, s
    <3>4. CallsApart /\ calls'[m] = c /\ \A n \in Messages \ {m} : calls'[n] = calls[n]
      BY <3>1, <3>2, CallMovesApart
    <3>5. sessions = [j \in DOMAIN sessions |-> sessions[j]]
      BY DEF ApartInv
    <3>6. /\ sessions' \in Seq(Elements(sessions')) /\ k \notin DOMAIN sessions
          /\ DOMAIN sessions' = DOMAIN sessions \cup {k} /\ sessions'[k] = s
          /\ \A j \in DOMAIN sessions : sessions'[j] = sessions[j]
      BY <2>4, <3>0, <3>5, SessionAppended DEF s
    <3>7. ApartStep
      <4>1. \A j \in DOMAIN sessions : SameTalk(sessions[j], sessions'[j])
        BY <1>3, <3>6, TalkOps
      <4> QED BY <2>1, <3>3, <3>4, <3>6, <4>1, TalkOpens DEF CallsApart
    <3>8. OwnedApart'
      BY <2>1, <3>6 DEF ZulipApart, OwnedApart
    <3>9. ASSUME NEW n \in Messages
          PROVE  OpeningApart(n)' /\ (Heading(n)' => owned'[calls'[n].place] # 0)
      <4>1. \A l \in Messages : Opening(l) => calls[l].session \in DOMAIN sessions /\ calls[l].session # k
        BY <3>6 DEF ZulipApart, OpeningApart
      <4>2. Unowned(k)'
        BY <2>1, <3>0, <3>6 DEF ZulipApart, OwnedApart, Unowned, ApartInv
      <4>3. CASE n = m
        BY <3>1, <3>3, <3>4, <3>6, <4>1, <4>2, <4>3 DEF OpeningApart, Opening, Heading, Of
      <4>4. CASE n # m
        <5>1. calls'[n] = calls[n] /\ OpeningApart(n)
          BY <3>4, <4>4 DEF ZulipApart
        <5>2. \A l \in Messages \ {n} : Opening(n) /\ Opening(l)' => calls'[l].session # calls[n].session
          BY <3>1, <3>4, <4>1, <4>4, <5>1 DEF Opening, OpeningApart
        <5>3. Heading(n)' => owned'[calls'[n].place] # 0
          BY <2>1, <5>1 DEF ZulipApart, Heading
        <5> QED BY <2>1, <3>6, <5>1, <5>2, <5>3 DEF OpeningApart, Opening, Of, Unowned
      <4> QED BY <4>3, <4>4
    <3> QED BY <3>7, <3>8, <3>9 DEF ZulipApart
  <2> QED BY <1>8, <2>2, <2>3, <2>4 DEF Handle
<1>9. Opening(m) => calls[m].session \in DOMAIN sessions /\ Of(m) = sessions[calls[m].session] /\ Of(m).queue = <<>>
  BY DEF ZulipApart, OpeningApart, Of
<1>10. CASE Restore(m)
  <2>1. Opening(m) /\ UNCHANGED archive /\ calls[m].pc = "restoring"
    BY <1>10 DEF Restore, Opening, At
  <2>2. ASSUME NEW ok, Adopt(m, Restored(Of(m), ok))
        PROVE  ApartStep /\ ZulipApart'
    BY <1>9, <2>1, <2>2, RestoredTalk, AdoptApart
  <2>3. CASE Goto(m, "probing") /\ UNCHANGED <<sessions, spent, owned, admitted>>
    <3> DEFINE c == [calls[m] EXCEPT !.pc = "probing"]
    <3>1. calls' = [calls EXCEPT ![m] = c]
      BY <2>3 DEF Goto
    <3>2. PlaceKept(calls[m], c) /\ c.pc = "probing" /\ c.place = p /\ c.session = calls[m].session
      BY <1>1, <1>5, <2>1 DEF PlaceKept, InSessionPcs, Locked, Early
    <3> HIDE DEF c
    <3> QED BY <1>2, <2>1, <2>3, <3>1, <3>2, ZulipCallApart
  <2> QED BY <1>10, <2>2, <2>3 DEF Restore
<1>11. CASE Probe(m)
  <2>1. Opening(m) /\ UNCHANGED archive /\ calls[m].pc = "probing"
    BY <1>11 DEF Probe, Opening, At
  <2>2. CASE Adopt(m, Of(m))
    BY <1>3, <1>9, <2>1, <2>2, AdoptApart, TalkOps
  <2>3. CASE Set(m, Close(Of(m))) /\ Ends(m) /\ UNCHANGED owned
    <3>1. SameTalks
      BY <1>3, <1>4, <1>9, <2>1, <2>3, TalkOps DEF Set
    <3> QED BY <1>7, <2>1, <2>3, <3>1 DEF InSessionPcs, Locked
  <2> QED BY <1>11, <2>2, <2>3 DEF Probe
<1>12. CASE Sync(m)
  <2>1. Heading(m) /\ UNCHANGED <<sessions, archive, owned>>
    BY <1>12 DEF Sync, SyncNow, SyncStops, SyncStopped, At, Heading, zulipVars
  <2>2. \/ \E pc \in {"placing", "stopping"} : calls' = [calls EXCEPT ![m].pc = pc]
        \/ calls' = [calls EXCEPT ![m] = [@ EXCEPT !.pc = "placing", !.cancelled = FALSE]]
    BY <1>12 DEF Sync, SyncNow, SyncStops, SyncStopped, Goto
  <2>3. \E c : /\ calls' = [calls EXCEPT ![m] = c] /\ c.pc \in {"placing", "stopping"} /\ c.place = p
    <3>1. CASE \E pc \in {"placing", "stopping"} : calls' = [calls EXCEPT ![m].pc = pc]
      <4>1. PICK pc \in {"placing", "stopping"} : calls' = [calls EXCEPT ![m].pc = pc]
        BY <3>1
      <4> DEFINE c == [calls[m] EXCEPT !.pc = pc]
      <4>2. calls' = [calls EXCEPT ![m] = c] /\ c.pc = pc /\ c.place = p
        BY <1>5, <4>1
      <4> HIDE DEF c
      <4> QED BY <4>2
    <3>2. CASE calls' = [calls EXCEPT ![m] = [@ EXCEPT !.pc = "placing", !.cancelled = FALSE]]
      <4> DEFINE c == [calls[m] EXCEPT !.pc = "placing", !.cancelled = FALSE]
      <4>1. calls' = [calls EXCEPT ![m] = c] /\ c.pc = "placing" /\ c.place = p
        BY <3>2 DEF CallsOk, CallOk, CallFields
      <4> HIDE DEF c
      <4> QED BY <4>1
    <3> QED BY <2>2, <3>1, <3>2
  <2>4. p \in Places /\ calls[m].pc \in {"syncing", "stopping", "placing"}
    BY <1>1, <2>1 DEF Heading
  <2>5. calls[m].pc \in {"syncing", "stopping"}
    BY <1>12 DEF Sync, SyncNow, SyncStops, SyncStopped, At
  <2> QED BY <1>2, <2>1, <2>3, <2>4, <2>5, ZulipCallApart DEF PlaceKept, InSessionPcs, Locked, Early
<1>13. CASE Place(m)
  <2>0. PICK k : k = owned[p]
    OBVIOUS
  <2>1. calls[m].pc = "placing" /\ UNCHANGED <<archive, owned>> /\ sessions' = [sessions EXCEPT ![k] = Entered(sessions[k], m)]
    BY <1>13, <2>0 DEF Place, At
  <2>2. k \in DOMAIN sessions /\ sessions[k].place = p /\ p \in Places
    BY <1>1, <2>0, <2>1 DEF ZulipApart, OwnedApart, Heading
  <2>3. PICK shown : calls' = [calls EXCEPT ![m] = [@ EXCEPT !.pc = "waiting", !.session = owned[p], !.shown = shown]]
    BY <1>13 DEF Place
  <2> DEFINE c == [calls[m] EXCEPT !.pc = "waiting", !.session = owned[p], !.shown = shown]
  <2>4. calls' = [calls EXCEPT ![m] = c] /\ c.pc = "waiting" /\ c.session = k /\ c.place = p
    BY <2>0, <2>3 DEF CallsOk, CallOk, CallFields
  <2> HIDE DEF c
  <2>5. calls'[m] = c /\ \A n \in Messages \ {m} : calls'[n] = calls[n]
    BY <2>4, OneCall
  <2>6. /\ sessions' \in Seq(Elements(sessions')) /\ DOMAIN sessions' = DOMAIN sessions
        /\ sessions'[k] = Entered(sessions[k], m) /\ \A j \in DOMAIN sessions \ {k} : sessions'[j] = sessions[j]
    BY <2>1, <2>2, SetOne
  <2>7. Queues(sessions[k], Entered(sessions[k], m), m)
    BY <1>3, <2>2 DEF Queues, Entered, SessionFields
  <2>8. \A n \in Messages : KeepsPlace(n) /\ (n # m => Steady(n))
    BY <2>1, <2>2, <2>4, <2>5 DEF KeepsPlace, Steady, ApartInv, HasPlace, Early
  <2>9. ApartStep
    <3>1. \A j \in DOMAIN sessions \ {k} : SameTalk(sessions[j], sessions'[j])
      BY <2>6, SameIsSame
    <3>2. calls'[m].place = sessions'[k].place /\ calls[m].pc \notin InSessionPcs /\ DOMAIN sessions' = DOMAIN sessions \cup {k}
      BY <2>1, <2>2, <2>4, <2>5, <2>6, <2>7 DEF Queues, InSessionPcs, Locked
    <3> QED BY <2>1, <2>2, <2>4, <2>5, <2>6, <2>7, <2>8, <3>1, <3>2, TurnEnters
  <2>10. SessionsGo
    <3>1. ~Unowned(k)
      BY <2>0, <2>2 DEF Unowned
    <3> QED BY <2>2, <2>6, <2>7, <3>1 DEF SessionsGo, Queues
  <2>11. \A n \in Messages : HeadsOn(n)
    BY <2>4, <2>5 DEF HeadsOn, Heading, Opening
  <2> QED BY <2>1, <2>9, <2>10, <2>11, ZulipStaysApart
<1>14. CASE Turn(m)
  <2>1. TurnStep(m) /\ UNCHANGED owned
    BY <1>14 DEF Turn, zulipVars
  <2>2. ApartStep /\ TurnFrame(m)
    BY <2>1, TurnApartStep
  <2>3. SessionsGo
    <3>0. PICK k : k = calls[m].session
      OBVIOUS
    <3>1. TurnApart(m) /\ calls[m].pc \in InSessionPcs
      BY <2>2 DEF ApartInv, TurnFrame, OneTurn
    <3>2. sessions[k].queue # <<>>
      BY <3>0, <3>1 DEF TurnApart, Of, Range
    <3> QED BY <2>2, <3>0, <3>2 DEF SessionsGo, TurnFrame, Of
  <2>4. \A n \in Messages : HeadsOn(n)
    BY <2>2 DEF HeadsOn, Heading, Opening, TurnFrame, OneTurn, InSessionPcs, Locked
  <2> QED BY <2>1, <2>2, <2>3, <2>4, ZulipStaysApart
<1>15. CASE Delta(m) \/ Settle(m) \/ Deliver(m) \/ Unwind(m)
  <2>1. UNCHANGED <<owned, archive, sessions>>
    BY <1>15 DEF Delta, Settle, Deliver, Unwind, turnVars, zulipVars
  <2>2. CASE Delta(m)
    <3> DEFINE c == [calls[m] EXCEPT !.edit = TRUE]
    <3>1. calls' = [calls EXCEPT ![m] = c] /\ SameCall(calls[m], c)
      BY <2>2 DEF Delta, SameCall, CallsOk, CallOk, CallFields
    <3> HIDE DEF c
    <3> QED BY <1>2, <2>1, <3>1, ZulipCallApart
  <2>3. CASE Settle(m)
    <3> DEFINE d == [calls[m] EXCEPT !.edit = FALSE]
    <3>1. d.place = p /\ DOMAIN d = CallFields
      BY DEF CallsOk, CallOk, CallFields
    <3>2. \E c : calls' = [calls EXCEPT ![m] = c] /\ (c = Finish(d) \/ c = [d EXCEPT !.pc = "delivering"])
      BY <2>3 DEF Settle, EditDropped
    <3>3. calls[m].pc = "left" /\ p \in Places
      BY <1>1, <2>3 DEF Settle
    <3> HIDE DEF d
    <3>4. \A c : c = Finish(d) \/ c = [d EXCEPT !.pc = "delivering"] => c.pc \in {"done", "delivering"} /\ c.place = p
      BY <3>1, FinishFields DEF CallFields
    <3>5. \E c : calls' = [calls EXCEPT ![m] = c] /\ PlaceKept(calls[m], c) /\ c.pc \in {"done", "delivering"}
      BY <3>2, <3>3, <3>4 DEF PlaceKept, InSessionPcs, Locked, Early
    <3> QED BY <1>2, <2>1, <3>5, ZulipCallApart
  <2>4. CASE Deliver(m)
    <3> DEFINE c == [Finish(calls[m]) EXCEPT !.shown = calls[m].outcome]
    <3>1. calls' = [calls EXCEPT ![m] = c] /\ calls[m].pc = "delivering" /\ p \in Places
      BY <1>1, <2>4 DEF Deliver, At
    <3>2. c.pc = "done" /\ c.place = p
      BY DEF Finish, Ended, NoCall
    <3>3. PlaceKept(calls[m], c)
      BY <3>1, <3>2 DEF PlaceKept, InSessionPcs, Locked, Early
    <3> HIDE DEF c
    <3> QED BY <1>2, <2>1, <3>1, <3>2, <3>3, ZulipCallApart
  <2>5. CASE Unwind(m)
    BY <1>2, <1>7, <2>1, <2>5 DEF Unwind, InSessionPcs, Locked
  <2> QED BY <1>15, <2>2, <2>3, <2>4, <2>5
<1>16. CASE StopTopic(m)
  <2>1. UNCHANGED <<owned, archive>> /\ calls[m].pc = "queued" /\ p \in Places
    BY <1>1, <1>16 DEF StopTopic, turnVars, Stopping
  <2>2. SameTalks
    <3>1. \/ sessions' = sessions
          \/ owned[p] # 0 /\ sessions' = [sessions EXCEPT ![owned[p]] = CancelHandoff(sessions[owned[p]])]
      BY <1>16 DEF StopTopic
    <3>2. owned[p] # 0 => owned[p] \in DOMAIN sessions
      BY <2>1 DEF ZulipApart, OwnedApart
    <3> QED BY <1>2, <1>3, <1>4, <3>1, <3>2, TalkOps
  <2>3. \A c : Replied(c).pc = "done" /\ Replied(c).place = c.place
    BY DEF Replied, Finish, Ended, NoCall
  <2>4. /\ calls'[m].pc = "done" /\ calls'[m].place = p
        /\ \A n \in Messages \ {m} : SameCall(calls[n], calls'[n])
    <3>1. CASE calls' = [calls EXCEPT ![m] = Replied(calls[m])]
      BY <2>3, <3>1 DEF SameCall, CallsOk
    <3>2. CASE calls' = [Cancel(TasksOf(p)) EXCEPT ![m] = Replied(Cancel(TasksOf(p))[m])]
      <4> DEFINE d == Cancel(TasksOf(p))
      <4>1. DOMAIN d = Messages /\ \A n \in Messages : SameCall(calls[n], d[n])
        BY DEF Cancel, SameCall, CallsOk, CallOk, CallFields
      <4> HIDE DEF d
      <4>2. calls' = [d EXCEPT ![m] = Replied(d[m])]
        BY <3>2 DEF d
      <4>3. calls'[m] = Replied(d[m]) /\ \A n \in Messages \ {m} : calls'[n] = d[n]
        BY <4>1, <4>2
      <4> QED BY <2>3, <4>1, <4>3 DEF SameCall
    <3> QED BY <1>16, <3>1, <3>2 DEF StopTopic
  <2>5. CallsApart
    <3>1. PlaceKept(calls[m], calls'[m])
      BY <2>1, <2>4 DEF PlaceKept, InSessionPcs, Locked, Early
    <3> QED BY <2>4, <3>1, CallsMoveApart DEF SameCall
  <2>6. \A n \in Messages : HeadsOn(n)
    BY <2>4 DEF HeadsOn, Heading, Opening, SameCall
  <2> QED BY <2>1, <2>2, <2>5, <2>6, ZulipCallsApart DEF SameTalks
<1> QED BY <1>8, <1>10, <1>11, <1>12, <1>13, <1>14, <1>15, <1>16 DEF ZulipTask

(* The next message, and the end of a process, are nothing to a Session.    *)
LEMMA NextToCome ==
  ASSUME Unsent # {}
  PROVE  Min(Unsent) \in Messages /\ calls[Min(Unsent)].pc = "unsent"
BY MinFacts DEF Unsent, Messages

LEMMA ApartRestarts ==
  ASSUME CallsOk, ApartInv, calls' = Lost, UNCHANGED archive, sessions' \in Seq(Elements(sessions')),
         \A k \in DOMAIN sessions' : OwnTalk(sessions'[k]) /\ sessions'[k].queue = <<>>
  PROVE  ApartStep /\ \A m \in Messages : calls'[m].pc \in {"unsent", "done", "lost"}
<1>1. \A m \in Messages : /\ calls'[m].pc = IF calls[m].pc \in {"unsent", "done"} THEN calls[m].pc ELSE "lost"
                          /\ calls'[m].place = calls[m].place
  BY DEF Lost, Ended, NoCall, CallsOk, CallOk, CallFields
<1>2. \A m \in Messages : KeepsPlace(m)
  BY <1>1 DEF KeepsPlace, ApartInv, HasPlace, Early
<1>3. ASSUME NEW k \in DOMAIN sessions'
      PROVE  SessionApart(k)'
  <2>1. HistoryOf(sessions[k].history, sessions[k].place)'
    <3>1. \A n, p : Placed(n, p) => Placed(n, p)'
      BY <1>2 DEF KeepsPlace, Placed
    <3> QED BY <3>1 DEF HistoryOf, OwnTalk
  <2>2. QueueOk(k)'
    <3>1. sessions'[k].queue = <<>>
      OBVIOUS
    <3> QED BY <3>1 DEF QueueOk, Distinct, Range
  <2> QED BY <2>1, <2>2 DEF SessionApart, OwnTalk, CallerOk
<1>4. \A m \in Messages : TurnApart(m)'
  BY <1>1 DEF TurnApart, InSessionPcs, Locked
<1>5. ArchiveApart'
  BY <1>2, ArchiveStays DEF ApartInv
<1>6. NumbersStay
  <2>1. \A m \in Messages : calls'[m].pc \notin InSessionPcs
    BY <1>1 DEF InSessionPcs, Locked
  <2> QED BY <2>1 DEF NumbersStay, OwnTalk
<1> QED BY <1>1, <1>2, <1>3, <1>4, <1>5, <1>6 DEF ApartInv, ApartStep, KeepsPlace

LEMMA NoSessions ==
  ASSUME sessions' = <<>>
  PROVE  sessions' \in Seq(Elements(sessions')) /\ DOMAIN sessions' = {}
OBVIOUS

LEMMA EditedCall ==
  ASSUME CallsOk, ApartInv, NEW m \in Messages, EditLands(m)
  PROVE  \A n \in Messages : SameCall(calls[n], calls'[n])
<1> DEFINE c == [calls[m] EXCEPT !.edit = FALSE, !.shown = "progress"]
<1>1. calls' = [calls EXCEPT ![m] = c] /\ SameCall(calls[m], c)
  BY DEF EditLands, SameCall, CallsOk, CallOk, CallFields
<1> HIDE DEF c
<1> QED BY <1>1, OneCall DEF SameCall

LEMMA SameCallsApart ==
  ASSUME ApartInv, \A m \in Messages : SameCall(calls[m], calls'[m])
  PROVE  CallsApart /\ \A m \in Messages : HeadsOn(m)
<1>1. CallsApart
  BY CallsMoveApart DEF SameCall
<1> QED BY <1>1 DEF HeadsOn, Heading, Opening, SameCall

LEMMA ZulipNextApart ==
  ASSUME CallsOk, ApartInv, ZulipApart, InboxInv, interface = "zulip", ZulipNext
  PROVE  ApartStep /\ ZulipApart'
<1>1. UNCHANGED sessions => SameTalks
  BY SessionsSame DEF SameTalks
<1>2. \A m \in Messages : calls[m].pc # "unsent" => calls[m].place \in Places
  BY DEF ApartInv, HasPlace
<1>3. ASSUME \A m \in Messages : SameCall(calls[m], calls'[m]), UNCHANGED <<owned, archive>>, SameTalks
      PROVE  ApartStep /\ ZulipApart'
  BY <1>3, SameCallsApart, ZulipCallsApart DEF SameTalks
<1>4. CASE UserWrites
  <2> DEFINE m == Min(Unsent)
  <2>1. m \in Messages /\ calls[m].pc = "unsent"
    BY <1>4, NextToCome DEF UserWrites, NextMessage
  <2>2. PICK topic \in Places, kind \in {"say", "mention", "stop"} :
          calls' = [calls EXCEPT ![m] = [NoCall EXCEPT !.pc = Written, !.place = topic, !.kind = kind]]
    BY <1>4 DEF UserWrites
  <2> DEFINE c == [NoCall EXCEPT !.pc = Written, !.place = topic, !.kind = kind]
  <2>3. c.pc \in {"lost", "unread"} /\ c.place = topic
    BY DEF NoCall, Written
  <2>4. calls' = [calls EXCEPT ![m] = c]
    BY <2>2
  <2> HIDE DEF c, m
  <2>5. PlaceKept(calls[m], c)
    BY <2>1, <2>3 DEF PlaceKept, InSessionPcs, Locked, Early
  <2>6. UNCHANGED <<owned, archive, sessions>>
    BY <1>4 DEF UserWrites
  <2> QED BY <1>1, <2>1, <2>3, <2>4, <2>5, <2>6, ZulipCallApart
<1>5. CASE StrangerWrites \/ Register
  <2>1. UNCHANGED <<owned, archive, sessions, calls>>
    BY <1>5 DEF StrangerWrites, Register
  <2> QED BY <1>1, <1>3, <2>1 DEF SameCall
<1>6. CASE Shutdown
  <2>1. UNCHANGED <<owned, archive, sessions>> /\ calls' = Cancel(UNION {TasksOf(t) : t \in Places})
    BY <1>6 DEF Shutdown
  <2>2. \A n \in Messages : SameCall(calls[n], calls'[n])
    BY <2>1 DEF Cancel, SameCall, CallsOk, CallOk, CallFields
  <2> QED BY <1>1, <1>3, <2>1, <2>2
<1>7. ASSUME NEW m \in Messages, EditLands(m) /\ UNCHANGED zulipVars
      PROVE  ApartStep /\ ZulipApart'
  <2>1. UNCHANGED <<owned, archive, sessions>>
    BY <1>7 DEF EditLands, zulipVars
  <2> QED BY <1>1, <1>3, <1>7, <2>1, EditedCall
<1>8. ASSUME \A n \in Messages : calls'[n] = calls[n] \/ (calls[n].pc = "unread" /\ calls'[n].pc \in {"lost", "queued"} /\ calls'[n].place = calls[n].place),
             UNCHANGED <<owned, archive>>, SameTalks
      PROVE  ApartStep /\ ZulipApart'
  <2>1. CallsApart
    BY <1>2, <1>8, CallsMoveApart DEF PlaceKept, InSessionPcs, Locked, Early
  <2>2. \A n \in Messages : HeadsOn(n)
    BY <1>8 DEF HeadsOn, Heading, Opening
  <2> QED BY <1>8, <2>1, <2>2, ZulipCallsApart DEF SameTalks
<1>9. \A n \in Messages : Ended(calls[n], "lost").pc = "lost" /\ Ended(calls[n], "lost").place = calls[n].place
  BY DEF Ended, NoCall
<1>10. CASE QueueExpires
  <2>1. UNCHANGED <<owned, archive, sessions>> /\ calls' = [n \in Messages |-> IF calls[n].pc = "unread" THEN Ended(calls[n], "lost") ELSE calls[n]]
    BY <1>10 DEF QueueExpires
  <2> QED BY <1>1, <1>8, <1>9, <2>1
<1>11. CASE Poll
  <2>1. UNCHANGED <<owned, archive>> /\ sessions' = Notified(sessions, disk')
    BY <1>11 DEF Poll
  <2>2. \A n \in Messages : calls'[n] = calls[n] \/ (calls[n].pc = "unread" /\ (calls'[n] = Ended(calls[n], "lost") \/ calls'[n] = Dispatch(n)))
    BY <1>11 DEF Poll, InboxInv
  <2>3. \A n \in Messages : Dispatch(n).pc = "queued" /\ Dispatch(n).place = calls[n].place
    BY DEF Dispatch, CallsOk, CallOk, CallFields
  <2>4. SameTalks
    <3>1. sessions' = [k \in DOMAIN sessions |-> sessions'[k]] /\ \A k \in DOMAIN sessions : SameTalk(sessions[k], sessions'[k])
      BY <2>1, NotifiedTalk
    <3> QED BY <3>1, TalkMap DEF SameTalks
  <2> QED BY <1>8, <1>9, <2>1, <2>2, <2>3, <2>4
<1>12. CASE CloseAll
  <2>1. /\ UNCHANGED <<calls, archive>> /\ owned' = [t \in Places |-> 0]
        /\ sessions' = [k \in DOMAIN sessions |-> IF k \in Range(owned) THEN Close(sessions[k]) ELSE sessions[k]]
    BY <1>12 DEF CloseAll
  <2>2. SameTalks
    <3>1. \A k \in DOMAIN sessions : DOMAIN sessions[k] = SessionFields
      BY DEF ApartInv, SessionApart
    <3>2. sessions' = [k \in DOMAIN sessions |-> sessions'[k]] /\ \A k \in DOMAIN sessions : SameTalk(sessions[k], sessions'[k])
      BY <2>1, <3>1, TalkOps
    <3> QED BY <3>2, TalkMap DEF SameTalks
  <2>3. CallsApart
    BY <2>1, SameCallsApart DEF SameCall
  <2>4. ApartStep
    BY <2>1, <2>2, <2>3, TalksStay DEF CallsApart, SameTalks
  <2>5. \A m \in Messages : ~Opening(m)' /\ ~Heading(m)'
    BY <1>12, <2>1 DEF CloseAll, Alive, Opening, Heading
  <2> QED BY <2>1, <2>4, <2>5 DEF ZulipApart, OwnedApart, OpeningApart
<1>13. CASE Restart
  <2>1. sessions' = <<>> /\ calls' = Lost /\ UNCHANGED archive /\ owned' = [t \in Places |-> 0]
    BY <1>13 DEF Restart, Restarted
  <2>2. ApartStep /\ \A m \in Messages : calls'[m].pc \in {"unsent", "done", "lost"}
    BY <2>1, NoSessions, ApartRestarts
  <2> QED BY <2>1, <2>2 DEF ZulipApart, OwnedApart, OpeningApart, Opening, Heading
<1>14. ASSUME NEW m \in Messages, ZulipTask(m) \/ Sync(m)
       PROVE  ApartStep /\ ZulipApart'
  BY <1>14, ZulipTaskApart DEF ZulipTask
<1> QED BY <1>4, <1>5, <1>6, <1>7, <1>10, <1>11, <1>12, <1>13, <1>14 DEF ZulipNext, ZulipRunsOn

-----------------------------------------------------------------------------
(* Direct mode: one peer, and one Session that is the peer's.               *)
DirectApart ==
  /\ \A m, n \in Messages : calls[m].pc # "unsent" /\ calls[n].pc # "unsent" => calls[m].place = calls[n].place
  /\ current # 0 =>
       /\ current \in DOMAIN sessions
       /\ \E m \in Messages : calls[m].pc # "unsent" /\ calls[m].place = sessions[current].place

Follows(m) == (calls'[m].pc = "unsent" <=> calls[m].pc = "unsent") /\ (calls[m].pc # "unsent" => calls'[m].place = calls[m].place)
PlacesGo == \A k \in DOMAIN sessions : k \in DOMAIN sessions' /\ sessions'[k].place = sessions[k].place

LEMMA DirectStaysApart ==
  ASSUME DirectApart, UNCHANGED current, PlacesGo, \A m \in Messages : Follows(m)
  PROVE  DirectApart'
<1>1. \A m, n \in Messages : calls'[m].pc # "unsent" /\ calls'[n].pc # "unsent" => calls'[m].place = calls'[n].place
  BY DEF DirectApart, Follows
<1>2. ASSUME current # 0
      PROVE  current \in DOMAIN sessions' /\ \E m \in Messages : calls'[m].pc # "unsent" /\ calls'[m].place = sessions'[current].place
  BY <1>2 DEF DirectApart, Follows, PlacesGo
<1> QED BY <1>1, <1>2 DEF DirectApart

(* Calls that no Session knows of come, go and are lost.                    *)
LEMMA DirectCallsApart ==
  ASSUME ApartInv, DirectApart, UNCHANGED <<current, archive>>, SameTalks, CallsApart, \A m \in Messages : Follows(m)
  PROVE  ApartStep /\ DirectApart'
<1>1. ApartStep
  BY TalksStay DEF CallsApart, SameTalks
<1>2. PlacesGo
  BY DEF PlacesGo, SameTalks, SameTalk
<1> QED BY <1>1, <1>2, DirectStaysApart

LEMMA EnteredTalk ==
  ASSUME NEW s, NEW m, DOMAIN s = SessionFields
  PROVE  /\ Queues(s, Entered(s, m), m)
         /\ OwnTalk(s) /\ s.queue = <<>> =>
              OwnTalk(Entered(s, m)) /\ Entered(s, m).queue = <<m>> /\ Entered(s, m).place = s.place
<1>1. Queues(s, Entered(s, m), m)
  BY DEF Queues, Entered, SessionFields
<1>2. Append(<<>>, m) = <<m>>
  OBVIOUS
<1> QED BY <1>1, <1>2 DEF Queues, OwnTalk

LEMMA RestoredNewTalk ==
  ASSUME ArchiveApart, NEW p \in Places, NEW rt, NEW ok
  PROVE  LET s == SetRunContext(Restored(NewSession(p, rt), ok))
         IN  DOMAIN s = SessionFields /\ OwnTalk(s) /\ s.queue = <<>> /\ s.place = p
<1> DEFINE n == NewSession(p, rt)
           r == Restored(n, ok)
           h == ResumableHistory(p)
<1>1. OwnTalk(n) /\ n.queue = <<>> /\ n.place = p
  BY OpenedTalk
<1>2. HistoryOf(h, p)
  BY ResumedHistory
<1> HIDE DEF n, h
<1>3. r = [n EXCEPT !.history = h] \/ r = [n EXCEPT !.notice = TRUE]
  BY <1>1 DEF Restored, h
<1> HIDE DEF r
<1>4. DOMAIN n = SessionFields
  BY <1>1 DEF OwnTalk
<1>5. /\ DOMAIN r = SessionFields /\ r.queue = <<>> /\ r.place = p /\ r.turn = n.turn /\ r.handoff = n.handoff
      /\ r.ready = n.ready /\ r.history \in {h, n.history}
  BY <1>1, <1>3, <1>4 DEF SessionFields
<1>6. OwnTalk(r)
  BY <1>1, <1>2, <1>5 DEF OwnTalk
<1>7. /\ DOMAIN SetRunContext(r) = SessionFields /\ SetRunContext(r).history = r.history /\ SetRunContext(r).queue = r.queue
      /\ SetRunContext(r).place = r.place /\ SetRunContext(r).turn = r.turn /\ SetRunContext(r).handoff = r.handoff
      /\ SetRunContext(r).ready = r.ready
  BY <1>5 DEF SetRunContext, SessionFields
<1> QED BY <1>5, <1>6, <1>7 DEF OwnTalk, r, n

(* A turn queues for the Session that is there, or for a new one.           *)
LEMMA NewTurnEnters ==
  ASSUME CallsOk, ApartInv, NEW m \in Messages, calls[m].pc \notin InSessionPcs, calls[m].pc # "unsent",
         NEW olds, olds = [j \in DOMAIN sessions |-> olds[j]], \A j \in DOMAIN sessions : SameTalk(sessions[j], olds[j]),
         NEW s, DOMAIN s = SessionFields, OwnTalk(s), s.queue = <<>>, s.place = calls[m].place,
         sessions' = Append(olds, Entered(s, m)), UNCHANGED archive,
         calls' = [calls EXCEPT ![m] = [@ EXCEPT !.pc = "waiting", !.session = Len(sessions) + 1]]
  PROVE  /\ ApartStep /\ PlacesGo /\ Len(sessions) + 1 \in DOMAIN sessions'
         /\ sessions'[Len(sessions) + 1].place = calls[m].place
         /\ calls'[m].pc = "waiting" /\ calls'[m].place = calls[m].place /\ \A n \in Messages \ {m} : calls'[n] = calls[n]
<1>0. PICK k : k = Len(sessions) + 1
  OBVIOUS
<1> DEFINE c == [calls[m] EXCEPT !.pc = "waiting", !.session = k]
           e == Entered(s, m)
<1>1. calls' = [calls EXCEPT ![m] = c] /\ c.pc = "waiting" /\ c.session = k /\ c.place = calls[m].place
  BY <1>0 DEF CallsOk, CallOk, CallFields
<1> HIDE DEF c
<1>2. calls'[m] = c /\ \A n \in Messages \ {m} : calls'[n] = calls[n]
  BY <1>1, OneCall
<1>3. OwnTalk(e) /\ e.queue = <<m>> /\ e.place = calls[m].place
  BY EnteredTalk
<1>4. sessions' = Append(olds, e)
  OBVIOUS
<1> HIDE DEF e
<1>5. /\ sessions' \in Seq(Elements(sessions')) /\ k \notin DOMAIN sessions
      /\ DOMAIN sessions' = DOMAIN sessions \cup {k} /\ sessions'[k] = e
      /\ \A j \in DOMAIN sessions : sessions'[j] = olds[j]
  BY <1>0, <1>4, SessionAppended
<1>6. \A j \in DOMAIN sessions : SameTalk(sessions[j], sessions'[j])
  BY <1>5
<1>7. \A n \in Messages : KeepsPlace(n) /\ (n # m => Steady(n))
  BY <1>1, <1>2 DEF KeepsPlace, Steady, ApartInv, HasPlace, Early
<1>8. ApartStep
  <2>1. calls'[m].pc = "waiting" /\ calls'[m].session = k /\ calls'[m].place = sessions'[k].place
    BY <1>1, <1>2, <1>3, <1>5
  <2>2. OwnTalk(sessions'[k]) /\ sessions'[k].queue = <<m>>
    BY <1>3, <1>5
  <2>3. (\A n \in Messages : KeepsPlace(n)) /\ (\A n \in Messages \ {m} : Steady(n))
    BY <1>7
  <2>4. /\ sessions' \in Seq(Elements(sessions')) /\ k \notin DOMAIN sessions
        /\ DOMAIN sessions' = DOMAIN sessions \cup {k} /\ \A j \in DOMAIN sessions \ {k} : SameTalk(sessions[j], sessions'[j])
    BY <1>5, <1>6
  <2> QED BY <2>1, <2>2, <2>3, <2>4, TurnEnters
<1>9. PlacesGo
  BY <1>5, <1>6 DEF PlacesGo, SameTalk
<1> QED BY <1>0, <1>1, <1>2, <1>3, <1>5, <1>8, <1>9

LEMMA OldTurnEnters ==
  ASSUME CallsOk, ApartInv, NEW m \in Messages, calls[m].pc \notin InSessionPcs, calls[m].pc # "unsent",
         NEW k \in DOMAIN sessions, sessions[k].place = calls[m].place, UNCHANGED archive,
         sessions' = [sessions EXCEPT ![k] = Entered(sessions[k], m)],
         NEW c, calls' = [calls EXCEPT ![m] = c], c.pc = "waiting", c.session = k, c.place = calls[m].place
  PROVE  /\ ApartStep /\ PlacesGo
         /\ calls'[m].pc = "waiting" /\ calls'[m].place = calls[m].place /\ \A n \in Messages \ {m} : calls'[n] = calls[n]
<1>1. calls'[m] = c /\ \A n \in Messages \ {m} : calls'[n] = calls[n]
  BY OneCall
<1>2. /\ sessions' \in Seq(Elements(sessions')) /\ DOMAIN sessions' = DOMAIN sessions \cup {k}
      /\ sessions'[k] = Entered(sessions[k], m) /\ \A j \in DOMAIN sessions \ {k} : sessions'[j] = sessions[j]
  <2> DEFINE e == Entered(sessions[k], m)
  <2>1. sessions' = [sessions EXCEPT ![k] = e]
    OBVIOUS
  <2> HIDE DEF e
  <2>2. /\ sessions' \in Seq(Elements(sessions')) /\ DOMAIN sessions' = DOMAIN sessions
        /\ sessions'[k] = e /\ \A j \in DOMAIN sessions \ {k} : sessions'[j] = sessions[j]
    BY <2>1, SetOne
  <2> QED BY <2>2 DEF e
<1>3. Queues(sessions[k], sessions'[k], m)
  BY <1>2, EnteredTalk DEF ApartInv, SessionApart
<1>4. \A j \in DOMAIN sessions \ {k} : SameTalk(sessions[j], sessions'[j])
  BY <1>2, SameIsSame
<1>5. \A n \in Messages : KeepsPlace(n) /\ (n # m => Steady(n))
  BY <1>1 DEF KeepsPlace, Steady, ApartInv, HasPlace, Early
<1>6. sessions'[k].place = calls[m].place
  BY <1>3 DEF Queues
<1>7. ApartStep
  BY <1>1, <1>2, <1>3, <1>4, <1>5, <1>6, TurnEnters
<1> QED BY <1>1, <1>2, <1>6, <1>7 DEF PlacesGo

LEMMA DirectNextApart ==
  ASSUME CallsOk, ApartInv, DirectApart, InboxInv, DirectNext
  PROVE  ApartStep /\ DirectApart'
<1>1. UNCHANGED sessions => SameTalks
  BY SessionsSame DEF SameTalks
<1>2. \A m \in Messages : calls[m].pc # "unsent" => calls[m].place \in Places
  BY DEF ApartInv, HasPlace
<1>3. ASSUME \A n \in Messages : calls'[n] = calls[n] \/ (calls[n].pc = "unread" /\ calls'[n].pc \in {"lost", "queued"} /\ calls'[n].place = calls[n].place),
             UNCHANGED <<current, archive>>, SameTalks
      PROVE  ApartStep /\ DirectApart'
  <2>1. CallsApart
    BY <1>2, <1>3, CallsMoveApart DEF PlaceKept, InSessionPcs, Locked, Early
  <2>2. \A n \in Messages : Follows(n)
    BY <1>3 DEF Follows
  <2> QED BY <1>3, <2>1, <2>2, DirectCallsApart
<1>4. \A n \in Messages : Ended(calls[n], "lost").pc = "lost" /\ Ended(calls[n], "lost").place = calls[n].place
  BY DEF Ended, NoCall
<1>5. CASE PeerWrites
  <2> DEFINE m == Min(Unsent)
  <2>1. m \in Messages /\ calls[m].pc = "unsent"
    BY <1>5, NextToCome DEF PeerWrites, NextMessage
  <2>2. PICK peer \in Places : /\ \A n \in Messages : calls[n].pc # "unsent" => calls[n].place = peer
                               /\ calls' = [calls EXCEPT ![m] = [NoCall EXCEPT !.pc = Written, !.place = peer]]
    BY <1>5 DEF PeerWrites
  <2> DEFINE c == [NoCall EXCEPT !.pc = Written, !.place = peer]
  <2>3. c.pc \in {"lost", "unread"} /\ c.place = peer
    BY DEF NoCall, Written
  <2>4. calls' = [calls EXCEPT ![m] = c]
    BY <2>2
  <2> HIDE DEF c, m
  <2>5. PlaceKept(calls[m], c)
    BY <2>1, <2>3 DEF PlaceKept, InSessionPcs, Locked, Early
  <2>6. UNCHANGED <<current, archive, sessions>>
    BY <1>5 DEF PeerWrites
  <2>7. CallsApart /\ calls'[m] = c /\ \A n \in Messages \ {m} : calls'[n] = calls[n]
    BY <2>1, <2>4, <2>5, CallMovesApart
  <2>8. ApartStep
    BY <1>1, <2>6, <2>7, TalksStay DEF CallsApart, SameTalks
  <2>9. \A n \in Messages : calls'[n].pc # "unsent" => calls'[n].place = peer
    BY <2>2, <2>3, <2>7
  <2>10. ASSUME current # 0
         PROVE  current \in DOMAIN sessions' /\ \E n \in Messages : calls'[n].pc # "unsent" /\ calls'[n].place = sessions'[current].place
    <3>1. PICK n \in Messages : calls[n].pc # "unsent" /\ calls[n].place = sessions[current].place
      BY <2>10 DEF DirectApart
    <3> QED BY <2>1, <2>6, <2>7, <2>10, <3>1 DEF DirectApart
  <2> QED BY <2>6, <2>8, <2>9, <2>10 DEF DirectApart
<1>6. CASE QueueExpires /\ UNCHANGED current
  <2>1. UNCHANGED <<archive, sessions>> /\ calls' = [n \in Messages |-> IF calls[n].pc = "unread" THEN Ended(calls[n], "lost") ELSE calls[n]]
    BY <1>6 DEF QueueExpires
  <2> QED BY <1>1, <1>3, <1>4, <1>6, <2>1
<1>7. CASE PollDirect
  <2>1. UNCHANGED <<current, archive>> /\ sessions' = Notified(sessions, disk')
    BY <1>7 DEF PollDirect
  <2>2. \A n \in Messages : calls'[n] = calls[n] \/ (calls[n].pc = "unread" /\ (calls'[n] = Ended(calls[n], "lost") \/ calls'[n] = [calls[n] EXCEPT !.pc = "queued"]))
    BY <1>7 DEF PollDirect, InboxInv
  <2>3. \A n \in Messages : [calls[n] EXCEPT !.pc = "queued"].pc = "queued" /\ [calls[n] EXCEPT !.pc = "queued"].place = calls[n].place
    BY DEF CallsOk, CallOk, CallFields
  <2>4. SameTalks
    <3>1. sessions' = [k \in DOMAIN sessions |-> sessions'[k]] /\ \A k \in DOMAIN sessions : SameTalk(sessions[k], sessions'[k])
      BY <2>1, NotifiedTalk
    <3> QED BY <3>1, TalkMap DEF SameTalks
  <2> QED BY <1>3, <1>4, <2>1, <2>2, <2>3, <2>4
<1>8. CASE DirectRestart
  <2>1. sessions' = <<>> /\ calls' = Lost /\ UNCHANGED archive /\ current' = 0
    BY <1>8 DEF DirectRestart, Restarted
  <2>2. ApartStep
    BY <2>1, NoSessions, ApartRestarts
  <2>3. \A m \in Messages : Follows(m)
    BY <2>1 DEF Lost, Ended, NoCall, Follows, CallsOk, CallOk, CallFields
  <2>4. \A m, n \in Messages : calls'[m].pc # "unsent" /\ calls'[n].pc # "unsent" => calls'[m].place = calls'[n].place
    BY <2>3 DEF DirectApart, Follows
  <2> QED BY <2>1, <2>2, <2>4 DEF DirectApart
<1>9. CASE RegisterDirect
  <2>1. UNCHANGED <<current, archive, sessions, calls>>
    BY <1>9 DEF RegisterDirect, Register
  <2> QED BY <1>1, <1>3, <2>1
<1>10. ASSUME NEW m \in Messages, HandleDirect(m)
       PROVE  ApartStep /\ DirectApart'
  <2>1. m \in Admitted /\ UNCHANGED archive
    <3>1. Admitted \subseteq Nat
      BY DEF Admitted, Messages
    <3> QED BY <1>10, <3>1, MinFacts DEF HandleDirect
  <2>2. calls[m].pc = "queued"
    BY <2>1 DEF Admitted
  <2>3. calls[m].pc \notin InSessionPcs /\ calls[m].pc # "unsent" /\ calls[m].place \in Places
    BY <1>2, <2>2 DEF InSessionPcs, Locked
  <2>4. CASE current # 0 /\ InSession(m, current, sessions[current])
    <3>0. PICK k : k = current
      OBVIOUS
    <3>1. k \in DOMAIN sessions /\ sessions[k].place = calls[m].place /\ ~(k > Len(sessions)) /\ k # 0
      BY <2>3, <2>4, <3>0 DEF DirectApart, ApartInv
    <3>2. sessions' = [sessions EXCEPT ![k] = Entered(sessions[k], m)] /\ current' = k
      BY <2>4, <3>0, <3>1 DEF InSession
    <3> DEFINE c == [calls[m] EXCEPT !.pc = "waiting", !.session = k]
    <3>3. calls' = [calls EXCEPT ![m] = c] /\ c.pc = "waiting" /\ c.session = k /\ c.place = calls[m].place
      BY <2>4, <3>0 DEF InSession, CallsOk, CallOk, CallFields
    <3> HIDE DEF c
    <3>4. /\ ApartStep /\ PlacesGo
          /\ calls'[m].pc = "waiting" /\ calls'[m].place = calls[m].place /\ \A n \in Messages \ {m} : calls'[n] = calls[n]
      BY <2>1, <2>3, <3>1, <3>2, <3>3, OldTurnEnters
    <3>5. \A n \in Messages : Follows(n)
      BY <2>3, <3>4 DEF Follows
    <3> QED BY <3>0, <3>2, <3>4, <3>5, DirectStaysApart
  <2>5. ASSUME current = 0, NEW readable \in BOOLEAN,
               InSession(m, Len(sessions) + 1, SetRunContext(Restored(NewSession(calls[m].place, runtime), readable)))
        PROVE  ApartStep /\ DirectApart'
    <3> DEFINE s == SetRunContext(Restored(NewSession(calls[m].place, runtime), readable))
    <3>0. PICK k : k = Len(sessions) + 1
      OBVIOUS
    <3>1. DOMAIN s = SessionFields /\ OwnTalk(s) /\ s.queue = <<>> /\ s.place = calls[m].place
      BY <2>3, RestoredNewTalk DEF ApartInv
    <3>2. InSession(m, k, s)
      BY <2>5, <3>0
    <3> HIDE DEF s
    <3>3. Len(sessions) \in Nat /\ k > Len(sessions) /\ k # 0 /\ sessions = [j \in DOMAIN sessions |-> sessions[j]]
      BY <3>0 DEF ApartInv
    <3>4. /\ sessions' = Append(sessions, Entered(s, m)) /\ current' = k
          /\ calls' = [calls EXCEPT ![m] = [@ EXCEPT !.pc = "waiting", !.session = Len(sessions) + 1]]
      BY <3>0, <3>2, <3>3 DEF InSession
    <3>5. \A j \in DOMAIN sessions : SameTalk(sessions[j], sessions[j])
      BY TalkOps DEF ApartInv, SessionApart
    <3>6. /\ ApartStep /\ k \in DOMAIN sessions' /\ sessions'[k].place = calls[m].place
          /\ calls'[m].pc = "waiting" /\ calls'[m].place = calls[m].place /\ \A n \in Messages \ {m} : calls'[n] = calls[n]
      BY <2>1, <2>3, <3>0, <3>1, <3>3, <3>4, <3>5, NewTurnEnters
    <3>7. \A x, n \in Messages : calls'[x].pc # "unsent" /\ calls'[n].pc # "unsent" => calls'[x].place = calls'[n].place
      BY <2>3, <3>6 DEF DirectApart
    <3> QED BY <3>4, <3>6, <3>7 DEF DirectApart
  <2> QED BY <1>10, <2>4, <2>5 DEF HandleDirect
<1>11. ASSUME NEW m \in Messages, Reply(m)
       PROVE  ApartStep /\ DirectApart'
  <2>1. PICK shown : calls' = [calls EXCEPT ![m] = [Finish(calls[m]) EXCEPT !.shown = shown]]
    BY <1>11 DEF Reply
  <2> DEFINE c == [Finish(calls[m]) EXCEPT !.shown = shown]
  <2>2. calls[m].pc = "left" /\ UNCHANGED <<sessions, archive, current>>
    BY <1>11 DEF Reply, directVars
  <2>3. c.pc = "done" /\ c.place = calls[m].place
    BY DEF Finish, Ended, NoCall
  <2> HIDE DEF c
  <2>4. PlaceKept(calls[m], c)
    BY <1>2, <2>2, <2>3 DEF PlaceKept, InSessionPcs, Locked, Early
  <2>5. CallsApart /\ calls'[m] = c /\ \A n \in Messages \ {m} : calls'[n] = calls[n]
    BY <2>1, <2>4, CallMovesApart DEF c
  <2>6. \A n \in Messages : Follows(n)
    BY <2>2, <2>3, <2>5 DEF Follows
  <2> QED BY <1>1, <2>2, <2>5, <2>6, DirectCallsApart
<1>12. ASSUME NEW m \in Messages, TurnStep(m), UNCHANGED <<turnVars, directVars>>
       PROVE  ApartStep /\ DirectApart'
  <2>1. ApartStep /\ TurnFrame(m)
    BY <1>12, TurnApartStep
  <2>2. PlacesGo /\ UNCHANGED current
    BY <1>12, <2>1 DEF PlacesGo, TurnFrame, Of, directVars
  <2>3. \A n \in Messages : Follows(n)
    BY <2>1 DEF Follows, TurnFrame, OneTurn, InSessionPcs, Locked, Early
  <2> QED BY <2>1, <2>2, <2>3, DirectStaysApart
<1> QED BY <1>5, <1>6, <1>7, <1>8, <1>9, <1>10, <1>11, <1>12 DEF DirectNext

-----------------------------------------------------------------------------
(* The REPL: whatever runs, runs in the Session of the moment.              *)
Idle(m) == calls[m].pc \in {"unsent", "done", "lost"}
ReplApart ==
  /\ minted \subseteq Places /\ default \subseteq Places /\ current \in DOMAIN sessions
  /\ \A m \in Messages : ~Idle(m) => calls[m].session = current /\ calls[m].place = sessions[current].place

LEMMA ReplStaysApart ==
  ASSUME ReplApart, UNCHANGED <<replVars, current>>, PlacesGo,
         \A m \in Messages : Idle(m)' \/ (~Idle(m) /\ calls'[m].session = calls[m].session /\ calls'[m].place = calls[m].place)
  PROVE  ReplApart'
<1>1. current \in DOMAIN sessions' /\ sessions'[current].place = sessions[current].place
  BY DEF ReplApart, PlacesGo
<1>2. minted' = minted /\ default' = default /\ current' = current
  BY DEF replVars
<1> QED BY <1>1, <1>2 DEF ReplApart

LEMMA ReplCallApart ==
  ASSUME CallsOk, ApartInv, ReplApart, UNCHANGED <<replVars, current, archive>>, SameTalks,
         NEW m \in Messages, NEW c, calls' = [calls EXCEPT ![m] = c],
         SameCall(calls[m], c) \/ (PlaceKept(calls[m], c) /\ c.pc = "done")
  PROVE  ApartStep /\ ReplApart'
<1>1. calls'[m] = c /\ \A n \in Messages \ {m} : calls'[n] = calls[n]
  BY OneCall
<1>2. CallsApart
  BY <1>1, CallsMoveApart DEF SameCall
<1>3. ApartStep
  BY <1>2, TalksStay DEF CallsApart, SameTalks
<1>4. PlacesGo
  BY DEF PlacesGo, SameTalks, SameTalk
<1>5. \A n \in Messages : Idle(n)' \/ (~Idle(n) /\ calls'[n].session = calls[n].session /\ calls'[n].place = calls[n].place)
  BY <1>1 DEF Idle, SameCall
<1> QED BY <1>3, <1>4, <1>5, ReplStaysApart

(* A command moves the agent to another key, between two turns.             *)
LEMMA MovesApart ==
  ASSUME ApartInv, ReplApart, \A m \in Messages : Idle(m), NEW s, OwnTalk(s), s.queue = <<>>, Move(s)
  PROVE  ApartStep /\ ReplApart'
<1> DEFINE olds == [sessions EXCEPT ![current] = Close(sessions[current])]
           t == SetRunContext(s)
<1>0. PICK k : k = Len(sessions) + 1
  OBVIOUS
<1>1. /\ sessions' = Append(olds, t) /\ current' = k
      /\ UNCHANGED <<calls, archive>> /\ minted' = minted /\ default' = default
  BY <1>0 DEF Move, MovedTo, replVars
<1>2. \A j \in DOMAIN sessions : DOMAIN sessions[j] = SessionFields
  BY DEF ApartInv, SessionApart
<1>3. olds = [j \in DOMAIN sessions |-> olds[j]] /\ \A j \in DOMAIN sessions : SameTalk(sessions[j], olds[j])
  <2>1. \A j \in DOMAIN sessions : SameTalk(sessions[j], Close(sessions[j])) /\ SameTalk(sessions[j], sessions[j])
    BY <1>2, TalkOps
  <2>2. \A j \in DOMAIN sessions : olds[j] \in {sessions[j], Close(sessions[j])}
    OBVIOUS
  <2>3. \A j \in DOMAIN sessions : SameTalk(sessions[j], olds[j])
    <3> HIDE DEF olds
    <3> QED BY <2>1, <2>2
  <2> QED BY <2>3
<1>4. OwnTalk(t) /\ t.queue = <<>>
  <2>1. SameTalk(s, t) /\ t.handoff = s.handoff /\ t.history = s.history
    <3>1. DOMAIN s = SessionFields
      BY DEF OwnTalk
    <3> QED BY <3>1, TalkOps DEF SetRunContext, SessionFields
  <2> QED BY <2>1 DEF OwnTalk, SameTalk
<1> HIDE DEF olds, t
<1>5. /\ sessions' \in Seq(Elements(sessions')) /\ k \notin DOMAIN sessions
      /\ DOMAIN sessions' = DOMAIN sessions \cup {k} /\ sessions'[k] = t
      /\ \A j \in DOMAIN sessions : sessions'[j] = olds[j]
  BY <1>0, <1>1, <1>3, SessionAppended
<1>6. CallsApart
  BY <1>1, SameCallsApart DEF SameCall
<1>7. ApartStep
  BY <1>1, <1>3, <1>4, <1>5, <1>6, TalkOpens DEF CallsApart
<1> QED BY <1>1, <1>5, <1>7 DEF ReplApart, Idle

LEMMA NewTalk ==
  ASSUME NEW p \in Places, NEW rt
  PROVE  OwnTalk(NewSession(p, rt)) /\ NewSession(p, rt).queue = <<>>
BY OpenedTalk

LEMMA TakenOverTalk ==
  ASSUME ApartInv, NEW p \in Places
  PROVE  OwnTalk(TakenOver(p)) /\ TakenOver(p).queue = <<>>
<1> DEFINE h == ResumableHistory(p)
           n == NewSession(p, runtime)
           turn == MaxArchivedTurn(h)
<1>1. HistoryOf(h, p)
  BY ResumedHistory DEF ApartInv
<1> HIDE DEF h
<1>2. turn \in Int
  <2>1. h \in Seq(Line)
    BY <1>1 DEF HistoryOf
  <2>2. Len(h) \in Nat
    BY <2>1
  <2> QED BY <2>2 DEF MaxArchivedTurn
<1>3. OwnTalk(n) /\ n.queue = <<>> /\ n.place = p
  BY OpenedTalk
<1>4. TakenOver(p) = [n EXCEPT !.history = h, !.turn = turn]
  BY DEF TakenOver, h
<1> HIDE DEF n, turn
<1> DEFINE t == [n EXCEPT !.history = h, !.turn = turn]
<1>5. /\ DOMAIN t = SessionFields /\ t.queue = <<>> /\ t.place = p /\ t.turn = turn /\ t.handoff = n.handoff /\ t.history = h
  BY <1>3 DEF OwnTalk, SessionFields
<1> HIDE DEF t
<1> QED BY <1>1, <1>2, <1>3, <1>4, <1>5 DEF OwnTalk, t

LEMMA FirstTalk ==
  ASSUME NEW p \in Places, NEW rt, sessions' = <<FirstSession(p, rt)>>
  PROVE  /\ sessions' \in Seq(Elements(sessions')) /\ DOMAIN sessions' = {1}
         /\ \A k \in DOMAIN sessions' : OwnTalk(sessions'[k]) /\ sessions'[k].queue = <<>>
<1>1. OwnTalk(FirstSession(p, rt)) /\ FirstSession(p, rt).queue = <<>>
  BY OpenedTalk DEF FirstSession
<1>2. sessions' \in [1..1 -> Elements(sessions')] /\ sessions'[1] = FirstSession(p, rt) /\ DOMAIN sessions' = {1}
  BY DEF Elements
<1>3. sessions' \in Seq(Elements(sessions'))
  BY <1>2, FunctionIsSeq
<1> QED BY <1>1, <1>2, <1>3

LEMMA ReplNextApart ==
  ASSUME CallsOk, ApartInv, ReplApart, ReplNext
  PROVE  ApartStep /\ ReplApart'
<1>1. UNCHANGED sessions => SameTalks
  BY SessionsSame DEF SameTalks
<1>2. \A m \in Messages : calls[m].pc # "unsent" => calls[m].place \in Places
  BY DEF ApartInv, HasPlace
<1>3. \A key : key \in Places => sessions[current].place \in Places
  BY DEF ReplApart, ApartInv, SessionApart
<1>4. CASE Type
  <2> DEFINE m == Min(Unsent)
             c == [NoCall EXCEPT !.pc = "starting", !.place = Key, !.session = current]
  <2>1. m \in Messages /\ calls[m].pc = "unsent"
    BY <1>4, NextToCome DEF Type, NextMessage
  <2>2. calls' = [calls EXCEPT ![m] = c] /\ UNCHANGED <<archive, sessions, current>> /\ UNCHANGED replVars
    BY <1>4 DEF Type
  <2>3. c.pc = "starting" /\ c.place = sessions[current].place /\ c.session = current /\ c.place \in Places
    BY DEF NoCall, Key, ReplApart, ApartInv, SessionApart
  <2> HIDE DEF m, c
  <2>4. PlaceKept(calls[m], c)
    BY <2>1, <2>3 DEF PlaceKept, InSessionPcs, Locked, Early
  <2>5. CallsApart /\ calls'[m] = c /\ \A n \in Messages \ {m} : calls'[n] = calls[n]
    BY <2>1, <2>2, <2>4, CallMovesApart
  <2>6. ApartStep
    BY <1>1, <2>2, <2>5, TalksStay DEF CallsApart, SameTalks
  <2>7. \A n \in Messages : ~Idle(n)' => calls'[n].session = current /\ calls'[n].place = sessions[current].place
    BY <2>3, <2>5 DEF ReplApart, Idle
  <2> QED BY <2>2, <2>6, <2>7 DEF ReplApart, replVars
<1>5. CASE ChangeModel \/ EditFiles
  <2>1. UNCHANGED <<archive, sessions, calls, current>> /\ UNCHANGED replVars
    BY <1>5 DEF ChangeModel, EditFiles
  <2>2. CallsApart /\ PlacesGo
    BY <1>1, <2>1, SameCallsApart DEF SameCall, PlacesGo
  <2>3. ApartStep
    BY <1>1, <2>1, <2>2, TalksStay DEF CallsApart, SameTalks
  <2>4. \A n \in Messages : Idle(n)' \/ (~Idle(n) /\ calls'[n].session = calls[n].session /\ calls'[n].place = calls[n].place)
    BY <2>1 DEF Idle
  <2> QED BY <2>1, <2>2, <2>3, <2>4, ReplStaysApart
<1>6. CASE Reset
  <2>1. \A key : key \in FreshKeys \/ key \in default => key \in Places
    BY DEF FreshKeys, ReplApart
  <2>2. PICK key \in Places : Move(NewSession(key, runtime))
    BY <1>6, <2>1 DEF Reset
  <2>3. \A m \in Messages : Idle(m)
    BY <1>6 DEF Reset, Prompting, Idle
  <2> QED BY <2>2, <2>3, NewTalk, MovesApart
<1>7. CASE Resume
  <2>1. PICK key \in Places : Move(TakenOver(key))
    BY <1>7 DEF Resume, Archived
  <2>2. \A m \in Messages : Idle(m)
    BY <1>7 DEF Resume, Prompting, Idle
  <2> QED BY <2>1, <2>2, TakenOverTalk, MovesApart
<1>8. CASE ReplRestart
  <2>1. StartKeys \subseteq Places
    BY DEF StartKeys, FreshKeys, ReplApart
  <2>2. PICK key \in Places : sessions' = <<FirstSession(key, runtime')>>
    BY <1>8, <2>1 DEF ReplRestart
  <2>3. calls' = Lost /\ UNCHANGED archive /\ current' = 1 /\ UNCHANGED replVars
    BY <1>8 DEF ReplRestart, Restarted
  <2>4. /\ sessions' \in Seq(Elements(sessions')) /\ DOMAIN sessions' = {1}
        /\ \A k \in DOMAIN sessions' : OwnTalk(sessions'[k]) /\ sessions'[k].queue = <<>>
    BY <2>2, FirstTalk
  <2>5. ApartStep /\ \A m \in Messages : calls'[m].pc \in {"unsent", "done", "lost"}
    BY <2>3, <2>4, ApartRestarts
  <2> QED BY <2>3, <2>4, <2>5 DEF ReplApart, Idle, replVars
<1>9. ASSUME NEW m \in Messages, TurnShown(m) \/ NeverStarts(m)
      PROVE  ApartStep /\ ReplApart'
  <2>1. PICK shown : calls' = [calls EXCEPT ![m] = [Finish(calls[m]) EXCEPT !.shown = shown]]
    BY <1>9 DEF TurnShown, NeverStarts
  <2> DEFINE c == [Finish(calls[m]) EXCEPT !.shown = shown]
  <2>2. calls[m].pc \in {"left", "starting"} /\ UNCHANGED <<sessions, archive, current>> /\ UNCHANGED replVars
    BY <1>9 DEF TurnShown, NeverStarts
  <2>3. c.pc = "done" /\ c.place = calls[m].place
    BY DEF Finish, Ended, NoCall
  <2> HIDE DEF c
  <2>4. PlaceKept(calls[m], c)
    BY <1>2, <2>2, <2>3 DEF PlaceKept, InSessionPcs, Locked, Early
  <2>5. calls' = [calls EXCEPT ![m] = c]
    BY <2>1 DEF c
  <2> QED BY <1>1, <2>2, <2>3, <2>4, <2>5, ReplCallApart
<1>10. ASSUME NEW m \in Messages, Enter(m)
       PROVE  ApartStep /\ ReplApart'
  <2>0. PICK k : k = current
    OBVIOUS
  <2>1. calls[m].pc = "starting" /\ UNCHANGED <<archive, current>> /\ UNCHANGED replVars
    BY <1>10 DEF Enter, At
  <2>2. calls[m].session = k /\ sessions[k].place = calls[m].place /\ k \in DOMAIN sessions
    BY <2>0, <2>1 DEF ReplApart, Idle
  <2>3. sessions' = [sessions EXCEPT ![k] = Entered(sessions[k], m)]
    BY <1>10, <2>2 DEF Enter, Set, Of
  <2> DEFINE c == [calls[m] EXCEPT !.pc = "waiting"]
  <2>4. calls' = [calls EXCEPT ![m] = c] /\ c.pc = "waiting" /\ c.session = k /\ c.place = calls[m].place
    BY <1>10, <2>2 DEF Enter, Goto, CallsOk, CallOk, CallFields
  <2> HIDE DEF c
  <2>5. calls[m].pc \notin InSessionPcs /\ calls[m].pc # "unsent"
    BY <2>1 DEF InSessionPcs, Locked
  <2>6. /\ ApartStep /\ PlacesGo
        /\ calls'[m].pc = "waiting" /\ calls'[m].place = calls[m].place /\ \A n \in Messages \ {m} : calls'[n] = calls[n]
    BY <2>1, <2>2, <2>3, <2>4, <2>5, OldTurnEnters
  <2>7. calls'[m].session = calls[m].session /\ ~Idle(m)
    BY <2>1, <2>2, <2>4, OneCall DEF Idle
  <2>8. \A n \in Messages : Idle(n)' \/ (~Idle(n) /\ calls'[n].session = calls[n].session /\ calls'[n].place = calls[n].place)
    BY <2>6, <2>7 DEF Idle
  <2> QED BY <2>1, <2>6, <2>8, ReplStaysApart
<1>11. ASSUME NEW m \in Messages, Interrupt(m)
       PROVE  ApartStep /\ ReplApart'
  <2>1. UNCHANGED <<archive, current>> /\ UNCHANGED replVars
    BY <1>11 DEF Interrupt
  <2>2. CASE sessions' = [sessions EXCEPT ![current] = CancelHandoff(sessions[current])] /\ calls' = calls
    <3>1. DOMAIN sessions[current] = SessionFields /\ current \in DOMAIN sessions
      BY DEF ReplApart, ApartInv, SessionApart
    <3>2. SameTalks
      BY <2>2, <3>1, TalkOps, TalkSet DEF SameTalks
    <3>3. CallsApart /\ PlacesGo
      BY <2>2, <3>2, SameCallsApart DEF SameCall, PlacesGo, SameTalks, SameTalk
    <3>4. ApartStep
      BY <2>1, <3>2, <3>3, TalksStay DEF CallsApart, SameTalks
    <3>5. \A n \in Messages : Idle(n)' \/ (~Idle(n) /\ calls'[n].session = calls[n].session /\ calls'[n].place = calls[n].place)
      BY <2>2 DEF Idle
    <3> QED BY <2>1, <3>3, <3>4, <3>5, ReplStaysApart
  <2>3. CASE calls' = [calls EXCEPT ![m].cancelled = TRUE] /\ sessions' = sessions
    <3> DEFINE c == [calls[m] EXCEPT !.cancelled = TRUE]
    <3>1. calls' = [calls EXCEPT ![m] = c] /\ SameCall(calls[m], c)
      BY <2>3 DEF SameCall, CallsOk, CallOk, CallFields
    <3> HIDE DEF c
    <3> QED BY <1>1, <2>1, <2>3, <3>1, ReplCallApart
  <2> QED BY <1>11, <2>2, <2>3 DEF Interrupt
<1>12. ASSUME NEW m \in Messages, TurnStep(m) /\ UNCHANGED <<turnVars, current, replVars>>
       PROVE  ApartStep /\ ReplApart'
  <2>1. ApartStep /\ TurnFrame(m)
    BY <1>12, TurnApartStep
  <2>2. PlacesGo /\ UNCHANGED <<replVars, current>>
    BY <1>12, <2>1 DEF PlacesGo, TurnFrame, Of
  <2>3. \A n \in Messages : Idle(n)' \/ (~Idle(n) /\ calls'[n].session = calls[n].session /\ calls'[n].place = calls[n].place)
    BY <2>1 DEF Idle, TurnFrame, OneTurn, InSessionPcs, Locked
  <2> QED BY <2>1, <2>2, <2>3, ReplStaysApart
<1> QED BY <1>4, <1>5, <1>6, <1>7, <1>8, <1>9, <1>10, <1>11, <1>12 DEF ReplNext, ReplTask

-----------------------------------------------------------------------------
(* Discord: the lock's queue has the turns that wait for the agent, who     *)
(* holds it comes first, and a channel's history is its own.                *)
Holding == InSessionPcs \cup {"left"}
LockPcs == Holding \cup {"locking"}
LockApart ==
  /\ turnLock \in Seq(Messages) /\ Distinct(turnLock)
  /\ \A n \in Range(turnLock) : calls[n].pc \in LockPcs
  /\ \A n \in Messages : calls[n].pc \in LockPcs => n \in Range(turnLock) /\ (calls[n].pc \in Holding => turnLock[1] = n)
ChannelsApart == DOMAIN history = Places /\ \A c \in Places : HistoryOf(history[c], c)
DiscordApart == LockApart /\ ChannelsApart

LEMMA SameTalkTwice ==
  ASSUME NEW s, NEW t, NEW u, SameTalk(s, t), SameTalk(t, u)
  PROVE  SameTalk(s, u)
BY DEF SameTalk

LEMMA LockIs ==
  ASSUME LockApart
  PROVE  Range(turnLock) \subseteq Messages
BY DEF LockApart, Range

LEMMA LockStays ==
  ASSUME LockApart, UNCHANGED turnLock,
         \A n \in Messages : \/ calls'[n].pc = calls[n].pc
                             \/ calls[n].pc \notin LockPcs /\ calls'[n].pc \notin LockPcs
                             \/ calls[n].pc \in Holding /\ calls'[n].pc \in Holding
  PROVE  LockApart'
<1>1. Range(turnLock) \subseteq Messages
  BY LockIs
<1> QED BY <1>1 DEF LockApart, LockPcs

LEMMA LockLeft ==
  ASSUME LockApart, NEW m \in Messages, turnLock' = RemoveFirst(turnLock, m), calls'[m].pc \notin LockPcs,
         \A n \in Messages \ {m} : calls'[n].pc = calls[n].pc
  PROVE  LockApart'
<1> DEFINE q == turnLock
           r == RemoveFirst(q, m)
<1>0. Range(q) \subseteq Messages /\ q \in Seq(Messages) /\ Distinct(q)
  BY LockIs DEF LockApart
<1>1. CASE m \in Range(q)
  <2>1. /\ r \in Seq(Messages) /\ Distinct(r) /\ Range(r) = Range(q) \ {m}
        /\ q[1] # m => r # <<>> /\ r[1] = q[1]
    <3> HIDE DEF q, r
    <3>1. LET x == RemoveFirst(q, m)
          IN  /\ x \in Seq(Messages) /\ Distinct(x) /\ Range(x) = Range(q) \ {m}
              /\ q[1] # m => x # <<>> /\ x[1] = q[1]
      BY <1>0, <1>1, QueueWithout
    <3> QED BY <3>1 DEF r
  <2>2. turnLock' = r
    OBVIOUS
  <2> HIDE DEF r
  <2>3. \A n \in Range(r) : calls'[n].pc \in LockPcs
    BY <1>0, <2>1 DEF LockApart
  <2>4. ASSUME NEW n \in Messages, calls'[n].pc \in LockPcs
        PROVE  n \in Range(r) /\ (calls'[n].pc \in Holding => r[1] = n)
    <3>1. n # m /\ calls[n].pc = calls'[n].pc
      BY <2>4
    <3>2. n \in Range(q) /\ (calls[n].pc \in Holding => q[1] = n)
      BY <2>4, <3>1 DEF LockApart
    <3> QED BY <2>1, <3>1, <3>2
  <2> QED BY <2>1, <2>2, <2>3, <2>4 DEF LockApart
<1>2. CASE m \notin Range(q)
  <2>1. r = q
    <3>1. \A i \in 1..Len(q) : q[i] # m
      BY <1>0, <1>2 DEF Range
    <3>2. ~\E i \in 1..Len(q) : q[i] = m
      BY <3>1
    <3> HIDE DEF q
    <3> QED BY <3>2 DEF RemoveFirst, r
  <2>2. turnLock' = turnLock
    BY <2>1
  <2>3. calls[m].pc \notin LockPcs
    BY <1>2 DEF LockApart
  <2> QED BY <2>2, <2>3, LockStays
<1> QED BY <1>1, <1>2

LEMMA LockQueued ==
  ASSUME LockApart, NEW m \in Messages, turnLock' = Append(turnLock, m), calls[m].pc \notin LockPcs, calls'[m].pc = "locking",
         \A n \in Messages \ {m} : calls'[n].pc = calls[n].pc
  PROVE  LockApart'
<1> DEFINE q == turnLock
           r == Append(q, m)
<1>1. Range(q) \subseteq Messages /\ q \in Seq(Messages) /\ Distinct(q) /\ Len(q) \in Nat /\ DOMAIN q = 1..Len(q)
  BY LockIs DEF LockApart
<1>2. /\ r \in Seq(Messages) /\ Len(r) = Len(q) + 1 /\ DOMAIN r = 1..(Len(q) + 1)
      /\ r[Len(q) + 1] = m /\ \A i \in 1..Len(q) : r[i] = q[i]
  BY <1>1
<1>3. m \notin Range(q) /\ turnLock' = r
  BY DEF LockApart
<1>4. \A n \in Messages : calls[n].pc \in LockPcs => n \in Range(q) /\ (calls[n].pc \in Holding => q[1] = n)
  BY DEF LockApart
<1>5. \A n \in Range(q) : calls[n].pc \in LockPcs
  BY DEF LockApart
<1> HIDE DEF q, r
<1>6. Range(r) = Range(q) \cup {m}
  BY <1>1, <1>2 DEF Range
<1>7. Distinct(r)
  <2>1. \A i \in DOMAIN q : q[i] # m
    BY <1>3 DEF Range
  <2> QED BY <1>1, <1>2, <2>1 DEF Distinct
<1>8. \A n \in Range(r) : calls'[n].pc \in LockPcs
  BY <1>1, <1>5, <1>6 DEF LockPcs
<1>9. ASSUME NEW n \in Messages, calls'[n].pc \in LockPcs
      PROVE  n \in Range(r) /\ (calls'[n].pc \in Holding => r[1] = n)
  <2>1. CASE n = m
    BY <1>6, <2>1 DEF Holding, InSessionPcs, Locked
  <2>2. CASE n # m
    <3>1. n \in Range(q) /\ (calls'[n].pc \in Holding => q[1] = n)
      BY <1>4, <1>9, <2>2
    <3>2. r[1] = q[1]
      BY <1>1, <1>2, <3>1 DEF Range
    <3> QED BY <1>6, <3>1, <3>2
  <2> QED BY <2>1, <2>2
<1> QED BY <1>2, <1>3, <1>7, <1>8, <1>9 DEF LockApart

LEMMA ChannelsStay ==
  ASSUME ChannelsApart, \A m \in Messages : KeepsPlace(m), UNCHANGED history
  PROVE  ChannelsApart'
<1>1. \A n, p : Placed(n, p) => Placed(n, p)'
  BY DEF KeepsPlace, Placed
<1> QED BY <1>1 DEF ChannelsApart, HistoryOf

LEMMA ChannelSet ==
  ASSUME ChannelsApart, \A m \in Messages : KeepsPlace(m), NEW p \in Places, NEW h, HistoryOf(h, p),
         history' = [history EXCEPT ![p] = h]
  PROVE  ChannelsApart'
<1>1. \A n, c : Placed(n, c) => Placed(n, c)'
  BY DEF KeepsPlace, Placed
<1>2. DOMAIN history' = Places /\ \A c \in Places : HistoryOf(history'[c], c)
  BY DEF ChannelsApart
<1> QED BY <1>1, <1>2 DEF ChannelsApart, HistoryOf

(* One message goes on, with what it leaves in its channel's history.       *)
Alone(m) == PlaceKept(calls[m], calls'[m]) /\ \A n \in Messages \ {m} : SameCall(calls[n], calls'[n])
LockGoes(m) ==
  \/ UNCHANGED turnLock /\ calls[m].pc \notin LockPcs /\ calls'[m].pc \notin LockPcs
  \/ turnLock' = RemoveFirst(turnLock, m) /\ calls'[m].pc \notin LockPcs
  \/ turnLock' = Append(turnLock, m) /\ calls[m].pc \notin LockPcs /\ calls'[m].pc = "locking"
Writes(m) ==
  \/ UNCHANGED history
  \/ \E h : /\ history' = [history EXCEPT ![calls[m].place] = h] /\ calls[m].pc # "unsent"
            /\ HistoryOf(h, calls[m].place)

LEMMA DiscordCallApart ==
  ASSUME ApartInv, DiscordApart, NEW m \in Messages, Alone(m), LockGoes(m), Writes(m), SameTalks, UNCHANGED archive
  PROVE  ApartStep /\ DiscordApart' /\ CallsApart
<1>1. CallsApart
  BY CallsMoveApart DEF Alone, SameCall
<1>2. ApartStep
  BY <1>1, TalksStay DEF CallsApart, SameTalks
<1>3. LockApart'
  <2>1. \A n \in Messages \ {m} : calls'[n].pc = calls[n].pc
    BY DEF Alone, SameCall
  <2> QED BY <2>1, LockStays, LockLeft, LockQueued DEF LockGoes, DiscordApart
<1>4. ChannelsApart'
  <2>1. calls[m].pc # "unsent" => calls[m].place \in Places
    BY DEF ApartInv, HasPlace
  <2> QED BY <1>1, <2>1, ChannelsStay, ChannelSet DEF Writes, CallsApart, DiscordApart
<1> QED BY <1>1, <1>2, <1>3, <1>4 DEF DiscordApart

LEMMA OneAlone ==
  ASSUME CallsOk, NEW m \in Messages, NEW c, calls' = [calls EXCEPT ![m] = c], PlaceKept(calls[m], c)
  PROVE  Alone(m) /\ calls'[m] = c
<1>1. calls'[m] = c /\ \A n \in Messages \ {m} : calls'[n] = calls[n]
  BY OneCall
<1> QED BY <1>1 DEF Alone, SameCall

(* With no edit pending any more.                                           *)
LEMMA UneditedCalls ==
  ASSUME CallsOk
  PROVE  DOMAIN NoEdit = Messages /\ \A n \in Messages : SameCall(calls[n], NoEdit[n]) /\ DOMAIN NoEdit[n] = CallFields
BY DEF NoEdit, SameCall, CallsOk, CallOk, CallFields

(* A call that goes on with everything it had but its step.                 *)
LEMMA GotoAlone ==
  ASSUME CallsOk, ApartInv, NEW m \in Messages, NEW pc, Goto(m, pc), calls[m].pc \notin InSessionPcs \cup {"unsent"},
         pc \notin InSessionPcs \cup {"unsent"}, calls[m].pc \notin Early => pc \notin Early
  PROVE  Alone(m) /\ calls'[m].pc = pc
<1> DEFINE c == [calls[m] EXCEPT !.pc = pc]
<1>1. calls' = [calls EXCEPT ![m] = c] /\ c.pc = pc /\ c.place = calls[m].place
  BY DEF Goto, CallsOk, CallOk, CallFields
<1> HIDE DEF c
<1>2. PlaceKept(calls[m], c)
  BY <1>1 DEF PlaceKept, ApartInv, HasPlace
<1> QED BY <1>1, <1>2, OneAlone

LEMMA DoneAlone ==
  ASSUME CallsOk, ApartInv, NEW m \in Messages, NEW c, calls' = [calls EXCEPT ![m] = c], c.pc = "done", c.place = calls[m].place,
         calls[m].pc \notin InSessionPcs \cup {"unsent"}
  PROVE  Alone(m) /\ calls'[m].pc = "done"
<1>1. PlaceKept(calls[m], c)
  BY DEF PlaceKept, ApartInv, HasPlace, InSessionPcs, Locked, Early
<1> QED BY <1>1, OneAlone

LEMMA PrefixOf ==
  ASSUME NEW h, NEW p, HistoryOf(h, p), Users(h) # {}
  PROVE  HistoryOf(BeforeLastUser(h), p)
<1> DEFINE n == Max(Users(h))
<1>1. h \in Seq(Line) /\ Len(h) \in Nat /\ DOMAIN h = 1..Len(h)
  BY DEF HistoryOf
<1>2. Users(h) \subseteq 0..Len(h) /\ Users(h) \subseteq 1..Len(h)
  BY <1>1 DEF Users
<1>3. n \in 1..Len(h)
  BY <1>1, <1>2, MaxFacts
<1> HIDE DEF n
<1>4. /\ SubSeq(h, 1, n - 1) \in Seq(Line) /\ DOMAIN SubSeq(h, 1, n - 1) = 1..(n - 1)
      /\ \A i \in 1..(n - 1) : SubSeq(h, 1, n - 1)[i] = h[i] /\ i \in DOMAIN h
  BY <1>1, <1>3
<1>5. BeforeLastUser(h) = SubSeq(h, 1, n - 1)
  BY DEF BeforeLastUser, n
<1> QED BY <1>4, <1>5 DEF HistoryOf

(* A message's place has a history of its own, and it may join it.          *)
LEMMA Joins ==
  ASSUME ApartInv, ChannelsApart, NEW m \in Messages, calls[m].pc \notin Early,
         NEW l \in {User(m), Assistant(m), Stopped(m)}, history' = [history EXCEPT ![calls[m].place] = Append(history[calls[m].place], l)]
  PROVE  Writes(m)
<1>1. calls[m].pc # "unsent" /\ calls[m].place \in Places
  BY DEF ApartInv, HasPlace, Early
<1>2. l \in Line /\ l.of = {m}
  BY DEF Line, User, Assistant, Stopped
<1>3. Placed(m, calls[m].place)
  BY DEF Placed
<1>4. HistoryOf(history[calls[m].place], calls[m].place)
  BY <1>1 DEF ChannelsApart
<1>5. HistoryOf(Append(history[calls[m].place], l), calls[m].place)
  BY <1>2, <1>3, <1>4, HistoryGrows
<1> QED BY <1>1, <1>5 DEF Writes

(* A message that comes, and its command.                                   *)
LEMMA ReceivedApart ==
  ASSUME CallsOk, ApartInv, DiscordApart, SameTalks, UNCHANGED archive, UNCHANGED channelVars, NEW m \in Messages,
         calls[m].pc = "unsent", NEW c, calls' = [calls EXCEPT ![m] = c], c.pc \in {"lost", "syncing", "done"}, c.place \in Places
  PROVE  ApartStep /\ DiscordApart' /\ CallsApart
<1>1. PlaceKept(calls[m], c)
  BY DEF PlaceKept, InSessionPcs, Locked, Early
<1>2. Alone(m) /\ calls'[m] = c
  BY <1>1, OneAlone
<1>3. LockGoes(m) /\ Writes(m)
  BY <1>2 DEF LockGoes, LockPcs, Holding, InSessionPcs, Locked, Writes, channelVars
<1> QED BY <1>2, <1>3, DiscordCallApart

LEMMA StampedTalks ==
  ASSUME ApartInv, NEW d,
         \/ sessions' = sessions \/ sessions' = Notified(sessions, d) \/ sessions' = Stamped(Notified(sessions, d))
  PROVE  SameTalks
<1> DEFINE ss == Notified(sessions, d)
<1>1. ss = [k \in DOMAIN sessions |-> ss[k]] /\ \A k \in DOMAIN sessions : SameTalk(sessions[k], ss[k])
  BY NotifiedTalk
<1> HIDE DEF ss
<1>2. CASE sessions' = sessions
  BY <1>2, SessionsSame DEF SameTalks
<1>3. CASE sessions' = ss
  BY <1>1, <1>3, TalkMap DEF SameTalks
<1>4. CASE sessions' = Stamped(ss)
  <2>1. sessions' = [k \in DOMAIN sessions |-> sessions'[k]]
    BY <1>1, <1>4 DEF Stamped
  <2>2. \A k \in DOMAIN sessions : SameTalk(sessions[k], sessions'[k])
    <3> SUFFICES ASSUME NEW k \in DOMAIN sessions PROVE SameTalk(sessions[k], sessions'[k])
      OBVIOUS
    <3>1. sessions'[k] \in {ss[k], SetRunContext(ss[k])}
      BY <1>1, <1>4 DEF Stamped
    <3>2. DOMAIN ss[k] = SessionFields /\ SameTalk(sessions[k], ss[k])
      BY <1>1 DEF SameTalk
    <3>3. SameTalk(ss[k], SetRunContext(ss[k]))
      BY <3>2, TalkOps
    <3> QED BY <3>1, <3>2, <3>3, SameTalkTwice
  <2> QED BY <2>1, <2>2, TalkMap DEF SameTalks
<1> QED BY <1>2, <1>3, <1>4 DEF ss

LEMMA ReceiveApart ==
  ASSUME CallsOk, ApartInv, DiscordApart, Receive \/ ReceiveSlash \/ Overheard
  PROVE  ApartStep /\ DiscordApart' /\ CallsApart
<1> DEFINE m == Min(Unsent)
<1>1. m \in Messages /\ calls[m].pc = "unsent"
  BY NextToCome DEF Receive, ReceiveSlash, Overheard, NextMessage
<1>2. ASSUME NEW channel \in Places, NEW kind, NEW slash, Handed(channel, kind, slash)
      PROVE  ApartStep /\ DiscordApart' /\ CallsApart
  <2> DEFINE c == [NoCall EXCEPT !.place = channel, !.kind = kind, !.slash = slash,
                                 !.pc = IF ReloadRaises(disk') THEN "lost" ELSE "syncing"]
  <2>1. calls' = [calls EXCEPT ![m] = c] /\ c.pc \in {"lost", "syncing"} /\ c.place = channel
    BY <1>2 DEF Handed, NoCall
  <2> HIDE DEF c, m
  <2>2. SameTalks /\ UNCHANGED archive /\ UNCHANGED channelVars
    BY <1>2, StampedTalks DEF Handed, discordVars
  <2> QED BY <1>1, <2>1, <2>2, ReceivedApart
<1>3. CASE Receive \/ ReceiveSlash
  BY <1>2, <1>3 DEF Receive, ReceiveSlash
<1>4. CASE Overheard
  <2>1. PICK channel \in Places : calls' = [calls EXCEPT ![m] = [NoCall EXCEPT !.pc = "done", !.place = channel]]
    BY <1>4 DEF Overheard
  <2> DEFINE c == [NoCall EXCEPT !.pc = "done", !.place = channel]
  <2>2. calls' = [calls EXCEPT ![m] = c] /\ c.pc = "done" /\ c.place = channel
    BY <2>1 DEF NoCall
  <2> HIDE DEF c, m
  <2>3. SameTalks /\ UNCHANGED archive /\ UNCHANGED channelVars
    BY <1>4, StampedTalks DEF Overheard, Denied, Unaddressed, discordVars
  <2> QED BY <1>1, <2>2, <2>3, ReceivedApart
<1> QED BY <1>3, <1>4

LEMMA SyncBlockApart ==
  ASSUME CallsOk, ApartInv, DiscordApart, NEW m \in Messages, SyncBlock(m) \/ CreateThread(m)
  PROVE  ApartStep /\ DiscordApart' /\ CallsApart
<1>1. UNCHANGED <<sessions, archive, history, turnLock>>
  BY DEF SyncBlock, CreateThread, turnVars, discordVars, channelVars
<1>2. SameTalks
  BY <1>1, SessionsSame DEF SameTalks
<1>3. calls[m].pc \in {"syncing", "stopping", "threading"}
  BY DEF SyncBlock, SyncNow, SyncStops, SyncStopped, CreateThread, At
<1>4. calls[m].place \in Places
  BY <1>3 DEF ApartInv, HasPlace
<1>5. \E c : /\ calls' = [calls EXCEPT ![m] = c] /\ c.place \in Places
             /\ c.pc \in {"syncing", "stopping", "threading", "routing"}
  <2>1. CASE Goto(m, "stopping") \/ Goto(m, "routing")
    <3>1. PICK pc \in {"stopping", "routing"} : Goto(m, pc)
      BY <2>1
    <3> DEFINE c == [calls[m] EXCEPT !.pc = pc]
    <3>2. calls' = [calls EXCEPT ![m] = c] /\ c.pc = pc /\ c.place = calls[m].place
      BY <3>1 DEF Goto, CallsOk, CallOk, CallFields
    <3> HIDE DEF c
    <3> QED BY <1>4, <3>2
  <2>2. ASSUME NEW b, NEW pc \in {"syncing", "threading", "routing"}, calls' = [calls EXCEPT ![m] = [@ EXCEPT !.block = b, !.pc = pc]]
        PROVE  \E c : /\ calls' = [calls EXCEPT ![m] = c] /\ c.place \in Places
                      /\ c.pc \in {"syncing", "stopping", "threading", "routing"}
    <3> DEFINE c == [calls[m] EXCEPT !.block = b, !.pc = pc]
    <3>1. calls' = [calls EXCEPT ![m] = c] /\ c.pc = pc /\ c.place = calls[m].place
      BY <2>2 DEF CallsOk, CallOk, CallFields
    <3> HIDE DEF c
    <3> QED BY <1>4, <3>1
  <2>3. ASSUME NEW thread \in Places, calls' = [calls EXCEPT ![m] = [@ EXCEPT !.pc = "routing", !.place = thread]]
        PROVE  \E c : /\ calls' = [calls EXCEPT ![m] = c] /\ c.place \in Places
                      /\ c.pc \in {"syncing", "stopping", "threading", "routing"}
    <3> DEFINE c == [calls[m] EXCEPT !.pc = "routing", !.place = thread]
    <3>1. calls' = [calls EXCEPT ![m] = c] /\ c.pc = "routing" /\ c.place = thread
      BY <2>3 DEF CallsOk, CallOk, CallFields
    <3> HIDE DEF c
    <3> QED BY <3>1
  <2>4. CASE SyncBlock(m)
    <3> DEFINE b == calls[m].block
               d == IF b = 2 THEN b ELSE b + 1
               pc == IF b = 2 THEN TargetFirst(m) ELSE "syncing"
    <3>1. Goto(m, "stopping") \/ calls' = [calls EXCEPT ![m] = [@ EXCEPT !.block = d, !.pc = pc]]
      BY <2>4 DEF SyncBlock, SyncNow, SyncStops, SyncStopped
    <3>2. pc \in {"syncing", "threading", "routing"}
      BY DEF TargetFirst
    <3> HIDE DEF d, pc
    <3> QED BY <2>1, <2>2, <3>1, <3>2
  <2>5. CASE CreateThread(m)
    <3>1. Goto(m, "routing") \/ \E thread \in Places : calls' = [calls EXCEPT ![m] = [@ EXCEPT !.pc = "routing", !.place = thread]]
      BY <2>5 DEF CreateThread, Unmade
    <3> QED BY <2>1, <2>3, <3>1
  <2> QED BY <2>4, <2>5
<1>6. PICK c : /\ calls' = [calls EXCEPT ![m] = c] /\ c.place \in Places
               /\ c.pc \in {"syncing", "stopping", "threading", "routing"}
  BY <1>5
<1>7. PlaceKept(calls[m], c)
  BY <1>3, <1>6 DEF PlaceKept, InSessionPcs, Locked, Early
<1>8. Alone(m) /\ calls'[m] = c
  BY <1>6, <1>7, OneAlone
<1>9. LockGoes(m) /\ Writes(m)
  BY <1>1, <1>3, <1>6, <1>8 DEF LockGoes, Writes, LockPcs, Holding, InSessionPcs, Locked
<1> QED BY <1>1, <1>2, <1>8, <1>9, DiscordCallApart

(* A command, and a turn that it asks for.                                  *)
LEMMA FinishedCall ==
  ASSUME NEW c
  PROVE  Finish(c).pc = "done" /\ Finish(c).place = c.place
BY DEF Finish, Ended, NoCall

LEMMA CommandApart ==
  ASSUME CallsOk, ApartInv, DiscordApart, NEW m \in Messages, StopCommand(m) \/ ResetCommand(m) \/ ModelCommand(m)
  PROVE  ApartStep /\ DiscordApart' /\ CallsApart
<1>1. calls[m].pc = "routing" /\ UNCHANGED <<sessions, archive, turnLock>>
  BY DEF StopCommand, ResetCommand, ModelCommand, At, discordVars, channelVars
<1>2. SameTalks
  BY <1>1, SessionsSame DEF SameTalks
<1>3. calls[m].place \in Places /\ calls[m].pc \notin InSessionPcs \cup {"unsent"}
  BY <1>1 DEF ApartInv, HasPlace, InSessionPcs, Locked
<1>4. Alone(m) /\ calls'[m].pc = "done"
  <2>1. CASE ResetCommand(m) \/ ModelCommand(m)
    <3> DEFINE c == Finish(calls[m])
    <3>1. calls' = [calls EXCEPT ![m] = c] /\ c.pc = "done" /\ c.place = calls[m].place
      BY <2>1, FinishedCall DEF ResetCommand, ModelCommand
    <3> HIDE DEF c
    <3> QED BY <1>3, <3>1, DoneAlone
  <2>2. CASE StopCommand(m)
    <3>1. calls'[m] = Finish(calls[m])
      BY <2>2 DEF StopCommand
    <3>2. PlaceKept(calls[m], calls'[m]) /\ calls'[m].pc = "done"
      BY <1>1, <1>3, <3>1, FinishedCall DEF PlaceKept, InSessionPcs, Locked, Early
    <3>3. ASSUME NEW n \in Messages \ {m} PROVE SameCall(calls[n], calls'[n])
      <4>1. PICK b : calls'[n] = [calls[n] EXCEPT !.cancelled = b]
        BY <2>2 DEF StopCommand
      <4> QED BY <4>1 DEF SameCall, CallsOk, CallOk, CallFields
    <3> QED BY <3>2, <3>3 DEF Alone
  <2> QED BY <2>1, <2>2
<1>5. LockGoes(m)
  BY <1>1, <1>4 DEF LockGoes, LockPcs, Holding, InSessionPcs, Locked
<1>6. Writes(m)
  <2>1. HistoryOf(<<>>, calls[m].place)
    BY DEF HistoryOf
  <2>2. UNCHANGED history \/ history' = [history EXCEPT ![calls[m].place] = <<>>]
    BY DEF StopCommand, ResetCommand, ModelCommand, discordVars, channelVars
  <2> QED BY <1>1, <2>1, <2>2 DEF Writes
<1> QED BY <1>1, <1>2, <1>4, <1>5, <1>6, DiscordCallApart

LEMMA RoutedApart ==
  ASSUME CallsOk, ApartInv, DiscordApart, NEW m \in Messages, RouteToAgent(m) \/ Acknowledged(m)
  PROVE  ApartStep /\ DiscordApart' /\ CallsApart
<1>1. calls[m].pc \in {"routing", "anchoring"} /\ UNCHANGED <<sessions, archive, turnLock>>
  BY DEF RouteToAgent, Acknowledged, At
<1>2. SameTalks
  BY <1>1, SessionsSame DEF SameTalks
<1>3. calls[m].place \in Places /\ calls[m].pc \notin InSessionPcs \cup {"unsent"} /\ calls[m].pc \notin Early
  BY <1>1 DEF ApartInv, HasPlace, InSessionPcs, Locked, Early
<1>4. HistoryOf(history[calls[m].place], calls[m].place)
  BY <1>3 DEF DiscordApart, ChannelsApart
<1>5. ASSUME NEW h, HistoryOf(h, calls[m].place), Runs(m, h) \/ RunAgent(m, h)
      PROVE  Alone(m) /\ calls'[m].pc \in {"starting", "anchoring"} /\ Writes(m)
  <2>1. PICK pc \in {"starting", "anchoring"} : Goto(m, pc)
    BY <1>5 DEF Runs, RunAgent, Acknowledge
  <2>2. pc \notin InSessionPcs \cup {"unsent"} /\ pc \notin Early
    BY DEF InSessionPcs, Locked, Early
  <2>3. Alone(m) /\ calls'[m].pc = pc
    BY <1>3, <2>1, <2>2, GotoAlone
  <2>4. history' = [history EXCEPT ![calls[m].place] = h]
    BY <1>5 DEF Runs, RunAgent, Acknowledge
  <2> QED BY <1>1, <1>5, <2>3, <2>4 DEF Writes
<1>6. Alone(m) /\ calls'[m].pc \in {"starting", "anchoring", "done"} /\ Writes(m)
  <2>1. CASE Acknowledged(m)
    BY <1>4, <1>5, <2>1 DEF Acknowledged
  <2>2. CASE RouteToAgent(m)
    <3> DEFINE h == history[calls[m].place]
    <3>1. \/ Runs(m, h)
          \/ Users(h) # {} /\ Runs(m, BeforeLastUser(h))
          \/ calls' = [calls EXCEPT ![m] = Finish(@)] /\ UNCHANGED history
      BY <2>2 DEF RouteToAgent
    <3>2. CASE Runs(m, h)
      BY <1>4, <1>5, <3>2
    <3>3. CASE Users(h) # {} /\ Runs(m, BeforeLastUser(h))
      <4>1. HistoryOf(BeforeLastUser(h), calls[m].place)
        BY <1>4, <3>3, PrefixOf
      <4> QED BY <1>5, <3>3, <4>1
    <3>4. CASE calls' = [calls EXCEPT ![m] = Finish(@)] /\ UNCHANGED history
      <4> DEFINE c == Finish(calls[m])
      <4>1. calls' = [calls EXCEPT ![m] = c] /\ c.pc = "done" /\ c.place = calls[m].place
        BY <3>4, FinishedCall
      <4> HIDE DEF c
      <4>2. Alone(m) /\ calls'[m].pc = "done"
        BY <1>3, <4>1, DoneAlone
      <4> QED BY <3>4, <4>2 DEF Writes
    <3> QED BY <3>1, <3>2, <3>3, <3>4
  <2> QED BY <2>1, <2>2
<1>7. LockGoes(m)
  BY <1>1, <1>6 DEF LockGoes, LockPcs, Holding, InSessionPcs, Locked
<1> QED BY <1>1, <1>2, <1>6, <1>7, DiscordCallApart

(* A turn begins: its message joins the history, and it queues for the lock. *)
LEMMA StartsApart ==
  ASSUME CallsOk, ApartInv, DiscordApart, NEW m \in Messages, Starts(m) \/ PostPlaceholder(m)
  PROVE  ApartStep /\ DiscordApart' /\ CallsApart
<1>1. calls[m].pc \in {"starting", "placing"} /\ UNCHANGED <<sessions, archive>>
  BY DEF Starts, PostPlaceholder, At
<1>2. SameTalks
  BY <1>1, SessionsSame DEF SameTalks
<1>3. calls[m].place \in Places /\ calls[m].pc \notin InSessionPcs \cup {"unsent"} /\ calls[m].pc \notin Early
  BY <1>1 DEF ApartInv, HasPlace, InSessionPcs, Locked, Early
<1>4. CASE Starts(m)
  <2>1. Goto(m, "placing") /\ UNCHANGED turnLock
    BY <1>4 DEF Starts
  <2>2. Alone(m) /\ calls'[m].pc = "placing"
    <3>1. "placing" \notin InSessionPcs \cup {"unsent"} /\ "placing" \notin Early
      BY DEF InSessionPcs, Locked, Early
    <3> QED BY <1>3, <2>1, <3>1, GotoAlone
  <2>3. LockGoes(m)
    BY <1>1, <2>1, <2>2 DEF LockGoes, LockPcs, Holding, InSessionPcs, Locked
  <2>4. Writes(m)
    <3>1. history' = [history EXCEPT ![calls[m].place] = Append(history[calls[m].place], User(m))]
      BY <1>4 DEF Starts
    <3> QED BY <1>3, <3>1, Joins DEF DiscordApart
  <2> QED BY <1>1, <1>2, <2>2, <2>3, <2>4, DiscordCallApart
<1>5. CASE PostPlaceholder(m)
  <2>1. PICK shown : calls' = [calls EXCEPT ![m] = [@ EXCEPT !.pc = "locking", !.shown = shown]]
    BY <1>5 DEF PostPlaceholder
  <2> DEFINE c == [calls[m] EXCEPT !.pc = "locking", !.shown = shown]
  <2>2. calls' = [calls EXCEPT ![m] = c] /\ c.pc = "locking" /\ c.place = calls[m].place
    BY <2>1 DEF CallsOk, CallOk, CallFields
  <2> HIDE DEF c
  <2>3. PlaceKept(calls[m], c)
    BY <1>3, <2>2 DEF PlaceKept, InSessionPcs, Locked, Early
  <2>4. Alone(m) /\ calls'[m] = c
    BY <2>2, <2>3, OneAlone
  <2>5. LockGoes(m)
    BY <1>1, <1>5, <2>2, <2>4 DEF LockGoes, PostPlaceholder, LockPcs, Holding, InSessionPcs, Locked
  <2>6. Writes(m)
    BY <1>5 DEF Writes, PostPlaceholder
  <2> QED BY <1>1, <1>2, <2>4, <2>5, <2>6, DiscordCallApart
<1> QED BY <1>4, <1>5

(* The turn gets the lock, and the agent a new Session of its channel.      *)
LEMMA ChannelTalk ==
  ASSUME ApartInv, ChannelsApart, NEW m \in Messages, calls[m].place \in Places
  PROVE  LET s == SetRunContext(RestoredHistory(m))
         IN  DOMAIN s = SessionFields /\ OwnTalk(s) /\ s.queue = <<>> /\ s.place = calls[m].place
<1> DEFINE p == calls[m].place
           n == NewSession(p, runtime)
           h == history[p]
           r == RestoredHistory(m)
<1>1. OwnTalk(n) /\ n.queue = <<>> /\ n.place = p
  BY OpenedTalk
<1>2. HistoryOf(h, p)
  BY DEF ChannelsApart
<1>3. r = [n EXCEPT !.history = h]
  BY DEF RestoredHistory
<1> HIDE DEF n, h, r
<1>4. DOMAIN n = SessionFields
  BY <1>1 DEF OwnTalk
<1>5. /\ DOMAIN r = SessionFields /\ r.queue = <<>> /\ r.place = p /\ r.turn = n.turn /\ r.handoff = n.handoff
      /\ r.ready = n.ready /\ r.history = h
  BY <1>1, <1>3, <1>4 DEF SessionFields
<1>6. OwnTalk(r)
  BY <1>1, <1>2, <1>5 DEF OwnTalk
<1>7. /\ DOMAIN SetRunContext(r) = SessionFields /\ SetRunContext(r).history = r.history /\ SetRunContext(r).queue = r.queue
      /\ SetRunContext(r).place = r.place /\ SetRunContext(r).turn = r.turn /\ SetRunContext(r).handoff = r.handoff
      /\ SetRunContext(r).ready = r.ready
  BY <1>5 DEF SetRunContext, SessionFields
<1> QED BY <1>5, <1>6, <1>7 DEF OwnTalk, r

LEMMA TakeTurnApart ==
  ASSUME CallsOk, ApartInv, DiscordApart, NEW m \in Messages, TakeTurn(m)
  PROVE  ApartStep /\ DiscordApart'
<1> DEFINE olds == [k \in DOMAIN sessions |-> IF k = current THEN Close(sessions[k]) ELSE sessions[k]]
           s == SetRunContext(RestoredHistory(m))
<1>1. /\ calls[m].pc = "locking" /\ Head(turnLock) = m /\ UNCHANGED <<archive, history, turnLock>>
      /\ sessions' = Append(olds, Entered(s, m))
      /\ calls' = [calls EXCEPT ![m] = [@ EXCEPT !.pc = "waiting", !.session = Len(sessions) + 1]]
  BY DEF TakeTurn, At
<1>2. calls[m].pc \notin InSessionPcs /\ calls[m].pc # "unsent" /\ calls[m].pc \notin Early /\ calls[m].place \in Places
  BY <1>1 DEF ApartInv, HasPlace, InSessionPcs, Locked, Early
<1>3. DOMAIN s = SessionFields /\ OwnTalk(s) /\ s.queue = <<>> /\ s.place = calls[m].place
  BY <1>2, ChannelTalk DEF DiscordApart
<1>4. \A j \in DOMAIN sessions : SameTalk(sessions[j], olds[j])
  <2> SUFFICES ASSUME NEW j \in DOMAIN sessions PROVE SameTalk(sessions[j], olds[j])
    OBVIOUS
  <2>1. DOMAIN sessions[j] = SessionFields
    BY DEF ApartInv, SessionApart
  <2>2. SameTalk(sessions[j], sessions[j]) /\ SameTalk(sessions[j], Close(sessions[j]))
    BY <2>1, TalkOps
  <2> QED BY <2>2
<1>5. olds = [j \in DOMAIN sessions |-> olds[j]]
  OBVIOUS
<1> HIDE DEF s, olds
<1>6. ApartStep /\ calls'[m].pc = "waiting" /\ calls'[m].place = calls[m].place /\ \A n \in Messages \ {m} : calls'[n] = calls[n]
  BY <1>1, <1>2, <1>3, <1>4, <1>5, NewTurnEnters
<1>7. LockApart'
  <2>1. m \in Range(turnLock) /\ turnLock[1] = m /\ Range(turnLock) \subseteq Messages
    <3>1. m \in Range(turnLock) /\ turnLock \in Seq(Messages)
      BY <1>1 DEF DiscordApart, LockApart, LockPcs
    <3> QED BY <1>1, <3>1, LockIs DEF DiscordApart, Range
  <2>2. calls'[m].pc \in LockPcs
    BY <1>6 DEF LockPcs, Holding, InSessionPcs
  <2>3. \A n \in Messages \ {m} : calls[n].pc \notin Holding
    BY <2>1 DEF DiscordApart, LockApart, LockPcs
  <2> HIDE DEF LockPcs
  <2> QED BY <1>1, <1>6, <2>1, <2>2, <2>3 DEF DiscordApart, LockApart
<1>8. ChannelsApart'
  <2>1. \A n \in Messages : KeepsPlace(n)
    BY <1>1, <1>2, <1>6 DEF KeepsPlace, HasPlace, Early, ApartInv
  <2> QED BY <1>1, <2>1, ChannelsStay DEF DiscordApart
<1> QED BY <1>6, <1>7, <1>8 DEF DiscordApart

LEMMA AgentTurnApart ==
  ASSUME CallsOk, ApartInv, DiscordApart, NEW m \in Messages, AgentTurn(m)
  PROVE  ApartStep /\ DiscordApart'
<1>1. ApartStep /\ TurnFrame(m)
  BY TurnApartStep DEF AgentTurn
<1>2. UNCHANGED <<history, turnLock>>
  BY DEF AgentTurn, discordVars, channelVars
<1>3. LockApart'
  BY <1>1, <1>2, LockStays DEF TurnFrame, OneTurn, Holding, DiscordApart
<1>4. ChannelsApart'
  BY <1>1, <1>2, ChannelsStay, TurnPlaces DEF TurnFrame, DiscordApart
<1> QED BY <1>1, <1>3, <1>4 DEF DiscordApart

(* A turn shows how it goes; the steps after it.                            *)
LEMMA ProgressApart ==
  ASSUME CallsOk, ApartInv, DiscordApart, UNCHANGED <<sessions, archive, history, turnLock>>,
         \A n \in Messages : SameCall(calls[n], calls'[n])
  PROVE  ApartStep /\ DiscordApart' /\ CallsApart
<1>1. CallsApart
  BY SameCallsApart
<1>2. ApartStep
  BY <1>1, SessionsSame, TalksStay DEF CallsApart
<1>3. LockApart'
  BY LockStays DEF SameCall, DiscordApart
<1>4. ChannelsApart'
  BY <1>1, ChannelsStay DEF CallsApart, DiscordApart
<1> QED BY <1>1, <1>2, <1>3, <1>4 DEF DiscordApart

LEMMA EditsApart ==
  ASSUME CallsOk, ApartInv, DiscordApart, NEW m \in Messages, Progress(m) \/ (EditLands(m) /\ UNCHANGED discordVars)
  PROVE  ApartStep /\ DiscordApart' /\ CallsApart
<1>1. UNCHANGED <<sessions, archive, history, turnLock>>
  BY DEF Progress, EditLands, discordVars, channelVars
<1>2. \A n \in Messages : SameCall(calls[n], calls'[n])
  <2>1. CASE EditLands(m)
    BY <2>1, EditedCall
  <2>2. CASE Progress(m)
    <3> DEFINE f == NoEdit
    <3>1. DOMAIN f = Messages /\ \A n \in Messages : SameCall(calls[n], f[n]) /\ DOMAIN f[n] = CallFields
      BY UneditedCalls
    <3>2. calls' = [f EXCEPT ![m].edit = TRUE]
      BY <2>2 DEF Progress
    <3> HIDE DEF f
    <3>3. SameCall(f[m], calls'[m]) /\ \A n \in Messages \ {m} : calls'[n] = f[n]
      BY <3>1, <3>2 DEF SameCall, CallFields
    <3> QED BY <3>1, <3>3 DEF SameCall
  <2> QED BY <2>1, <2>2
<1> QED BY <1>1, <1>2, ProgressApart

(* What is left of a turn once it left the Session.                         *)
LEMMA AnsweredApart ==
  ASSUME CallsOk, ApartInv, DiscordApart, NEW m \in Messages, Answered(m) \/ Unwinds(m)
  PROVE  ApartStep /\ DiscordApart' /\ CallsApart
<1>1. /\ calls[m].pc \in {"left", "starting", "placing", "locking", "delivering"}
      /\ UNCHANGED <<sessions, archive>> /\ turnLock' = RemoveFirst(turnLock, m)
  BY DEF Answered, Unwinds, At, Unlocked
<1>2. SameTalks
  BY <1>1, SessionsSame DEF SameTalks
<1>3. calls[m].place \in Places /\ calls[m].pc \notin InSessionPcs \cup {"unsent"} /\ calls[m].pc \notin Early
  BY <1>1 DEF ApartInv, HasPlace, InSessionPcs, Locked, Early
<1> DEFINE f == NoEdit
<1>4. DOMAIN f = Messages /\ \A n \in Messages : SameCall(calls[n], f[n]) /\ DOMAIN f[n] = CallFields
  BY UneditedCalls
<1>5. \/ calls' = [f EXCEPT ![m].pc = "delivering"]
      \/ calls' = [f EXCEPT ![m] = [@ EXCEPT !.pc = "finalizing", !.cancelled = FALSE, !.prev = pendingId[calls[m].place]]]
  BY DEF Answered, Unwinds
<1> HIDE DEF f
<1>6. calls'[m].pc \in {"delivering", "finalizing"} /\ calls'[m].place = f[m].place /\ \A n \in Messages \ {m} : calls'[n] = f[n]
  BY <1>4, <1>5 DEF CallFields
<1>7. Alone(m)
  <2>1. PlaceKept(calls[m], calls'[m])
    BY <1>3, <1>4, <1>6 DEF PlaceKept, SameCall, InSessionPcs, Locked, Early
  <2> QED BY <1>4, <1>6, <2>1 DEF Alone
<1>8. LockGoes(m)
  BY <1>1, <1>6 DEF LockGoes, LockPcs, Holding, InSessionPcs, Locked
<1>9. Writes(m)
  <2>1. CASE Unwinds(m)
    BY <2>1 DEF Unwinds, Writes
  <2>2. CASE Answered(m)
    <3>1. history' = [history EXCEPT ![calls[m].place] = Append(history[calls[m].place], Assistant(m))]
      BY <2>2 DEF Answered
    <3> QED BY <1>3, <3>1, Joins DEF DiscordApart
  <2> QED BY <2>1, <2>2
<1> QED BY <1>1, <1>2, <1>7, <1>8, <1>9, DiscordCallApart

LEMMA ShownApart ==
  ASSUME CallsOk, ApartInv, DiscordApart, NEW m \in Messages, ShowAnswer(m) \/ ShowError(m)
  PROVE  ApartStep /\ DiscordApart' /\ CallsApart
<1>1. /\ calls[m].pc \in {"left", "delivering"} /\ UNCHANGED <<sessions, archive, history>>
      /\ turnLock' = RemoveFirst(turnLock, m) \/ (UNCHANGED turnLock /\ calls[m].pc = "delivering")
  BY DEF ShowAnswer, ShowError, At, Unlocked
<1>2. SameTalks
  BY <1>1, SessionsSame DEF SameTalks
<1>3. calls[m].pc \notin InSessionPcs \cup {"unsent"}
  BY <1>1 DEF InSessionPcs, Locked
<1>4. \E c : calls' = [calls EXCEPT ![m] = c] /\ c.pc = "done" /\ c.place = calls[m].place
  <2> DEFINE d == Finish(calls[m])
  <2>1. d.pc = "done" /\ d.place = calls[m].place /\ DOMAIN d = CallFields
    BY DEF Finish, Ended, NoCall, CallFields
  <2>2. PICK shown : calls' = [calls EXCEPT ![m] = [d EXCEPT !.shown = shown]]
    BY DEF ShowAnswer, ShowError
  <2> HIDE DEF d
  <2> DEFINE c == [d EXCEPT !.shown = shown]
  <2>3. c.pc = "done" /\ c.place = calls[m].place
    BY <2>1 DEF CallFields
  <2> QED BY <2>2, <2>3
<1>5. Alone(m) /\ calls'[m].pc = "done"
  BY <1>3, <1>4, DoneAlone
<1>6. LockGoes(m)
  BY <1>1, <1>5 DEF LockGoes, LockPcs, Holding, InSessionPcs, Locked
<1>7. Writes(m)
  BY <1>1 DEF Writes
<1> QED BY <1>1, <1>2, <1>5, <1>6, <1>7, DiscordCallApart

LEMMA FinalizedApart ==
  ASSUME CallsOk, ApartInv, DiscordApart, NEW m \in Messages, FinalizeCancelled(m)
  PROVE  ApartStep /\ DiscordApart' /\ CallsApart
<1>1. /\ calls[m].pc = "finalizing" /\ UNCHANGED <<sessions, archive, turnLock>>
      /\ history' = [history EXCEPT ![calls[m].place] = Append(history[calls[m].place], Stopped(m))]
  BY DEF FinalizeCancelled, At
<1>2. SameTalks
  BY <1>1, SessionsSame DEF SameTalks
<1>3. calls[m].pc \notin InSessionPcs \cup {"unsent"} /\ calls[m].pc \notin Early /\ calls[m].place \in Places
  BY <1>1 DEF ApartInv, HasPlace, InSessionPcs, Locked, Early
<1> DEFINE prev == calls[m].prev
           noted == IF prev = 0 THEN calls ELSE [calls EXCEPT ![prev].shown = "stopped"]
<1>4. DOMAIN noted = Messages /\ \A n \in Messages : SameCall(calls[n], noted[n])
  BY DEF CallsOk, CallOk, CallFields, SameCall
<1>5. calls' = [noted EXCEPT ![m] = Finish(noted[m])]
  BY DEF FinalizeCancelled
<1> HIDE DEF noted
<1>6. calls'[m].pc = "done" /\ calls'[m].place = noted[m].place /\ \A n \in Messages \ {m} : calls'[n] = noted[n]
  BY <1>4, <1>5, FinishedCall
<1>7. Alone(m)
  <2>1. PlaceKept(calls[m], calls'[m])
    BY <1>3, <1>4, <1>6 DEF PlaceKept, SameCall, InSessionPcs, Locked, Early
  <2> QED BY <1>4, <1>6, <2>1 DEF Alone
<1>8. LockGoes(m)
  BY <1>1, <1>6 DEF LockGoes, LockPcs, Holding, InSessionPcs, Locked
<1>9. Writes(m)
  BY <1>1, <1>3, Joins DEF DiscordApart
<1> QED BY <1>1, <1>2, <1>7, <1>8, <1>9, DiscordCallApart

LEMMA DiscordTaskApart ==
  ASSUME CallsOk, ApartInv, DiscordApart, NEW m \in Messages, DiscordTask(m)
  PROVE  ApartStep /\ DiscordApart'
<1>1. CASE SyncBlock(m) \/ CreateThread(m)
  BY <1>1, SyncBlockApart
<1>2. CASE SlashCommand(m)
  BY <1>2, CommandApart, RoutedApart DEF SlashCommand
<1>3. CASE Starts(m) \/ PostPlaceholder(m)
  BY <1>3, StartsApart
<1>4. CASE TakeTurn(m)
  BY <1>4, TakeTurnApart
<1>5. CASE AgentTurn(m)
  BY <1>5, AgentTurnApart
<1>6. CASE Progress(m)
  BY <1>6, EditsApart
<1>7. CASE Answered(m) \/ Unwinds(m)
  BY <1>7, AnsweredApart
<1>8. CASE ShowAnswer(m) \/ ShowError(m)
  BY <1>8, ShownApart
<1>9. CASE FinalizeCancelled(m)
  BY <1>9, FinalizedApart
<1> QED BY <1>1, <1>2, <1>3, <1>4, <1>5, <1>6, <1>7, <1>8, <1>9 DEF DiscordTask

LEMMA DiscordNextApart ==
  ASSUME CallsOk, ApartInv, DiscordApart, DiscordNext
  PROVE  ApartStep /\ DiscordApart'
<1>1. CASE \E m \in Messages : DiscordTask(m)
  BY <1>1, DiscordTaskApart
<1>2. CASE Receive \/ ReceiveSlash \/ Overheard
  BY <1>2, ReceiveApart
<1>3. CASE \E m \in Messages : EditLands(m) /\ UNCHANGED discordVars
  BY <1>3, EditsApart
<1>4. CASE DiscordRestart
  <2>1. calls' = Lost /\ UNCHANGED archive /\ sessions' = <<>> /\ turnLock' = <<>> /\ history' = [c \in Places |-> <<>>]
    BY <1>4 DEF DiscordRestart, Restarted
  <2>2. ApartStep /\ \A m \in Messages : calls'[m].pc \in {"unsent", "done", "lost"}
    BY <2>1, ApartRestarts, NoSessions
  <2>3. LockApart'
    <3>1. \A m \in Messages : calls'[m].pc \notin LockPcs
      BY <2>2 DEF LockPcs, Holding, InSessionPcs, Locked
    <3>2. turnLock' \in Seq(Messages) /\ Distinct(turnLock') /\ Range(turnLock') = {}
      BY <2>1 DEF Distinct, Range
    <3> QED BY <3>1, <3>2 DEF LockApart
  <2>4. ChannelsApart'
    BY <2>1 DEF ChannelsApart, HistoryOf
  <2> QED BY <2>2, <2>3, <2>4 DEF DiscordApart
<1>5. DiscordRunsOn \subseteq Messages
  BY DEF DiscordRunsOn
<1> QED BY <1>1, <1>2, <1>3, <1>4, <1>5 DEF DiscordNext

-----------------------------------------------------------------------------
(* Whatever the interface.                                                  *)
Apart ==
  /\ ApartInv
  /\ interface = "zulip" => ZulipApart
  /\ interface = "direct" => DirectApart
  /\ interface \in {"discord", "threads"} => DiscordApart
  /\ interface = "repl" => ReplApart

LEMMA ApartInit ==
  ASSUME Init
  PROVE  Apart
<1>1. DOMAIN calls = Messages /\ (\A m \in Messages : calls[m] = NoCall) /\ archive = [p \in Places |-> <<>>]
  BY DEF Init, SharedInit
<1>2. \A m \in Messages : calls[m].pc = "unsent"
  BY <1>1 DEF NoCall
<1>3. sessions = <<>> \/ \E p \in Places : sessions = <<FirstSession(p, runtime)>>
  BY DEF Init, ReplInit, StartKeys, FreshKeys
<1>4. sessions \in Seq(Elements(sessions)) /\ \A k \in DOMAIN sessions : OwnTalk(sessions[k]) /\ sessions[k].queue = <<>>
  <2>1. CASE sessions = <<>>
    BY <2>1
  <2>2. ASSUME NEW p \in Places, sessions = <<FirstSession(p, runtime)>>
        PROVE  sessions \in Seq(Elements(sessions)) /\ \A k \in DOMAIN sessions : OwnTalk(sessions[k]) /\ sessions[k].queue = <<>>
    <3> DEFINE s == FirstSession(p, runtime)
    <3>1. OwnTalk(s) /\ s.queue = <<>>
      BY OpenedTalk DEF FirstSession
    <3> HIDE DEF s
    <3>2. sessions = <<s>>
      BY <2>2 DEF s
    <3>3. DOMAIN sessions = {1} /\ sessions[1] = s /\ Elements(sessions) = {s}
      BY <3>2 DEF Elements
    <3> QED BY <3>1, <3>2, <3>3
  <2> QED BY <1>3, <2>1, <2>2
<1>5. ApartInv
  <2>1. \A m \in Messages : TurnApart(m) /\ HasPlace(m)
    BY <1>2 DEF TurnApart, HasPlace, InSessionPcs, Locked
  <2>2. ASSUME NEW k \in DOMAIN sessions
        PROVE  SessionApart(k)
    <3> DEFINE s == sessions[k]
    <3>1. OwnTalk(s) /\ s.queue = <<>>
      BY <1>4
    <3>2. s.queue \in Seq(Messages) /\ Distinct(s.queue) /\ Range(s.queue) = {}
      BY <3>1 DEF Distinct, Range
    <3> QED BY <3>1, <3>2 DEF OwnTalk, SessionApart, QueueOk, CallerOk
  <2>3. ArchiveApart
    BY <1>1 DEF ArchiveApart
  <2> QED BY <1>4, <2>1, <2>2, <2>3 DEF ApartInv
<1>6. ZulipApart
  <2>1. owned = [t \in Places |-> 0]
    BY DEF Init, ZulipInit
  <2> QED BY <1>2, <2>1 DEF ZulipApart, OwnedApart, OpeningApart, Opening, Heading
<1>7. interface = "direct" => DirectApart
  BY <1>2 DEF Init, DirectApart
<1>8. DiscordApart
  <2>1. turnLock = <<>> /\ history = [c \in Places |-> <<>>]
    BY DEF Init, DiscordInit
  <2>2. turnLock \in Seq(Messages) /\ Distinct(turnLock) /\ Range(turnLock) = {}
    BY <2>1 DEF Distinct, Range
  <2>3. \A m \in Messages : calls[m].pc \notin LockPcs
    BY <1>2 DEF LockPcs, Holding, InSessionPcs, Locked
  <2>4. ChannelsApart
    BY <2>1 DEF ChannelsApart, HistoryOf
  <2> QED BY <2>2, <2>3, <2>4 DEF DiscordApart, LockApart
<1>9. interface = "repl" => ReplApart
  <2> SUFFICES ASSUME interface = "repl" PROVE ReplApart
    OBVIOUS
  <2>1. ReplInit
    BY DEF Init
  <2>2. minted \subseteq Places /\ default \subseteq Places /\ current = 1 /\ DOMAIN sessions = {1}
    BY <2>1 DEF ReplInit
  <2> QED BY <1>2, <2>2 DEF ReplApart, Idle
<1> QED BY <1>5, <1>6, <1>7, <1>8, <1>9 DEF Apart

LEMMA ApartStays ==
  ASSUME Ordered, Apart, [Next]_vars
  PROVE  Apart' /\ ApartStep
<1>1. CallsOk /\ ApartInv /\ (interface \in {"zulip", "direct"} => InboxInv)
  BY DEF Ordered, OrderInv, DirectOrder, Apart
<1>2. CASE interface = "zulip" /\ ZulipNext /\ UNCHANGED interface
  <2>1. ApartStep /\ ZulipApart'
    BY <1>1, <1>2, ZulipNextApart DEF Apart
  <2> QED BY <1>2, <2>1 DEF Apart, ApartStep
<1>3. CASE interface = "direct" /\ DirectNext /\ UNCHANGED interface
  <2>1. ApartStep /\ DirectApart'
    BY <1>1, <1>3, DirectNextApart DEF Apart
  <2> QED BY <1>3, <2>1 DEF Apart, ApartStep
<1>4. CASE interface \in {"discord", "threads"} /\ DiscordNext /\ UNCHANGED interface
  <2>1. ApartStep /\ DiscordApart'
    BY <1>1, <1>4, DiscordNextApart DEF Apart
  <2> QED BY <1>4, <2>1 DEF Apart, ApartStep
<1>5. CASE interface = "repl" /\ ReplNext /\ UNCHANGED interface
  <2>1. ApartStep /\ ReplApart'
    BY <1>1, <1>5, ReplNextApart DEF Apart
  <2> QED BY <1>5, <2>1 DEF Apart, ApartStep
<1>6. CASE UNCHANGED vars
  <2>1. UNCHANGED <<interface, calls, sessions, archive, owned, current, minted, default, history, turnLock>>
    BY <1>6 DEF vars, sharedVars, zulipVars, channelVars, replVars
  <2>2. \A m \in Messages : SameCall(calls[m], calls'[m])
    BY <2>1 DEF SameCall
  <2>3. CallsApart /\ SameTalks /\ (\A m \in Messages : HeadsOn(m))
    BY <1>1, <2>1, <2>2, SameCallsApart, SessionsSame DEF SameTalks
  <2>4. ApartStep
    BY <1>1, <2>1, <2>3, TalksStay DEF CallsApart, SameTalks
  <2>5. ZulipApart => ZulipApart'
    BY <1>1, <2>1, <2>3, ZulipCallsApart DEF SameTalks
  <2>6. DirectApart => DirectApart'
    BY <2>1 DEF DirectApart
  <2>7. DiscordApart => DiscordApart'
    BY <1>1, <2>1, <2>2, ProgressApart
  <2>8. ReplApart => ReplApart'
    BY <2>1 DEF ReplApart, Idle
  <2> QED BY <2>1, <2>4, <2>5, <2>6, <2>7, <2>8 DEF Apart, ApartStep
<1> QED BY <1>2, <1>3, <1>4, <1>5, <1>6 DEF Next, Settled

(* Conversations, their turns and their hand-offs stay apart, whatever the   *)
(* interface, the places and the messages: a turn's history is of its own    *)
(* place alone and ends with its own message, the lock of its Session is its *)
(* own, and in Discord the agent; a hand-off has the turn that called it.    *)
THEOREM ConversationsAreApart == Spec => []ConversationsStayApart
<1>1. Init => Apart
  BY ApartInit
<1>2. Ordered /\ Apart /\ [Next]_vars => Apart'
  BY ApartStays
<1>3. Apart => ConversationsStayApart
  <2> SUFFICES ASSUME Apart PROVE ConversationsStayApart
    OBVIOUS
  <2>1. ApartInv
    BY DEF Apart
  <2>2. ASSUME NEW m \in Messages, InTurn(m)
        PROVE  OwnHistory(m) /\ OwnSession(m)
    <3> DEFINE k == calls[m].session
               s == sessions[k]
               h == s.history
    <3>1. calls[m].pc \in Locked /\ calls[m].pc \in InSessionPcs
      BY <2>2 DEF InTurn, Locked, InSessionPcs
    <3>2. /\ k \in DOMAIN sessions /\ s.place = calls[m].place /\ m \in Range(s.queue) /\ s.queue[1] = m
          /\ EndsWith(h, User(m))
      BY <2>1, <2>2, <3>1 DEF ApartInv, TurnApart, Of
    <3>3. HistoryOf(h, s.place) /\ s.queue \in Seq(Messages)
      BY <2>1, <3>2 DEF ApartInv, SessionApart, QueueOk
    <3>4. Of(m) = s
      BY DEF Of
    <3> HIDE DEF k, s, h
    <3>5. OwnHistory(m)
      BY <3>2, <3>3, <3>4 DEF OwnHistory, EndsWith, HistoryOf, Placed, h
    <3>6. Head(s.queue) = m
      BY <3>2, <3>3 DEF Range
    <3>7. interface \in {"discord", "threads"} => \A n \in Messages \ {m} : ~InTurn(n)
      BY <2>2 DEF Apart, DiscordApart, LockApart, LockPcs, Holding, InSessionPcs, Locked, InTurn
    <3> QED BY <3>4, <3>5, <3>6, <3>7 DEF OwnSession
  <2>3. ASSUME NEW k \in DOMAIN sessions
        PROVE  OwnHandoff(sessions[k])
    BY <2>1 DEF ApartInv, SessionApart, CallerOk, OwnHandoff
  <2> QED BY <2>2, <2>3 DEF ConversationsStayApart
<1> QED BY <1>1, <1>2, <1>3, AlwaysOrdered, PTL DEF Spec

(***************************************************************************)
(* The numbers of turns.  A Session in use is the one of a topic, or the   *)
(* one the agent has; a place has one of them at a time, and what that one *)
(* has continued is the archive as it stands.                              *)
(***************************************************************************)
InUse(k) == IF interface = "zulip" THEN \E t \in Places : owned[t] = k ELSE current = k
UseInv ==
  /\ \A m \in Messages : calls[m].pc \in InSessionPcs => InUse(calls[m].session)
  /\ \A j, k \in DOMAIN sessions : InUse(j) /\ InUse(k) /\ sessions[j].place = sessions[k].place => j = k

(* No Session comes into use that has turns already.                        *)
UseGoes == \A k \in DOMAIN sessions' : InUse(k)' /\ sessions'[k].ready => k \in DOMAIN sessions /\ InUse(k)

Began(m) == calls[m].pc \in {"streaming", "handing", "closing"}
UpTo(entries, turn) == \A j \in DOMAIN entries : entries[j].turn <= turn
OnlyAsks(entries, turn, m) ==
  \A j \in DOMAIN entries : entries[j].turn = turn => entries[j].role = "user" /\ entries[j].of = {m}
Fresh(entries) ==
  \A j, k \in DOMAIN entries : (j < k /\ entries[j].turn = entries[k].turn) =>
    entries[j].role = "user" /\ entries[k].role = "assistant" /\ entries[j].of = entries[k].of
NumbersInv ==
  /\ \A k \in DOMAIN sessions : InUse(k) /\ sessions[k].ready /\ sessions[k].place \notin forked =>
       UpTo(archive[sessions[k].place], sessions[k].turn)
  /\ \A m \in Messages : InTurn(m) => Of(m).ready
  /\ \A m \in Messages : Began(m) /\ calls[m].place \notin forked => OnlyAsks(archive[calls[m].place], Of(m).turn, m)
  /\ \A p \in Places \ forked : Fresh(archive[p])

LEMMA NumbersKept ==
  ASSUME ApartInv, NumbersInv, NumbersStay, UseGoes, forked \subseteq forked'
  PROVE  NumbersInv'
<1>1. UNCHANGED archive
  BY DEF NumbersStay
<1>2. ASSUME NEW k \in DOMAIN sessions', InUse(k)', sessions'[k].ready, sessions'[k].place \notin forked'
      PROVE  UpTo(archive'[sessions'[k].place], sessions'[k].turn)
  <2>1. SameNumbers(k) /\ InUse(k)
    BY <1>2 DEF NumbersStay, UseGoes
  <2> QED BY <1>1, <1>2, <2>1 DEF NumbersInv, SameNumbers
<1>3. ASSUME NEW m \in Messages, InTurn(m)'
      PROVE  /\ InTurn(m) /\ calls'[m].pc = calls[m].pc /\ calls'[m].place = calls[m].place
             /\ Of(m)'.ready = Of(m).ready /\ Of(m)'.turn = Of(m).turn
  <2>1. Steady(m) /\ SameNumbers(calls[m].session)
    BY <1>3 DEF NumbersStay, InTurn, InSessionPcs, Locked, Queuing
  <2> QED BY <1>3, <2>1 DEF Steady, SameNumbers, InTurn, Of
<1>4. ASSUME NEW m \in Messages, Began(m)', calls'[m].place \notin forked'
      PROVE  OnlyAsks(archive'[calls'[m].place], Of(m)'.turn, m)
  <2>1. InTurn(m)'
    BY <1>4 DEF Began, InTurn
  <2>2. Began(m)
    BY <1>3, <1>4, <2>1 DEF Began
  <2> QED BY <1>1, <1>3, <1>4, <2>1, <2>2 DEF NumbersInv
<1>5. \A p \in Places \ forked' : Fresh(archive'[p])
  BY <1>1 DEF NumbersInv
<1>6. \A m \in Messages : InTurn(m)' => Of(m)'.ready
  BY <1>3 DEF NumbersInv
<1> QED BY <1>2, <1>4, <1>5, <1>6 DEF NumbersInv, UpTo, OnlyAsks, Fresh

(* What a step of a turn does to its number and to the archive.             *)
Keeps(m, t) ==
  /\ UNCHANGED archive /\ t.turn = Of(m).turn /\ t.ready = Of(m).ready
  /\ (InTurn(m)' => t.ready \/ InTurn(m)) /\ (Began(m)' => Began(m))
Renews(m, t) == UNCHANGED archive /\ Of(m).queue[1] = m /\ ~t.ready /\ ~InTurn(m)'
Continues(m, t) ==
  /\ UNCHANGED archive /\ calls[m].pc \in Locked /\ t.ready /\ ~Began(m)'
  /\ Of(m).place \notin forked' => t.turn = LastTurn(Of(m).place)
Asks(m, t) ==
  /\ calls[m].pc = "seeded" /\ t.ready = Of(m).ready /\ t.turn = Of(m).turn + 1
  /\ Record(Of(m), [turn |-> t.turn, role |-> "user", of |-> {m}])
Replies(m, t) ==
  /\ calls[m].pc = "streaming" /\ calls'[m].pc = "left" /\ t.ready = Of(m).ready /\ t.turn = Of(m).turn
  /\ Record(Of(m), [turn |-> t.turn, role |-> "assistant", of |-> {m}])

LEMMA TurnNumbers ==
  ASSUME CallsOk, ApartInv, NEW m \in Messages, TurnStep(m)
  PROVE  LET t == sessions'[calls[m].session]
         IN  /\ forked \subseteq forked'
             /\ Keeps(m, t) \/ Renews(m, t) \/ Continues(m, t) \/ Asks(m, t) \/ Replies(m, t)
<1>0. PICK k : k = calls[m].session
  OBVIOUS
<1> DEFINE s == sessions[k]
           t == sessions'[k]
<1>1. calls[m].pc \in InSessionPcs
  BY DEF TurnStep, ContinueArchive, Acquire, BeginTurn, StreamEnds, StreamRaises, StartHandoff, TargetEnds, TargetCloses,
         UnwindHandoff, UnwindTurn, At, InSessionPcs, Locked
<1>2. k \in DOMAIN sessions /\ DOMAIN s = SessionFields /\ Of(m) = s /\ s.place \in Places
  BY <1>0, <1>1 DEF ApartInv, TurnApart, SessionApart, Of
<1>3. \A x : Set(m, x) => t = x
  BY <1>0, <1>2, SetOne DEF Set
<1>4. DOMAIN calls = Messages /\ DOMAIN calls[m] = CallFields
  BY DEF CallsOk, CallOk
<1>5. \A pc : Goto(m, pc) => calls'[m].pc = pc
  BY <1>4 DEF Goto, CallFields
<1>6. \A x : LET l == Left(x, m) IN DOMAIN x = SessionFields => l.turn = x.turn /\ l.ready = x.ready
  BY DEF Left, CloseLog, SessionFields
<1> HIDE DEF s, t
<1>7. CASE Acquire(m)
  <2> DEFINE r == RefreshIfStale(s, runtime)
  <2>1. Set(m, IF r.ready THEN Said(r, m) ELSE r) /\ calls[m].pc = "waiting" /\ Head(s.queue) = m
        /\ Goto(m, IF r.ready THEN "seeded" ELSE "opening") /\ UNCHANGED archive
    BY <1>2, <1>7 DEF Acquire, At
  <2>2. DOMAIN r = SessionFields /\ (r = s \/ ~r.ready)
    BY <1>2 DEF RefreshIfStale, Rebuilt, SessionFields
  <2> HIDE DEF r
  <2>3. t.turn = r.turn /\ t.ready = r.ready
    BY <1>3, <2>1, <2>2 DEF Said, SessionFields
  <2>7. calls'[m].pc = IF r.ready THEN "seeded" ELSE "opening"
    BY <1>5, <2>1
  <2>6. UNCHANGED forked
    BY <1>7 DEF TurnStep, ContinueArchive, Acquire, At
  <2>4. CASE r = s
    <3>1. UNCHANGED archive /\ t.turn = Of(m).turn /\ t.ready = Of(m).ready
      BY <1>2, <2>1, <2>3, <2>4
    <3>2. InTurn(m)' => t.ready
      BY <2>3, <2>7 DEF InTurn
    <3>3. ~Began(m)'
      BY <2>7 DEF Began
    <3> QED BY <1>0, <2>6, <3>1, <3>2, <3>3 DEF Keeps, t
  <2>5. CASE ~r.ready
    <3>1. s.queue[1] = m
      BY <2>1
    <3>2. ~t.ready /\ ~InTurn(m)'
      BY <2>3, <2>5, <2>7 DEF InTurn
    <3> QED BY <1>0, <1>2, <2>1, <2>6, <3>1, <3>2 DEF Renews, t
  <2> QED BY <2>2, <2>4, <2>5
<1>8. CASE ContinueArchive(m)
  <2>1. calls[m].pc = "opening" /\ calls'[m].pc = "seeded" /\ UNCHANGED archive
    BY <1>5, <1>8 DEF ContinueArchive, At
  <2>2. \E ok \in BOOLEAN :
           /\ Set(m, Said(Continued(s, ok), m)) /\ forked \subseteq forked'
           /\ ~ok => s.place \in forked'
    BY <1>2, <1>8 DEF ContinueArchive
  <2>3. PICK ok \in BOOLEAN : Set(m, Said(Continued(s, ok), m)) /\ forked \subseteq forked' /\ (~ok => s.place \in forked')
    BY <2>2
  <2>4. t.ready /\ (ok => t.turn = LastTurn(s.place))
    BY <1>2, <1>3, <2>3 DEF Said, Continued, SessionFields
  <2> QED BY <1>0, <1>2, <2>1, <2>3, <2>4 DEF Continues, Began, Locked, t
<1>9. CASE BeginTurn(m) /\ UNCHANGED forked
  <2>1. t.turn = s.turn + 1 /\ t.ready = s.ready
    BY <1>2, <1>3, <1>9 DEF BeginTurn, SessionFields
  <2> QED BY <1>0, <1>2, <1>9, <2>1 DEF BeginTurn, At, Asks, t
<1>10. CASE StreamEnds(m) /\ UNCHANGED forked
  <2>1. t.turn = s.turn /\ t.ready = s.ready
    <3>1. t = Left([s EXCEPT !.history = Append(@, Assistant(m))], m)
      BY <1>2, <1>3, <1>10 DEF StreamEnds
    <3> QED BY <1>2, <1>6, <3>1 DEF SessionFields
  <2>2. calls'[m].pc = "left"
    BY <1>4, <1>10 DEF StreamEnds, CallFields
  <2> QED BY <1>0, <1>2, <1>10, <2>1, <2>2 DEF StreamEnds, At, Replies, t
<1>11. CASE (StreamRaises(m) \/ UnwindTurn(m)) /\ UNCHANGED forked
  <2>1. t.turn = s.turn /\ t.ready = s.ready
    <3>1. \E x \in {s, HandoffOver(s)} : t = Left(x, m)
      BY <1>2, <1>3, <1>11 DEF StreamRaises, UnwindTurn
    <3>2. DOMAIN HandoffOver(s) = SessionFields /\ HandoffOver(s).turn = s.turn /\ HandoffOver(s).ready = s.ready
      BY <1>2 DEF HandoffOver, SessionFields
    <3> QED BY <1>2, <1>6, <3>1, <3>2
  <2>2. calls'[m].pc = "left" /\ UNCHANGED archive
    <3>1. \E o : calls' = [calls EXCEPT ![m] = [@ EXCEPT !.pc = "left", !.outcome = o]]
      BY <1>11 DEF StreamRaises, UnwindTurn
    <3>2. UNCHANGED archive
      BY <1>11 DEF StreamRaises, UnwindTurn
    <3> QED BY <1>4, <3>1, <3>2 DEF CallFields
  <2> QED BY <1>0, <1>2, <1>11, <2>1, <2>2 DEF Keeps, InTurn, Began, t
<1>12. CASE (StartHandoff(m) \/ TargetEnds(m) \/ TargetCloses(m) \/ UnwindHandoff(m)) /\ UNCHANGED forked
  <2>1. t.turn = s.turn /\ t.ready = s.ready
    BY <1>2, <1>3, <1>12 DEF StartHandoff, TargetEnds, TargetCloses, UnwindHandoff, HandoffOver, SessionFields
  <2>2. InTurn(m) /\ Began(m) /\ UNCHANGED archive
    BY <1>12 DEF StartHandoff, TargetEnds, TargetCloses, UnwindHandoff, At, InTurn, Began
  <2> QED BY <1>0, <1>2, <1>12, <2>1, <2>2 DEF Keeps, t
<1> QED BY <1>7, <1>8, <1>9, <1>10, <1>11, <1>12 DEF TurnStep

(* The two entries of a turn.                                               *)
LEMMA QuestionAdded ==
  ASSUME NEW a \in Seq(Entry), NEW turn \in Int, UpTo(a, turn), Fresh(a), NEW m,
         NEW b, b = Append(a, [turn |-> turn + 1, role |-> "user", of |-> {m}])
  PROVE  UpTo(b, turn + 1) /\ OnlyAsks(b, turn + 1, m) /\ Fresh(b)
<1> DEFINE e == [turn |-> turn + 1, role |-> "user", of |-> {m}]
<1>1. Len(a) \in Nat /\ DOMAIN a = 1..Len(a) /\ DOMAIN b = 1..(Len(a) + 1) /\ b[Len(a) + 1] = e /\ \A j \in DOMAIN a : b[j] = a[j]
  OBVIOUS
<1>2. e.turn = turn + 1 /\ e.role = "user" /\ e.of = {m}
  OBVIOUS
<1>3. \A j \in DOMAIN a : a[j].turn \in Int /\ a[j].turn <= turn
  <2>1. \A j \in DOMAIN a : a[j] \in Entry
    BY <1>1
  <2> QED BY <2>1 DEF UpTo, Entry
<1> HIDE DEF e
<1>4. \A j \in DOMAIN b : (j \in DOMAIN a /\ b[j].turn = a[j].turn /\ b[j].turn < turn + 1) \/ (j = Len(a) + 1 /\ b[j] = e)
  BY <1>1, <1>3
<1>5. UpTo(b, turn + 1)
  BY <1>2, <1>3, <1>4 DEF UpTo
<1>6. OnlyAsks(b, turn + 1, m)
  BY <1>2, <1>3, <1>4 DEF OnlyAsks
<1>7. Fresh(b)
  <2> SUFFICES ASSUME NEW j \in DOMAIN b, NEW k \in DOMAIN b, j < k, b[j].turn = b[k].turn
               PROVE  b[j].role = "user" /\ b[k].role = "assistant" /\ b[j].of = b[k].of
    BY DEF Fresh
  <2>1. j \in DOMAIN a
    BY <1>1
  <2>2. k \in DOMAIN a
    BY <1>1, <1>2, <1>3, <1>4, <2>1
  <2> QED BY <1>1, <2>1, <2>2 DEF Fresh
<1> QED BY <1>5, <1>6, <1>7

LEMMA ReplyAdded ==
  ASSUME NEW a \in Seq(Entry), NEW turn \in Int, UpTo(a, turn), Fresh(a), NEW m, OnlyAsks(a, turn, m),
         NEW b, b = Append(a, [turn |-> turn, role |-> "assistant", of |-> {m}])
  PROVE  UpTo(b, turn) /\ Fresh(b)
<1> DEFINE e == [turn |-> turn, role |-> "assistant", of |-> {m}]
<1>1. Len(a) \in Nat /\ DOMAIN a = 1..Len(a) /\ DOMAIN b = 1..(Len(a) + 1) /\ b[Len(a) + 1] = e /\ \A j \in DOMAIN a : b[j] = a[j]
  OBVIOUS
<1>2. e.turn = turn /\ e.role = "assistant" /\ e.of = {m}
  OBVIOUS
<1> HIDE DEF e
<1>3. UpTo(b, turn)
  BY <1>1, <1>2 DEF UpTo
<1>4. Fresh(b)
  <2> SUFFICES ASSUME NEW j \in DOMAIN b, NEW k \in DOMAIN b, j < k, b[j].turn = b[k].turn
               PROVE  b[j].role = "user" /\ b[k].role = "assistant" /\ b[j].of = b[k].of
    BY DEF Fresh
  <2>1. j \in DOMAIN a /\ b[j] = a[j]
    BY <1>1
  <2>2. CASE k \in DOMAIN a
    BY <1>1, <2>1, <2>2 DEF Fresh
  <2>3. CASE k = Len(a) + 1
    BY <1>1, <1>2, <2>1, <2>3 DEF OnlyAsks
  <2> QED BY <1>1, <2>2, <2>3
<1> QED BY <1>3, <1>4

LEMMA NumbersMove ==
  ASSUME CallsOk, ApartInv, UseInv, NumbersInv, NEW m \in Messages, TurnStep(m), TurnFrame(m), UseGoes
  PROVE  NumbersInv'
<1>0. PICK k : k = calls[m].session
  OBVIOUS
<1> DEFINE s == sessions[k]
           t == sessions'[k]
           p == s.place
<1>1. /\ k \in DOMAIN sessions /\ Of(m) = s /\ calls[m].place = p /\ calls'[m].place = p /\ calls'[m].session = k
      /\ Of(m)' = t /\ t.place = p /\ InUse(k) /\ p \in Places
  BY <1>0 DEF ApartInv, TurnApart, SessionApart, TurnFrame, OneTurn, UseInv, Of
<1>2. \A j \in DOMAIN sessions' : InUse(j)' /\ sessions'[j].ready => InUse(j)
  BY DEF UseGoes
<1>3. DOMAIN sessions' = DOMAIN sessions /\ \A j \in DOMAIN sessions : j # k => sessions'[j] = sessions[j]
  BY <1>0 DEF TurnFrame
<1>4. forked \subseteq forked' /\ (Keeps(m, t) \/ Renews(m, t) \/ Continues(m, t) \/ Asks(m, t) \/ Replies(m, t))
  BY <1>0, TurnNumbers
<1>5. ASSUME NEW n \in Messages \ {m}
      PROVE  calls'[n] = calls[n] /\ (InTurn(n) => calls[n].session \in DOMAIN sessions /\ (calls[n].session # k => Of(n)' = Of(n)))
  BY <1>3 DEF TurnFrame, OneTurn, ApartInv, TurnApart, Of, InTurn, InSessionPcs, Locked
(* Who is in a turn of the same place holds the lock of the same Session.   *)
<1>6. ASSUME NEW n \in Messages \ {m}, InTurn(n), calls[m].pc \in Locked \/ s.queue[1] = m
      PROVE  calls[n].session # k /\ calls[n].place # p
  <2>1. calls[n].pc \in Locked /\ calls[n].session \in DOMAIN sessions /\ Of(n).place = calls[n].place /\ Of(n).queue[1] = n /\ InUse(calls[n].session)
    BY <1>6, HolderAlone DEF InTurn, Locked, UseInv, InSessionPcs
  <2>2. s.queue[1] = m
    BY <1>1, <1>6, HolderAlone
  <2> QED BY <1>1, <2>1, <2>2 DEF UseInv, Of
<1> HIDE DEF s, t, p
<1>7. /\ archive \in [Places -> Seq(Entry)] /\ s.turn \in Int
      /\ \A q \in Places \ {p} : archive'[q] = archive[q]
  <2>1. archive \in [Places -> Seq(Entry)] /\ s.turn \in Int
    BY <1>1 DEF ApartInv, SessionApart, ArchiveApart, s
  <2>2. UNCHANGED archive \/ \E e : Record(s, e)
    BY <1>1, <1>4 DEF Keeps, Renews, Continues, Asks, Replies
  <2> QED BY <2>1, <2>2 DEF Record, p
<1>8. UNCHANGED archive \/ Asks(m, t) \/ Replies(m, t)
  BY <1>4 DEF Keeps, Renews, Continues
<1>9. s.ready /\ p \notin forked => UpTo(archive[p], s.turn)
  BY <1>1 DEF NumbersInv, s, p
<1>10. p \notin forked => Fresh(archive[p])
  BY <1>1 DEF NumbersInv
<1>11. Asks(m, t) /\ p \notin forked => UpTo(archive'[p], t.turn) /\ OnlyAsks(archive'[p], t.turn, m) /\ Fresh(archive'[p])
  <2> SUFFICES ASSUME Asks(m, t), p \notin forked
               PROVE  UpTo(archive'[p], t.turn) /\ OnlyAsks(archive'[p], t.turn, m) /\ Fresh(archive'[p])
    OBVIOUS
  <2>1. s.ready /\ t.turn = s.turn + 1
    BY <1>1 DEF Asks, NumbersInv, InTurn
  <2>2. archive'[p] = Append(archive[p], [turn |-> s.turn + 1, role |-> "user", of |-> {m}])
    BY <1>1, <1>7, <2>1 DEF Asks, Record, p
  <2>3. archive[p] \in Seq(Entry)
    BY <1>1, <1>7
  <2> QED BY <1>7, <1>9, <1>10, <2>1, <2>2, <2>3, QuestionAdded
<1>12. Replies(m, t) /\ p \notin forked => UpTo(archive'[p], t.turn) /\ Fresh(archive'[p])
  <2> SUFFICES ASSUME Replies(m, t), p \notin forked
               PROVE  UpTo(archive'[p], t.turn) /\ Fresh(archive'[p])
    OBVIOUS
  <2>1. s.ready /\ t.turn = s.turn /\ OnlyAsks(archive[p], s.turn, m)
    BY <1>1 DEF Replies, NumbersInv, InTurn, Began
  <2>2. archive'[p] = Append(archive[p], [turn |-> s.turn, role |-> "assistant", of |-> {m}])
    BY <1>1, <1>7, <2>1 DEF Replies, Record, p
  <2>3. archive[p] \in Seq(Entry)
    BY <1>1, <1>7
  <2> QED BY <1>7, <1>9, <1>10, <2>1, <2>2, <2>3, ReplyAdded
<1>13. t.ready /\ p \notin forked' => UpTo(archive'[p], t.turn)
  <2>1. CASE Keeps(m, t)
    BY <1>1, <1>4, <1>9, <2>1 DEF Keeps
  <2>2. CASE Continues(m, t)
    BY <1>1, <2>2, NewestTurn DEF Continues, UpTo, ApartInv, p
  <2> QED BY <1>4, <1>11, <1>12, <2>1, <2>2 DEF Renews
<1>14. ASSUME NEW j \in DOMAIN sessions', InUse(j)', sessions'[j].ready, sessions'[j].place \notin forked'
       PROVE  UpTo(archive'[sessions'[j].place], sessions'[j].turn)
  <2>1. CASE j = k
    BY <1>1, <1>13, <1>14, <2>1 DEF t
  <2>2. CASE j # k
    <3>1. j \in DOMAIN sessions /\ sessions'[j] = sessions[j] /\ InUse(j) /\ sessions[j].place \in Places
      BY <1>2, <1>3, <1>14, <2>2 DEF ApartInv, SessionApart
    <3>2. sessions[j].place # p
      BY <1>1, <2>2, <3>1 DEF UseInv, s, p
    <3> QED BY <1>4, <1>7, <1>14, <3>1, <3>2 DEF NumbersInv
  <2> QED BY <2>1, <2>2
<1>15. ASSUME NEW n \in Messages, n # m, InTurn(n)'
       PROVE  /\ InTurn(n) /\ calls'[n] = calls[n] /\ Of(n)'.ready = Of(n).ready /\ Of(n)'.turn = Of(n).turn
              /\ Keeps(m, t) \/ calls[n].place # p
  <2>1. InTurn(n) /\ calls'[n] = calls[n]
    BY <1>5, <1>15 DEF InTurn
  <2>2. CASE Keeps(m, t)
    <3>1. CASE calls[n].session = k
      BY <1>1, <2>1, <2>2, <3>1 DEF Keeps, Of, s, t
    <3> QED BY <1>5, <1>15, <2>1, <2>2, <3>1
  <2>3. CASE ~Keeps(m, t)
    <3>1. calls[m].pc \in Locked \/ s.queue[1] = m
      BY <1>1, <1>4, <2>3 DEF Renews, Continues, Asks, Replies, Locked
    <3> QED BY <1>5, <1>6, <1>15, <2>1, <3>1
  <2> QED BY <2>2, <2>3
<1>16. ASSUME NEW n \in Messages, InTurn(n)'
       PROVE  Of(n)'.ready
  <2>1. CASE n = m
    BY <1>1, <1>4, <1>16, <2>1 DEF Keeps, Renews, Continues, Asks, Replies, InTurn, NumbersInv
  <2>2. CASE n # m
    BY <1>15, <1>16, <2>2 DEF NumbersInv
  <2> QED BY <2>1, <2>2
<1>17. ASSUME NEW n \in Messages, Began(n)', calls'[n].place \notin forked'
       PROVE  OnlyAsks(archive'[calls'[n].place], Of(n)'.turn, n)
  <2>1. CASE n = m
    <3>1. CASE Keeps(m, t)
      BY <1>1, <1>4, <1>17, <2>1, <3>1 DEF Keeps, NumbersInv
    <3>2. CASE Asks(m, t)
      BY <1>1, <1>4, <1>11, <1>17, <2>1, <3>2
    <3>3. ~Renews(m, t) /\ ~Continues(m, t) /\ ~Replies(m, t)
      BY <1>17, <2>1 DEF Renews, Continues, Replies, Began, InTurn
    <3> QED BY <1>4, <3>1, <3>2, <3>3
  <2>2. CASE n # m
    <3>1. InTurn(n)'
      BY <1>17 DEF Began, InTurn
    <3>2. /\ InTurn(n) /\ calls'[n] = calls[n] /\ Of(n)'.turn = Of(n).turn
          /\ Keeps(m, t) \/ calls[n].place # p
      BY <1>15, <2>2, <3>1
    <3>3. Began(n) /\ calls[n].place \notin forked
      BY <1>4, <1>17, <3>2 DEF Began
    <3>4. calls[n].place \in Places
      BY <3>2 DEF ApartInv, HasPlace, InTurn
    <3>5. archive'[calls[n].place] = archive[calls[n].place]
      BY <1>7, <3>2, <3>4 DEF Keeps
    <3> QED BY <3>2, <3>3, <3>5 DEF NumbersInv
  <2> QED BY <2>1, <2>2
<1>18. ASSUME NEW q \in Places \ forked'
       PROVE  Fresh(archive'[q])
  <2>1. CASE q = p
    BY <1>4, <1>8, <1>10, <1>11, <1>12, <1>18, <2>1
  <2>2. CASE q # p
    BY <1>4, <1>7, <1>18, <2>2 DEF NumbersInv
  <2> QED BY <2>1, <2>2
<1> QED BY <1>14, <1>16, <1>17, <1>18 DEF NumbersInv, UpTo, OnlyAsks, Fresh

(* Zulip: a turn is in the Session its topic owns, which is opened by one   *)
(* message at a time; and a stop that left a message on its way found that  *)
(* Session.                                                                 *)
Standing(n) == Alive(n) /\ calls[n].kind # "stop" /\ ~calls[n].cancelled
Opens(n) == Opening(n) /\ ~calls[n].cancelled
ZulipUse ==
  /\ \A m \in Messages : calls[m].pc \in InSessionPcs => calls[m].session = owned[calls[m].place]
  /\ \A m \in Messages : Opens(m) =>
       owned[calls[m].place] = 0 /\ \A n \in Messages : Opens(n) /\ calls[n].place = calls[m].place => n = m
  /\ \A n, s \in Messages :
       n < s /\ Standing(n) /\ calls[s].shown = "stopped" /\ calls[s].place = calls[n].place => owned[calls[n].place] # 0

UseKept(n) ==
  /\ calls'[n].pc \in InSessionPcs =>
       \/ calls[n].pc \in InSessionPcs /\ calls'[n].session = calls[n].session /\ calls'[n].place = calls[n].place
       \/ calls'[n].session = owned[calls'[n].place]
  /\ Opens(n)' => Opens(n) /\ calls'[n].place = calls[n].place
  /\ Standing(n)' =>
       \/ Standing(n) /\ calls'[n].place = calls[n].place
       \/ owned[calls'[n].place] # 0
       \/ \A s \in Messages : n < s => calls'[s].shown # "stopped"
  /\ calls'[n].shown = "stopped" =>
       \/ calls[n].shown = "stopped" /\ calls'[n].place = calls[n].place
       \/ \A l \in Messages : Standing(l)' /\ calls'[l].place = calls'[n].place => owned[calls'[n].place] # 0

LEMMA UseSame ==
  ASSUME NEW n \in Messages, calls'[n] = calls[n]
  PROVE  UseKept(n)
BY DEF UseKept, Opens, Opening, Standing, Alive

LEMMA UseStays ==
  ASSUME ZulipUse, UNCHANGED owned, \A n \in Messages : UseKept(n)
  PROVE  ZulipUse'
<1>1. ASSUME NEW m \in Messages, calls'[m].pc \in InSessionPcs
      PROVE  calls'[m].session = owned'[calls'[m].place]
  BY <1>1 DEF ZulipUse, UseKept
<1>2. ASSUME NEW m \in Messages, Opens(m)'
      PROVE  owned'[calls'[m].place] = 0 /\ \A n \in Messages : Opens(n)' /\ calls'[n].place = calls'[m].place => n = m
  BY <1>2 DEF ZulipUse, UseKept
<1>3. ASSUME NEW n \in Messages, NEW s \in Messages, n < s, Standing(n)', calls'[s].shown = "stopped", calls'[s].place = calls'[n].place
      PROVE  owned'[calls'[n].place] # 0
  <2>1. UseKept(n) /\ UseKept(s)
    OBVIOUS
  <2>2. CASE calls[s].shown = "stopped" /\ calls'[s].place = calls[s].place
    BY <1>3, <2>1, <2>2 DEF ZulipUse, UseKept
  <2>3. CASE \A l \in Messages : Standing(l)' /\ calls'[l].place = calls'[s].place => owned[calls'[s].place] # 0
    BY <1>3, <2>3
  <2> QED BY <1>3, <2>1, <2>2, <2>3 DEF UseKept
<1> QED BY <1>1, <1>2, <1>3 DEF ZulipUse

LEMMA UseEnds ==
  ASSUME \A n \in Messages : ~Alive(n)'
  PROVE  ZulipUse'
BY DEF ZulipUse, Standing, Opens, Opening, Alive, InSessionPcs, Locked

(* One call changes: what its new state has to keep.                        *)
LEMMA UseOne ==
  ASSUME CallsOk, ZulipUse, UNCHANGED owned, NEW m \in Messages, NEW c, calls' = [calls EXCEPT ![m] = c],
         c.pc \in InSessionPcs => \/ calls[m].pc \in InSessionPcs /\ c.session = calls[m].session /\ c.place = calls[m].place
                                  \/ c.session = owned[c.place],
         c.pc \in {"restoring", "probing"} => Opens(m) /\ c.place = calls[m].place,
         c.pc \in {"unsent", "unread", "lost", "done"} \/ owned[c.place] # 0
           \/ (Standing(m) /\ c.place = calls[m].place) \/ c.cancelled,
         c.shown = "stopped" => calls[m].shown = "stopped" /\ c.place = calls[m].place
  PROVE  ZulipUse'
<1>1. calls'[m] = c /\ \A n \in Messages \ {m} : calls'[n] = calls[n]
  BY OneCall
<1>2. UseKept(m)
  BY <1>1 DEF UseKept, Opens, Opening, Standing, Alive
<1> QED BY <1>1, <1>2, UseSame, UseStays

(* A task that stays, but for its step, what it was.                        *)
LEMMA UseGoto ==
  ASSUME CallsOk, ZulipUse, UNCHANGED owned, NEW m \in Messages, NEW pc, Goto(m, pc), At(m, calls[m].pc),
         pc \notin InSessionPcs, Alive(m), calls[m].kind # "stop", pc \in {"restoring", "probing"} => Opening(m)
  PROVE  ZulipUse'
<1> DEFINE c == [calls[m] EXCEPT !.pc = pc]
<1>1. calls' = [calls EXCEPT ![m] = c] /\ c.pc = pc /\ c.place = calls[m].place /\ c.shown = calls[m].shown
  BY DEF Goto, CallsOk, CallOk, CallFields
<1> HIDE DEF c
<1>2. Standing(m) /\ (Opening(m) => Opens(m))
  BY DEF At, Standing, Opens
<1> QED BY <1>1, <1>2, UseOne

LEMMA UseFinish ==
  ASSUME CallsOk, ZulipUse, UNCHANGED owned, NEW m \in Messages, NEW c, calls' = [calls EXCEPT ![m] = Finish(c)],
         c.place = calls[m].place, c.shown = calls[m].shown
  PROVE  ZulipUse'
<1>1. Finish(c).pc = "done" /\ Finish(c).place = c.place /\ Finish(c).shown = c.shown
  BY FinishFields
<1> QED BY <1>1, UseOne DEF InSessionPcs, Locked

OwnedGo == \A t \in Places : owned'[t] \in DOMAIN sessions' /\ sessions'[owned'[t]].ready => owned'[t] = owned[t]

(* A Session of a topic that has none: its turns are yet to come.           *)
LEMMA UseAdopts ==
  ASSUME CallsOk, ApartInv, ZulipApart, ZulipUse, NEW m \in Messages, Opens(m), NEW s, DOMAIN s = SessionFields, ~s.ready, Adopt(m, s)
  PROVE  ZulipUse' /\ OwnedGo
<1> DEFINE p == calls[m].place
           k == calls[m].session
           c == [calls[m] EXCEPT !.pc = "syncing"]
<1>1. k \in DOMAIN sessions /\ p \in Places /\ DOMAIN owned = Places /\ owned[p] = 0 /\ 0 \notin DOMAIN sessions
  BY DEF ZulipApart, OpeningApart, OwnedApart, ZulipUse, ApartInv, SessionApart, Of, Opens
<1>2. owned' = [owned EXCEPT ![p] = k] /\ calls' = [calls EXCEPT ![m] = c] /\ sessions' = [sessions EXCEPT ![k] = SetRunContext(s)]
  BY DEF Adopt, Goto, Set
<1>3. c.pc = "syncing" /\ c.place = p /\ c.shown = calls[m].shown /\ c.kind = calls[m].kind
  BY DEF CallsOk, CallOk, CallFields
<1> HIDE DEF c
<1>4. calls'[m] = c /\ \A n \in Messages \ {m} : calls'[n] = calls[n]
  BY <1>2, OneCall
<1>5. k # 0 /\ \A t \in Places : owned'[t] = IF t = p THEN k ELSE owned[t]
  BY <1>1, <1>2
<1> HIDE DEF p, k
<1>6. ASSUME NEW n \in Messages, calls'[n].pc \in InSessionPcs
      PROVE  calls'[n].session = owned'[calls'[n].place]
  <2>1. n # m /\ calls'[n] = calls[n] /\ calls[n].pc \in InSessionPcs
    BY <1>3, <1>4, <1>6 DEF InSessionPcs, Locked
  <2>2. calls[n].session = owned[calls[n].place] /\ calls[n].session \in DOMAIN sessions /\ calls[n].place \in Places
    BY <2>1 DEF ZulipUse, ApartInv, TurnApart, HasPlace, InSessionPcs, Locked
  <2> QED BY <1>1, <1>5, <2>1, <2>2
<1>7. ASSUME NEW n \in Messages, Opens(n)'
      PROVE  n # m /\ Opens(n) /\ calls'[n] = calls[n] /\ calls[n].place \in Places \ {p}
  <2>1. n # m /\ calls'[n] = calls[n]
    BY <1>3, <1>4, <1>7 DEF Opens, Opening
  <2>2. Opens(n)
    BY <1>7, <2>1 DEF Opens, Opening
  <2>3. calls[n].place # p /\ calls[n].place \in Places
    BY <2>1, <2>2 DEF ZulipUse, p, Opens, Opening, ApartInv, HasPlace
  <2> QED BY <2>1, <2>2, <2>3
<1>8. ASSUME NEW n \in Messages, NEW l \in Messages, n < l, Standing(n)', calls'[l].shown = "stopped", calls'[l].place = calls'[n].place
      PROVE  owned'[calls'[n].place] # 0
  <2>1. Standing(n) /\ calls'[n].place = calls[n].place /\ calls[n].place \in Places
    <3>1. calls'[n].place = calls[n].place /\ Standing(n)
      BY <1>3, <1>4, <1>8 DEF Standing, Alive, Opens, Opening, StopInv, p
    <3> QED BY <3>1 DEF ApartInv, HasPlace, Standing, Alive
  <2>2. calls[l].shown = "stopped" /\ calls[l].place = calls[n].place
    BY <1>3, <1>4, <1>8, <2>1 DEF p
  <2> QED BY <1>5, <1>8, <2>1, <2>2 DEF ZulipUse
<1>9. ZulipUse'
  <2>1. ASSUME NEW n \in Messages, Opens(n)'
        PROVE  owned'[calls'[n].place] = 0
    BY <1>5, <1>7, <2>1 DEF ZulipUse
  <2>2. ASSUME NEW n \in Messages, Opens(n)', NEW l \in Messages, Opens(l)', calls'[l].place = calls'[n].place
        PROVE  l = n
    BY <1>7, <2>2 DEF ZulipUse
  <2> QED BY <1>6, <1>8, <2>1, <2>2 DEF ZulipUse
<1>10. ~sessions'[k].ready
  <2>1. sessions'[k] = SetRunContext(s)
    BY <1>1, <1>2
  <2> QED BY <2>1 DEF SetRunContext, SessionFields
<1> QED BY <1>5, <1>9, <1>10 DEF OwnedGo

(* A topic without a Session: its next message is the only one to open one. *)
LEMMA UseOpens ==
  ASSUME CallsOk, ApartInv, OrderInv, ZulipUse, NEW m \in Messages, At(m, "queued"), calls[m].kind # "stop",
         calls[m].prev # 0 => ~Alive(calls[m].prev), owned[calls[m].place] = 0,
         NEW k, calls' = [calls EXCEPT ![m] = [@ EXCEPT !.pc = "restoring", !.session = k]], UNCHANGED owned
  PROVE  ZulipUse'
<1> DEFINE c == [calls[m] EXCEPT !.pc = "restoring", !.session = k]
           p == calls[m].place
<1>1. calls' = [calls EXCEPT ![m] = c] /\ c.pc = "restoring" /\ c.place = p /\ c.shown = calls[m].shown
  BY DEF CallsOk, CallOk, CallFields
<1> HIDE DEF c
<1>2. calls'[m] = c /\ \A n \in Messages \ {m} : calls'[n] = calls[n]
  BY <1>1, OneCall
<1>3. Standing(m) /\ Live(m) /\ Free(m)
  BY DEF Standing, At, Alive, Live, Doomed, Free
<1>4. ASSUME NEW n \in Messages, NEW l \in Messages, n < l, Standing(n), calls[n].place = p, calls[l].place = p
      PROVE  ~StoppedBetween(p, n, l)
  <2> SUFFICES ASSUME StoppedBetween(p, n, l) PROVE FALSE
    OBVIOUS
  <2>1. PICK s \in (n + 1)..(l - 1) : calls[s].place = p /\ calls[s].shown = "stopped"
    BY DEF StoppedBetween
  <2>2. s \in Messages /\ n < s
    BY <2>1, SessionAssumption DEF Messages
  <2> QED BY <1>4, <2>1, <2>2 DEF ZulipUse
<1>5. ASSUME NEW n \in Messages, Opens(n), calls[n].place = p
      PROVE  FALSE
  <2>1. n # m /\ Alive(n) /\ calls[n].pc # "queued" /\ Live(n) /\ Standing(n)
    BY <1>5 DEF Opens, Opening, At, Alive, Live, Doomed, Standing, OrderInv, StopInv
  <2>2. CASE n < m
    <3>1. Ahead(n, m)
      BY <1>4, <1>5, <2>1, <2>2 DEF Ahead
    <3> QED BY <1>3, <3>1, FreeIsFirst
  <2>3. CASE m < n
    <3>1. Ahead(m, n)
      BY <1>3, <1>4, <1>5, <2>3 DEF Ahead
    <3> QED BY <2>1, <3>1 DEF OrderInv, ChainInv, Waits
  <2> QED BY <2>1, <2>2, <2>3 DEF Messages
<1>6. ASSUME NEW n \in Messages, calls'[n].pc \in InSessionPcs
      PROVE  calls'[n].session = owned'[calls'[n].place]
  BY <1>1, <1>2, <1>6 DEF ZulipUse, InSessionPcs, Locked
<1>7. ASSUME NEW n \in Messages, Opens(n)'
      PROVE  owned'[calls'[n].place] = 0
  BY <1>1, <1>2, <1>7 DEF ZulipUse, Opens, Opening
<1>8. ASSUME NEW n \in Messages, NEW l \in Messages, Opens(n)', Opens(l)', calls'[l].place = calls'[n].place
      PROVE  l = n
  <2>1. \A x \in Messages \ {m} : Opens(x)' => Opens(x) /\ calls'[x].place = calls[x].place
    BY <1>2 DEF Opens, Opening
  <2> QED BY <1>1, <1>2, <1>5, <1>8, <2>1 DEF ZulipUse
<1>9. ASSUME NEW n \in Messages, NEW s \in Messages, n < s, Standing(n)', calls'[s].shown = "stopped", calls'[s].place = calls'[n].place
      PROVE  owned'[calls'[n].place] # 0
  <2>1. Standing(n) /\ calls'[n].place = calls[n].place
    BY <1>1, <1>2, <1>3, <1>9 DEF Standing, Alive
  <2>2. calls[s].shown = "stopped" /\ calls[s].place = calls[n].place
    BY <1>1, <1>2, <1>9, <2>1
  <2> QED BY <1>9, <2>1, <2>2 DEF ZulipUse
<1> QED BY <1>6, <1>7, <1>8, <1>9 DEF ZulipUse

LEMMA OwnedStays ==
  ASSUME UNCHANGED owned
  PROVE  OwnedGo
BY DEF OwnedGo

LEMMA ZulipTaskUse ==
  ASSUME CallsOk, ApartInv, ZulipApart, OrderInv, ZulipUse, interface = "zulip", NEW m \in Messages, ZulipTask(m)
  PROVE  ZulipUse' /\ OwnedGo
<1> DEFINE p == calls[m].place
<1>1. \A pc : LET c == [calls[m] EXCEPT !.pc = pc]
              IN  c.pc = pc /\ c.session = calls[m].session /\ c.place = p /\ c.shown = calls[m].shown
  BY DEF CallsOk, CallOk, CallFields
<1>2. calls[m].pc \notin {"unread", "queued", "lost"} => calls[m].kind # "stop"
  BY DEF OrderInv, StopInv
<1>3. ASSUME Ends(m), UNCHANGED owned
      PROVE  ZulipUse' /\ OwnedGo
  BY <1>3, UseFinish, OwnedStays DEF Ends
<1>4. CASE Handle(m)
  <2>1. At(m, "queued") /\ calls[m].pc = "queued" /\ calls[m].kind # "stop" /\ Alive(m) /\ UNCHANGED owned
        /\ (calls[m].prev # 0 => ~Alive(calls[m].prev))
    BY <1>4 DEF Handle, At, Alive
  <2>2. CASE Goto(m, "syncing")
    <3>1. "syncing" \notin InSessionPcs
      BY DEF InSessionPcs, Locked
    <3> QED BY <2>1, <2>2, <3>1, UseGoto, OwnedStays
  <2>3. CASE owned[p] = 0 /\ calls' = [calls EXCEPT ![m] = [@ EXCEPT !.pc = "restoring", !.session = Len(sessions) + 1]]
    BY <2>1, <2>3, UseOpens, OwnedStays
  <2> QED BY <1>3, <1>4, <2>1, <2>2, <2>3 DEF Handle
<1>5. Opening(m) => calls[m].session \in DOMAIN sessions /\ Of(m) = sessions[calls[m].session] /\ Of(m).queue = <<>> /\ ~Of(m).ready
                    /\ DOMAIN Of(m) = SessionFields
  BY DEF ZulipApart, OpeningApart, Of, ApartInv, SessionApart
<1>6. CASE Restore(m)
  <2>1. Opening(m) /\ Opens(m) /\ Alive(m) /\ At(m, calls[m].pc) /\ calls[m].kind # "stop"
    BY <1>2, <1>6 DEF Restore, Opening, Opens, At, Alive
  <2>2. ASSUME NEW ok, Adopt(m, Restored(Of(m), ok))
        PROVE  ZulipUse' /\ OwnedGo
    <3>1. SameTalk(Of(m), Restored(Of(m), ok))
      BY <1>5, <2>1, RestoredTalk
    <3>2. DOMAIN Restored(Of(m), ok) = SessionFields /\ ~Restored(Of(m), ok).ready
      BY <1>5, <2>1, <3>1 DEF SameTalk
    <3> QED BY <2>1, <2>2, <3>2, UseAdopts
  <2>3. CASE Goto(m, "probing") /\ UNCHANGED owned
    <3>1. "probing" \notin InSessionPcs
      BY DEF InSessionPcs, Locked
    <3> QED BY <2>1, <2>3, <3>1, UseGoto, OwnedStays
  <2> QED BY <1>6, <2>2, <2>3 DEF Restore
<1>7. CASE Probe(m)
  <2>1. Opens(m) /\ Opening(m)
    BY <1>7 DEF Probe, Opening, Opens, At
  <2>2. CASE Adopt(m, Of(m))
    BY <1>5, <2>1, <2>2, UseAdopts
  <2> QED BY <1>3, <1>7, <2>2 DEF Probe
<1>8. CASE Sync(m)
  <2>1. Heading(m) /\ UNCHANGED owned /\ owned[p] # 0
    BY <1>8 DEF Sync, SyncNow, SyncStops, SyncStopped, At, Heading, zulipVars, ZulipApart
  <2>2. \E c : calls' = [calls EXCEPT ![m] = c] /\ c.pc \in {"placing", "stopping"} /\ c.place = p /\ c.shown = calls[m].shown
    <3>1. ASSUME NEW pc \in {"placing", "stopping"}, calls' = [calls EXCEPT ![m].pc = pc]
          PROVE  \E c : calls' = [calls EXCEPT ![m] = c] /\ c.pc \in {"placing", "stopping"} /\ c.place = p /\ c.shown = calls[m].shown
      <4> DEFINE c == [calls[m] EXCEPT !.pc = pc]
      <4>1. calls' = [calls EXCEPT ![m] = c] /\ c.pc = pc /\ c.place = p /\ c.shown = calls[m].shown
        BY <1>1, <3>1
      <4> HIDE DEF c
      <4> QED BY <4>1
    <3>2. ASSUME calls' = [calls EXCEPT ![m] = [@ EXCEPT !.pc = "placing", !.cancelled = FALSE]]
          PROVE  \E c : calls' = [calls EXCEPT ![m] = c] /\ c.pc \in {"placing", "stopping"} /\ c.place = p /\ c.shown = calls[m].shown
      <4> DEFINE c == [calls[m] EXCEPT !.pc = "placing", !.cancelled = FALSE]
      <4>1. calls' = [calls EXCEPT ![m] = c] /\ c.pc = "placing" /\ c.place = p /\ c.shown = calls[m].shown
        BY <3>2 DEF CallsOk, CallOk, CallFields
      <4> HIDE DEF c
      <4> QED BY <4>1
    <3>3. \/ \E pc \in {"placing", "stopping"} : calls' = [calls EXCEPT ![m].pc = pc]
          \/ calls' = [calls EXCEPT ![m] = [@ EXCEPT !.pc = "placing", !.cancelled = FALSE]]
      BY <1>8 DEF Sync, SyncNow, SyncStops, SyncStopped, Goto
    <3> QED BY <3>1, <3>2, <3>3
  <2> QED BY <2>1, <2>2, UseOne, OwnedStays DEF InSessionPcs, Locked
<1>9. CASE Place(m)
  <2>1. calls[m].pc = "placing" /\ UNCHANGED owned
    BY <1>9 DEF Place, At
  <2>2. owned[p] # 0
    BY <2>1 DEF ZulipApart, Heading
  <2>3. PICK shown \in {"thinking", "nothing"} : calls' = [calls EXCEPT ![m] = [@ EXCEPT !.pc = "waiting", !.session = owned[p], !.shown = shown]]
    BY <1>9 DEF Place
  <2> DEFINE c == [calls[m] EXCEPT !.pc = "waiting", !.session = owned[p], !.shown = shown]
  <2>4. calls' = [calls EXCEPT ![m] = c] /\ c.pc = "waiting" /\ c.session = owned[p] /\ c.place = p /\ c.shown # "stopped"
    BY <2>3 DEF CallsOk, CallOk, CallFields
  <2> HIDE DEF c
  <2> QED BY <2>1, <2>2, <2>4, UseOne, OwnedStays
<1>10. CASE Turn(m)
  <2>1. TurnStep(m) /\ UNCHANGED owned
    BY <1>10 DEF Turn, zulipVars
  <2>2. TurnFrame(m) /\ GoesOn(m) /\ calls'[m].shown = calls[m].shown
    BY <2>1, TurnApartStep, TurnGoesOn
  <2>3. UseKept(m)
    <3>1. calls[m].pc \in InSessionPcs /\ calls'[m].session = calls[m].session /\ calls'[m].place = p /\ calls'[m].pc \in InSessionPcs \cup {"left"}
          /\ calls[m].session \in DOMAIN sessions
      BY <2>2 DEF TurnFrame, OneTurn
    <3>2. owned[p] # 0
      <4>1. 0 \notin DOMAIN sessions
        BY DEF ApartInv
      <4> QED BY <3>1, <4>1 DEF ZulipUse
    <3>3. ~Opens(m)'
      BY <3>1 DEF Opens, Opening, InSessionPcs, Locked
    <3> QED BY <2>2, <3>1, <3>2, <3>3 DEF UseKept
  <2>4. \A n \in Messages : UseKept(n)
    BY <2>2, <2>3, UseSame DEF TurnFrame, OneTurn
  <2> QED BY <2>1, <2>4, UseStays, OwnedStays
<1>11. CASE Delta(m)
  <2> DEFINE c == [calls[m] EXCEPT !.edit = TRUE]
  <2>1. calls' = [calls EXCEPT ![m] = c] /\ UNCHANGED owned /\ At(m, "streaming") /\ c.pc = "streaming" /\ c.session = calls[m].session
        /\ c.place = p /\ c.shown = calls[m].shown
    BY <1>11 DEF Delta, At, zulipVars, CallsOk, CallOk, CallFields
  <2> HIDE DEF c
  <2>2. Standing(m) /\ calls[m].pc \in InSessionPcs
    BY <1>2, <2>1 DEF Standing, Alive, At, InSessionPcs, Locked
  <2> QED BY <2>1, <2>2, UseOne, OwnedStays
<1>12. CASE Settle(m)
  <2> DEFINE d == EditDropped(calls[m])
  <2>1. d.place = p /\ d.shown = calls[m].shown /\ DOMAIN d = CallFields
    BY DEF EditDropped, CallsOk, CallOk, CallFields
  <2>2. calls[m].pc = "left" /\ UNCHANGED owned
    BY <1>12 DEF Settle
  <2>3. CASE calls[m].cancelled
    <3>1. calls' = [calls EXCEPT ![m] = Finish(d)]
      BY <1>12, <2>3 DEF Settle
    <3> HIDE DEF d
    <3> QED BY <2>1, <2>2, <3>1, UseFinish, OwnedStays
  <2>4. CASE ~calls[m].cancelled
    <3> DEFINE c == [d EXCEPT !.pc = "delivering"]
    <3>1. calls' = [calls EXCEPT ![m] = c]
      BY <1>12, <2>4 DEF Settle
    <3>2. Standing(m)
      BY <1>2, <2>2, <2>4 DEF Standing, Alive
    <3> HIDE DEF d
    <3>3. c.pc = "delivering" /\ c.place = p /\ c.shown = calls[m].shown
      BY <2>1 DEF CallFields
    <3> HIDE DEF c
    <3> QED BY <2>2, <3>1, <3>2, <3>3, UseOne, OwnedStays DEF InSessionPcs, Locked
  <2> QED BY <2>3, <2>4
<1>13. CASE Deliver(m)
  <2> DEFINE d == Finish(calls[m])
             c == [d EXCEPT !.shown = calls[m].outcome]
  <2>1. calls' = [calls EXCEPT ![m] = c] /\ UNCHANGED owned
    BY <1>13 DEF Deliver
  <2>2. d.pc = "done" /\ DOMAIN d = CallFields
    BY DEF Finish, Ended, NoCall, CallFields
  <2>3. calls[m].outcome # "stopped"
    BY DEF CallsOk, CallOk
  <2> HIDE DEF d
  <2>4. c.pc = "done" /\ c.shown # "stopped"
    BY <2>2, <2>3 DEF CallFields
  <2> HIDE DEF c
  <2> QED BY <2>1, <2>4, UseOne, OwnedStays DEF InSessionPcs, Locked
<1>14. CASE Unwind(m)
  BY <1>3, <1>14 DEF Unwind
<1>15. CASE StopTopic(m)
  <2>1. UNCHANGED owned /\ Stopping(m) /\ m \notin TasksOf(p)
    BY <1>15 DEF StopTopic, Stopping, TasksOf
  <2>2. \A c : Replied(c).pc = "done" /\ Replied(c).place = c.place
    BY DEF Replied, Finish, Ended, NoCall
  <2>3. ASSUME calls'[m].pc = "done", calls'[m].place = p, \A n \in Messages \ {m} : UseKept(n),
               \A l \in Messages \ {m} : Standing(l)' /\ calls'[l].place = p => owned[p] # 0
        PROVE  ZulipUse' /\ OwnedGo
    <3>1. UseKept(m)
      BY <2>3 DEF UseKept, Standing, Alive, Opens, Opening, InSessionPcs, Locked
    <3> QED BY <2>1, <2>3, <3>1, UseStays, OwnedStays
  <2>4. CASE owned[p] # 0 /\ calls' = [calls EXCEPT ![m] = Replied(calls[m])]
    <3>1. calls'[m] = Replied(calls[m]) /\ \A n \in Messages \ {m} : calls'[n] = calls[n]
      BY <2>4, OneCall
    <3> QED BY <2>2, <2>3, <2>4, <3>1, UseSame
  <2>5. CASE calls' = [Cancel(TasksOf(p)) EXCEPT ![m] = Replied(Cancel(TasksOf(p))[m])]
    <3> DEFINE d == Cancel(TasksOf(p))
    <3>1. /\ DOMAIN d = Messages
          /\ \A n \in Messages : /\ SameCall(calls[n], d[n]) /\ d[n].kind = calls[n].kind /\ d[n].shown = calls[n].shown
                                 /\ (d[n].cancelled <=> calls[n].cancelled \/ n \in TasksOf(p))
      BY DEF Cancel, SameCall, CallsOk, CallOk, CallFields
    <3>2. calls' = [d EXCEPT ![m] = Replied(d[m])]
      BY <2>5
    <3> HIDE DEF d
    <3>3. calls'[m] = Replied(d[m]) /\ \A n \in Messages \ {m} : calls'[n] = d[n]
      BY <3>1, <3>2
    <3>4. ASSUME NEW n \in Messages \ {m}
          PROVE  UseKept(n)
      BY <3>1, <3>3 DEF UseKept, Standing, Alive, Opens, Opening, SameCall
    <3>5. ASSUME NEW l \in Messages \ {m}, Standing(l)', calls'[l].place = p
          PROVE  owned[p] # 0
      BY <3>1, <3>3, <3>5 DEF Standing, Alive, TasksOf, SameCall
    <3>6. calls'[m].pc = "done" /\ calls'[m].place = p
      BY <2>2, <3>1, <3>3 DEF SameCall
    <3> QED BY <2>3, <3>4, <3>5, <3>6
  <2> QED BY <1>15, <2>4, <2>5 DEF StopTopic
<1> QED BY <1>4, <1>6, <1>7, <1>8, <1>9, <1>10, <1>11, <1>12, <1>13, <1>14, <1>15 DEF ZulipTask

LEMMA ZulipNextUse ==
  ASSUME CallsOk, ApartInv, ZulipApart, OrderInv, ZulipUse, interface = "zulip", ZulipNext
  PROVE  ZulipUse' /\ OwnedGo
<1>1. ASSUME \A n \in Messages : UseKept(n), UNCHANGED owned
      PROVE  ZulipUse' /\ OwnedGo
  BY <1>1, UseStays, OwnedStays
<1>2. CASE UserWrites
  <2> DEFINE m == Min(Unsent)
  <2>1. m \in Messages /\ calls[m].pc = "unsent"
    BY <1>2, NextToCome DEF UserWrites, NextMessage
  <2>2. PICK topic \in Places, kind \in {"say", "mention", "stop"} :
          calls' = [calls EXCEPT ![m] = [NoCall EXCEPT !.pc = Written, !.place = topic, !.kind = kind]]
    BY <1>2 DEF UserWrites
  <2> DEFINE c == [NoCall EXCEPT !.pc = Written, !.place = topic, !.kind = kind]
  <2>3. c.pc \in {"lost", "unread"} /\ c.place = topic /\ c.shown = "nothing"
    BY DEF NoCall, Written
  <2>4. calls' = [calls EXCEPT ![m] = c] /\ UNCHANGED owned
    BY <1>2, <2>2 DEF UserWrites
  <2> HIDE DEF c, m
  <2> QED BY <2>1, <2>3, <2>4, UseOne, OwnedStays DEF InSessionPcs, Locked
<1>3. CASE StrangerWrites \/ Register
  <2>1. UNCHANGED <<owned, calls>>
    BY <1>3 DEF StrangerWrites, Register
  <2> QED BY <1>1, <2>1, UseSame
<1>4. CASE Shutdown
  <2> DEFINE ms == UNION {TasksOf(t) : t \in Places}
  <2>1. UNCHANGED owned /\ calls' = Cancel(ms)
    BY <1>4 DEF Shutdown
  <2> HIDE DEF ms
  <2>2. \A n \in Messages : /\ SameCall(calls[n], calls'[n]) /\ calls'[n].kind = calls[n].kind /\ calls'[n].shown = calls[n].shown
                            /\ (calls[n].cancelled => calls'[n].cancelled)
    BY <2>1 DEF Cancel, SameCall, CallsOk, CallOk, CallFields
  <2>3. \A n \in Messages : UseKept(n)
    BY <2>2 DEF UseKept, Standing, Alive, Opens, Opening, SameCall
  <2> QED BY <1>1, <2>1, <2>3
<1>5. ASSUME NEW m \in Messages, EditLands(m) /\ UNCHANGED zulipVars
      PROVE  ZulipUse' /\ OwnedGo
  <2>1. UNCHANGED owned
    BY <1>5 DEF zulipVars
  <2>2. \A n \in Messages : /\ SameCall(calls[n], calls'[n]) /\ calls'[n].kind = calls[n].kind /\ calls'[n].cancelled = calls[n].cancelled
                            /\ (calls'[n].shown = calls[n].shown \/ calls'[n].shown = "progress")
    <3> DEFINE c == [calls[m] EXCEPT !.edit = FALSE, !.shown = "progress"]
    <3>1. calls' = [calls EXCEPT ![m] = c]
      BY <1>5 DEF EditLands
    <3>2. SameCall(calls[m], c) /\ c.kind = calls[m].kind /\ c.cancelled = calls[m].cancelled /\ c.shown = "progress"
      BY DEF SameCall, CallsOk, CallOk, CallFields
    <3> HIDE DEF c
    <3> QED BY <3>1, <3>2, OneCall DEF SameCall
  <2>3. \A n \in Messages : UseKept(n)
    BY <2>2 DEF UseKept, Standing, Alive, Opens, Opening, SameCall
  <2> QED BY <1>1, <2>1, <2>3
<1>6. ASSUME UNCHANGED owned,
             \A n \in Messages : calls'[n] = calls[n] \/ (calls[n].pc = "unread" /\ calls'[n].pc \in {"lost", "queued"} /\ calls'[n].place = calls[n].place
                                                          /\ calls'[n].shown = calls[n].shown)
      PROVE  ZulipUse' /\ OwnedGo
  <2>1. ASSUME NEW n \in Messages
        PROVE  UseKept(n)
    <3>1. CASE calls'[n] = calls[n]
      BY <3>1, UseSame
    <3>2. CASE calls[n].pc = "unread" /\ calls'[n].pc \in {"lost", "queued"} /\ calls'[n].place = calls[n].place /\ calls'[n].shown = calls[n].shown
      <4>1. \A s \in Messages : n < s => calls'[s].shown # "stopped"
        <5>1. \A s \in Messages : calls'[s].shown = calls[s].shown
          BY <1>6
        <5>2. \A s \in Messages : n < s => Behindhand(s)
          BY <3>2 DEF OrderInv, SentInOrder
        <5> QED BY <5>1, <5>2 DEF Behindhand, OrderInv, StopInv
      <4> QED BY <3>2, <4>1 DEF UseKept, Opens, Opening, InSessionPcs, Locked
    <3> QED BY <1>6, <3>1, <3>2
  <2> QED BY <1>1, <1>6, <2>1
<1>7. \A n \in Messages : Ended(calls[n], "lost").pc = "lost" /\ Ended(calls[n], "lost").place = calls[n].place /\ Ended(calls[n], "lost").shown = calls[n].shown
  BY DEF Ended, NoCall
<1>8. CASE QueueExpires
  <2>1. UNCHANGED owned /\ calls' = [n \in Messages |-> IF calls[n].pc = "unread" THEN Ended(calls[n], "lost") ELSE calls[n]]
    BY <1>8 DEF QueueExpires
  <2> QED BY <1>6, <1>7, <2>1
<1>9. CASE Poll
  <2>1. UNCHANGED owned
    BY <1>9 DEF Poll
  <2>2. \A n \in Messages : calls'[n] = calls[n] \/ (calls[n].pc = "unread" /\ (calls'[n] = Ended(calls[n], "lost") \/ calls'[n] = Dispatch(n)))
    BY <1>9 DEF Poll, OrderInv, InboxInv
  <2>3. \A n \in Messages : Dispatch(n).pc = "queued" /\ Dispatch(n).place = calls[n].place /\ Dispatch(n).shown = calls[n].shown
    BY DEF Dispatch, CallsOk, CallOk, CallFields
  <2> QED BY <1>6, <1>7, <2>1, <2>2, <2>3
<1>10. CASE CloseAll
  <2>1. UNCHANGED calls /\ owned' = [t \in Places |-> 0] /\ DOMAIN sessions' = DOMAIN sessions /\ \A n \in Messages : ~Alive(n)
    BY <1>10 DEF CloseAll
  <2>2. \A n \in Messages : ~Alive(n)'
    BY <2>1 DEF Alive
  <2>3. 0 \notin DOMAIN sessions'
    BY <2>1 DEF ApartInv
  <2> QED BY <2>1, <2>2, <2>3, UseEnds DEF OwnedGo
<1>11. CASE Restart
  <2>1. sessions' = <<>> /\ calls' = Lost
    BY <1>11 DEF Restart, Restarted
  <2>2. \A n \in Messages : ~Alive(n)'
    BY <2>1 DEF Alive, Lost, Ended, NoCall, CallsOk, CallOk, CallFields
  <2> QED BY <2>1, <2>2, UseEnds DEF OwnedGo
<1>12. ASSUME NEW m \in Messages, ZulipTask(m) \/ Sync(m)
       PROVE  ZulipUse' /\ OwnedGo
  BY <1>12, ZulipTaskUse DEF ZulipTask
<1> QED BY <1>2, <1>3, <1>4, <1>5, <1>8, <1>9, <1>10, <1>11, <1>12 DEF ZulipNext, ZulipRunsOn

(* The other interfaces: who is in a Session is in the one the agent has,   *)
(* and a Session that becomes the agent's has no turns.                     *)
SoleUse == \A m \in Messages : calls[m].pc \in InSessionPcs => calls[m].session = current
CurrentGo == current' \in DOMAIN sessions' /\ sessions'[current'].ready => current' = current

LEMMA SoleStays ==
  ASSUME SoleUse, UNCHANGED current, CallsApart
  PROVE  SoleUse' /\ CurrentGo
BY DEF SoleUse, CurrentGo, CallsApart, Outside, Steady

LEMMA SoleTurn ==
  ASSUME SoleUse, UNCHANGED current, NEW m \in Messages, TurnFrame(m)
  PROVE  SoleUse' /\ CurrentGo
BY DEF SoleUse, CurrentGo, TurnFrame, OneTurn

LEMMA SoleSame ==
  ASSUME SoleUse, UNCHANGED current, \A n \in Messages : calls'[n].pc \in InSessionPcs => calls'[n] = calls[n]
  PROVE  SoleUse' /\ CurrentGo
BY DEF SoleUse, CurrentGo

LEMMA NewGo ==
  ASSUME ApartInv, ApartStep, current' = Len(sessions) + 1
  PROVE  CurrentGo
<1>1. current' \notin DOMAIN sessions
  BY DEF ApartInv
<1>2. \A k \in DOMAIN sessions' : sessions'[k].ready => k \in DOMAIN sessions
  BY DEF ApartStep, NumbersStay, SameNumbers, TurnFrame
<1> QED BY <1>1, <1>2 DEF CurrentGo

LEMMA DirectNextUse ==
  ASSUME CallsOk, ApartInv, DirectApart, InboxInv, SoleUse, DirectNext
  PROVE  SoleUse' /\ CurrentGo
<1>1. ApartStep
  BY DirectNextApart
<1>2. \A n \in Messages : Ended(calls[n], "lost").pc = "lost" /\ Finish(calls[n]).pc = "done" /\ [calls[n] EXCEPT !.pc = "queued"].pc = "queued"
  BY DEF Ended, Finish, NoCall, CallsOk, CallOk, CallFields
<1>3. \A pc \in {"lost", "unread", "queued", "done", "unsent"} : pc \notin InSessionPcs
  BY DEF InSessionPcs, Locked
<1>4. CASE PeerWrites
  <2> DEFINE m == Min(Unsent)
  <2>1. m \in Messages /\ calls[m].pc = "unsent"
    BY <1>4, NextToCome DEF PeerWrites, NextMessage
  <2>2. PICK peer : calls' = [calls EXCEPT ![m] = [NoCall EXCEPT !.pc = Written, !.place = peer]]
    BY <1>4 DEF PeerWrites
  <2> DEFINE c == [NoCall EXCEPT !.pc = Written, !.place = peer]
  <2>3. c.pc \in {"lost", "unread"} /\ calls' = [calls EXCEPT ![m] = c]
    BY <2>2 DEF NoCall, Written
  <2> HIDE DEF c, m
  <2>4. calls'[m] = c /\ \A n \in Messages \ {m} : calls'[n] = calls[n]
    BY <2>1, <2>3, OneCall
  <2>5. UNCHANGED current
    BY <1>4 DEF PeerWrites
  <2> QED BY <1>3, <2>3, <2>4, <2>5, SoleSame
<1>5. CASE QueueExpires /\ UNCHANGED current
  <2>1. \A n \in Messages : calls'[n] \in {calls[n], Ended(calls[n], "lost")}
    BY <1>5 DEF QueueExpires
  <2> QED BY <1>2, <1>3, <1>5, <2>1, SoleSame
<1>6. CASE PollDirect
  <2>1. \A n \in Messages : calls'[n] \in {calls[n], Ended(calls[n], "lost"), [calls[n] EXCEPT !.pc = "queued"]}
    BY <1>6 DEF PollDirect
  <2>2. UNCHANGED current
    BY <1>6 DEF PollDirect
  <2>3. \A n \in Messages : calls'[n] = calls[n] \/ calls'[n].pc \in {"lost", "queued"}
    BY <1>2, <2>1
  <2> QED BY <1>3, <2>2, <2>3, SoleSame
<1>7. CASE DirectRestart
  <2>1. sessions' = <<>> /\ calls' = Lost /\ UNCHANGED archive /\ current' = 0
    BY <1>7 DEF DirectRestart, Restarted
  <2>2. \A m \in Messages : calls'[m].pc \in {"unsent", "done", "lost"}
    BY <2>1, NoSessions, ApartRestarts
  <2> QED BY <1>3, <2>1, <2>2 DEF SoleUse, CurrentGo
<1>8. CASE RegisterDirect
  <2>1. UNCHANGED <<current, calls>>
    BY <1>8 DEF RegisterDirect, Register
  <2> QED BY <2>1, SoleSame
<1>9. ASSUME NEW m \in Messages, HandleDirect(m)
      PROVE  SoleUse' /\ CurrentGo
  <2>1. \A n \in Messages \ {m} : calls[n].pc \notin InSessionPcs
    BY <1>9 DEF HandleDirect, InHand, Alive, InSessionPcs, Locked
  <2>2. PICK k, s : InSession(m, k, s) /\ (k = current \/ k = Len(sessions) + 1)
    BY <1>9 DEF HandleDirect
  <2>3. current' = k /\ calls' = [calls EXCEPT ![m] = [@ EXCEPT !.pc = "waiting", !.session = k]]
    BY <2>2 DEF InSession
  <2>4. calls'[m].session = k /\ \A n \in Messages \ {m} : calls'[n] = calls[n]
    BY <2>3 DEF CallsOk, CallOk, CallFields
  <2>5. SoleUse'
    BY <2>1, <2>3, <2>4 DEF SoleUse
  <2>6. CurrentGo
    BY <1>1, <2>2, <2>3, NewGo DEF CurrentGo
  <2> QED BY <2>5, <2>6
<1>10. ASSUME NEW m \in Messages, Reply(m)
       PROVE  SoleUse' /\ CurrentGo
  <2>1. PICK shown : calls' = [calls EXCEPT ![m] = [Finish(calls[m]) EXCEPT !.shown = shown]]
    BY <1>10 DEF Reply
  <2> DEFINE c == [Finish(calls[m]) EXCEPT !.shown = shown]
  <2>2. calls' = [calls EXCEPT ![m] = c] /\ c.pc = "done"
    BY <2>1 DEF Finish, Ended, NoCall
  <2> HIDE DEF c
  <2>3. calls'[m] = c /\ \A n \in Messages \ {m} : calls'[n] = calls[n]
    BY <2>2, OneCall
  <2>4. UNCHANGED current
    BY <1>10 DEF Reply, directVars
  <2> QED BY <1>3, <2>2, <2>3, <2>4, SoleSame
<1>11. ASSUME NEW m \in Messages, TurnStep(m), UNCHANGED <<turnVars, directVars>>
       PROVE  SoleUse' /\ CurrentGo
  <2>1. TurnFrame(m) /\ UNCHANGED current
    BY <1>11, TurnApartStep DEF directVars
  <2> QED BY <2>1, SoleTurn
<1> QED BY <1>4, <1>5, <1>6, <1>7, <1>8, <1>9, <1>10, <1>11 DEF DirectNext

LEMMA ReplNextUse ==
  ASSUME CallsOk, ApartInv, ReplApart, ReplNext
  PROVE  SoleUse' /\ CurrentGo
<1>1. ApartStep /\ ReplApart'
  BY ReplNextApart
<1>2. SoleUse'
  BY <1>1 DEF SoleUse, ReplApart, Idle, InSessionPcs, Locked
<1>3. CASE UNCHANGED current
  BY <1>2, <1>3 DEF CurrentGo
<1>4. CASE Reset \/ Resume
  <2>1. current' = Len(sessions) + 1
    BY <1>4 DEF Reset, Resume, Move
  <2> QED BY <1>1, <1>2, <2>1, NewGo
<1>5. CASE ReplRestart
  <2>1. PICK p \in Places : sessions' = <<FirstSession(p, runtime')>> /\ current' = 1
    BY <1>5 DEF ReplRestart, StartKeys, FreshKeys, ReplApart
  <2>2. ~FirstSession(p, runtime').ready
    BY OpenedTalk DEF FirstSession, OwnTalk
  <2> QED BY <1>2, <2>1, <2>2 DEF CurrentGo
<1>6. UNCHANGED current \/ Reset \/ Resume \/ ReplRestart
  BY DEF ReplNext, ReplTask, Type, ChangeModel, EditFiles, Enter, Interrupt, NeverStarts, TurnShown
<1> QED BY <1>2, <1>3, <1>4, <1>5, <1>6

LEMMA DiscordNextUse ==
  ASSUME CallsOk, ApartInv, DiscordApart, SoleUse, DiscordNext
  PROVE  SoleUse' /\ CurrentGo
<1>1. ApartStep
  BY DiscordNextApart
<1>2. CASE Receive \/ ReceiveSlash \/ Overheard
  <2>1. UNCHANGED current
    BY <1>2 DEF Receive, ReceiveSlash, Overheard, Handed, discordVars
  <2> QED BY <1>2, <2>1, ReceiveApart, SoleStays
<1>3. CASE DiscordRestart
  <2>1. sessions' = <<>> /\ calls' = Lost /\ UNCHANGED archive /\ current' = 0
    BY <1>3 DEF DiscordRestart, Restarted
  <2>2. \A m \in Messages : calls'[m].pc \in {"unsent", "done", "lost"}
    BY <2>1, NoSessions, ApartRestarts
  <2> QED BY <2>1, <2>2 DEF SoleUse, CurrentGo, InSessionPcs, Locked
<1>4. ASSUME NEW m \in Messages, EditLands(m) /\ UNCHANGED discordVars
      PROVE  SoleUse' /\ CurrentGo
  <2>1. UNCHANGED current
    BY <1>4 DEF discordVars
  <2> QED BY <1>4, <2>1, EditsApart, SoleStays
<1>5. ASSUME NEW m \in Messages, TakeTurn(m)
      PROVE  SoleUse' /\ CurrentGo
  <2>1. \A n \in Messages \ {m} : calls[n].pc \notin InSessionPcs
    <3>1. Head(turnLock) = m /\ calls[m].pc = "locking"
      BY <1>5 DEF TakeTurn, At
    <3>2. ASSUME NEW n \in Messages \ {m}, calls[n].pc \in InSessionPcs
          PROVE  FALSE
      <4>1. n \in Range(turnLock) /\ turnLock[1] = n /\ turnLock \in Seq(Messages)
        BY <3>2 DEF DiscordApart, LockApart, LockPcs, Holding
      <4> QED BY <3>1, <4>1
    <3> QED BY <3>2
  <2>2. current' = Len(sessions) + 1
    BY <1>5 DEF TakeTurn
  <2>3. calls'[m].session = current' /\ \A n \in Messages \ {m} : calls'[n] = calls[n]
    BY <1>5, <2>2 DEF TakeTurn, CallsOk, CallOk, CallFields
  <2>4. SoleUse'
    BY <2>1, <2>3 DEF SoleUse
  <2> QED BY <1>1, <2>2, <2>4, NewGo
<1>6. ASSUME NEW m \in Messages, AgentTurn(m)
      PROVE  SoleUse' /\ CurrentGo
  <2>1. TurnFrame(m) /\ UNCHANGED current
    BY <1>6, TurnApartStep DEF AgentTurn, discordVars
  <2> QED BY <2>1, SoleTurn
<1>7. ASSUME NEW m \in Messages, DiscordTask(m), ~TakeTurn(m), ~AgentTurn(m)
      PROVE  SoleUse' /\ CurrentGo
  <2>1. CallsApart
    BY <1>7, SyncBlockApart, CommandApart, RoutedApart, StartsApart, EditsApart, AnsweredApart, ShownApart, FinalizedApart
       DEF DiscordTask, SlashCommand
  <2>2. UNCHANGED current
    BY <1>7 DEF DiscordTask, SyncBlock, CreateThread, SlashCommand, StopCommand, ResetCommand, ModelCommand, RouteToAgent, Acknowledged,
                Starts, PostPlaceholder, Progress, Answered, ShowAnswer, ShowError, Unwinds, FinalizeCancelled, discordVars
  <2> QED BY <2>1, <2>2, SoleStays
<1>8. DiscordRunsOn \subseteq Messages
  BY DEF DiscordRunsOn
<1> QED BY <1>2, <1>3, <1>4, <1>5, <1>6, <1>7, <1>8 DEF DiscordNext

Used == IF interface = "zulip" THEN ZulipUse ELSE SoleUse

LEMMA UsedAlone ==
  ASSUME ApartInv, interface = "zulip" => ZulipApart, Used
  PROVE  UseInv
<1>1. CASE interface = "zulip"
  <2>1. ASSUME NEW m \in Messages, calls[m].pc \in InSessionPcs
        PROVE  InUse(calls[m].session)
    <3>1. calls[m].place \in Places
      BY <2>1 DEF ApartInv, HasPlace, InSessionPcs, Locked
    <3> QED BY <1>1, <2>1, <3>1 DEF Used, ZulipUse, InUse
  <2>2. ASSUME NEW j \in DOMAIN sessions, NEW k \in DOMAIN sessions, InUse(j), InUse(k), sessions[j].place = sessions[k].place
        PROVE  j = k
    <3>1. 0 \notin DOMAIN sessions
      BY DEF ApartInv
    <3>2. PICK t \in Places, u \in Places : owned[t] = j /\ owned[u] = k
      BY <1>1, <2>2 DEF InUse
    <3>3. sessions[j].place = t /\ sessions[k].place = u
      BY <1>1, <3>1, <3>2 DEF ZulipApart, OwnedApart
    <3> QED BY <2>2, <3>2, <3>3
  <2> QED BY <2>1, <2>2 DEF UseInv
<1>2. CASE interface # "zulip"
  BY <1>2 DEF Used, SoleUse, UseInv, InUse
<1> QED BY <1>1, <1>2

LEMMA UseGoesOn ==
  ASSUME ApartStep, UNCHANGED interface, IF interface = "zulip" THEN OwnedGo ELSE CurrentGo
  PROVE  UseGoes
<1>1. \A k \in DOMAIN sessions' : sessions'[k].ready => k \in DOMAIN sessions
  BY DEF ApartStep, NumbersStay, SameNumbers, TurnFrame
<1> QED BY <1>1 DEF UseGoes, InUse, OwnedGo, CurrentGo

(* A place whose archive could not be read once stays counted out.          *)
LEMMA ForkedGrows ==
  ASSUME CallsOk, ApartInv, [Next]_vars
  PROVE  forked \subseteq forked'
<1>1. ASSUME NEW m \in Messages, TurnStep(m)
      PROVE  forked \subseteq forked'
  BY <1>1, TurnNumbers
<1>2. CASE ZulipNext
  <2>1. UNCHANGED forked \/ \E m \in Messages : TurnStep(m)
    <3>1. ZulipRunsOn \subseteq Messages
      BY DEF ZulipRunsOn
    <3> QED BY <1>2, <3>1, ZenonT(30)
        DEF ZulipNext, ZulipTask, UserWrites, StrangerWrites, Poll, QueueExpires, Register, Shutdown, CloseAll, Restart, Restarted, EditLands,
            Handle, Restore, Probe, Sync, Place, Turn, Delta, Settle, Deliver, Unwind, StopTopic
  <2> QED BY <1>1, <2>1
<1>3. CASE DirectNext
  <2>1. UNCHANGED forked \/ \E m \in Messages : TurnStep(m)
    BY <1>3 DEF DirectNext, PeerWrites, PollDirect, DirectRestart, Restarted, QueueExpires, RegisterDirect, Register, HandleDirect, Reply
  <2> QED BY <1>1, <2>1
<1>4. CASE DiscordNext
  <2>1. DiscordRunsOn \subseteq Messages
    BY DEF DiscordRunsOn
  <2>2. UNCHANGED forked \/ \E m \in Messages : TurnStep(m)
    BY <1>4, <2>1, ZenonT(30)
       DEF DiscordNext, Receive, ReceiveSlash, Overheard, Handed, DiscordRestart, Restarted, EditLands, DiscordTask, SyncBlock, CreateThread,
           SlashCommand, StopCommand, ResetCommand, ModelCommand, RouteToAgent, Acknowledged, Starts, PostPlaceholder, TakeTurn, AgentTurn,
           Progress, Answered, ShowAnswer, ShowError, Unwinds, FinalizeCancelled
  <2> QED BY <1>1, <2>2
<1>5. CASE ReplNext
  <2>1. UNCHANGED forked \/ \E m \in Messages : TurnStep(m)
    BY <1>5 DEF ReplNext, ReplTask, Type, Reset, Resume, Move, ChangeModel, EditFiles, ReplRestart, Restarted, Enter, Interrupt, NeverStarts, TurnShown
  <2> QED BY <1>1, <2>1
<1>6. CASE UNCHANGED vars
  BY <1>6 DEF vars, sharedVars
<1> QED BY <1>2, <1>3, <1>4, <1>5, <1>6 DEF Next, Settled

LEMMA NumbersInit ==
  ASSUME Init
  PROVE  Used /\ NumbersInv
<1>1. \A m \in Messages : calls[m].pc = "unsent"
  BY DEF Init, SharedInit, NoCall
<1>2. Used
  BY <1>1 DEF Used, ZulipUse, SoleUse, Standing, Opens, Opening, Alive, InSessionPcs, Locked
<1>3. archive = [p \in Places |-> <<>>]
  BY DEF Init, SharedInit
<1>4. \A m \in Messages : ~InTurn(m) /\ ~Began(m)
  BY <1>1 DEF InTurn, Began
<1>5. \A k \in DOMAIN sessions : ~sessions[k].ready
  <2>1. sessions = <<>> \/ \E p \in Places : sessions = <<FirstSession(p, runtime)>>
    BY DEF Init, ReplInit, StartKeys, FreshKeys
  <2>2. \A p \in Places : ~FirstSession(p, runtime).ready
    BY OpenedTalk DEF FirstSession, OwnTalk
  <2> QED BY <2>1, <2>2
<1> QED BY <1>2, <1>3, <1>4, <1>5 DEF NumbersInv, Fresh

LEMMA NumbersStep ==
  ASSUME Ordered, Apart, Used, NumbersInv, [Next]_vars
  PROVE  Used' /\ NumbersInv'
<1>1. CallsOk /\ ApartInv /\ (interface = "zulip" => ZulipApart) /\ ApartStep
  BY ApartStays DEF Ordered, OrderInv, DirectOrder, Apart
<1>2. UNCHANGED interface /\ Used' /\ IF interface = "zulip" THEN OwnedGo ELSE CurrentGo
  <2>1. CASE interface = "zulip" /\ ZulipNext /\ UNCHANGED interface
    <3>1. OrderInv
      BY <2>1 DEF Ordered
    <3> QED BY <1>1, <2>1, <3>1, ZulipNextUse DEF Used
  <2>2. CASE interface = "direct" /\ DirectNext /\ UNCHANGED interface
    <3>1. InboxInv /\ DirectApart
      BY <2>2 DEF Ordered, DirectOrder, Apart
    <3> QED BY <1>1, <2>2, <3>1, DirectNextUse DEF Used
  <2>3. CASE interface \in {"discord", "threads"} /\ DiscordNext /\ UNCHANGED interface
    BY <1>1, <2>3, DiscordNextUse DEF Used, Apart
  <2>4. CASE interface = "repl" /\ ReplNext /\ UNCHANGED interface
    BY <1>1, <2>4, ReplNextUse DEF Used, Apart
  <2>5. CASE UNCHANGED vars
    <3>1. UNCHANGED <<interface, calls, owned, current>>
      BY <2>5 DEF vars, sharedVars, zulipVars
    <3> QED BY <3>1 DEF Used, ZulipUse, SoleUse, Standing, Opens, Opening, Alive, OwnedGo, CurrentGo
  <2> QED BY <2>1, <2>2, <2>3, <2>4, <2>5 DEF Next, Settled
<1>3. UseGoes
  BY <1>1, <1>2, UseGoesOn
<1>4. UseInv
  BY <1>1, UsedAlone
<1>5. forked \subseteq forked'
  BY <1>1, ForkedGrows
<1>6. CASE NumbersStay
  BY <1>1, <1>2, <1>3, <1>5, <1>6, NumbersKept
<1>7. ASSUME NEW m \in Messages, TurnStep(m), TurnFrame(m)
      PROVE  NumbersInv'
  BY <1>1, <1>3, <1>4, <1>7, NumbersMove
<1> QED BY <1>1, <1>2, <1>6, <1>7 DEF ApartStep

(* Whatever is rebuilt, renewed, resumed or restarted, and whatever the      *)
(* interface and the number of messages, a turn takes a number that no       *)
(* earlier turn of its place has in the archive: only its own question and   *)
(* its own reply have it.                                                    *)
THEOREM TurnsAreAlwaysFresh == Spec => []TurnsAreFresh
<1>1. Init => Used /\ NumbersInv
  BY NumbersInit
<1>2. Ordered /\ Apart /\ (Used /\ NumbersInv) /\ [Next]_vars => (Used /\ NumbersInv)'
  BY NumbersStep
<1>3. NumbersInv => TurnsAreFresh
  BY DEF NumbersInv, Fresh, TurnsAreFresh
<1>4. Init => Apart
  BY ApartInit
<1>5. Ordered /\ Apart /\ [Next]_vars => Apart'
  BY ApartStays
<1> QED BY <1>1, <1>2, <1>3, <1>4, <1>5, AlwaysOrdered, PTL DEF Spec
=============================================================================
