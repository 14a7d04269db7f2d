--------------------------- MODULE EnclaveProofs ----------------------------
(***************************************************************************)
(* No event comes too late over an enclave connection, for any number of   *)
(* environments, connections, delays and events.                           *)
(***************************************************************************)
EXTENDS Enclaves, TagProofs

(* An event that comes over c at the tag, or before, has been sent. *)
Granted(c, tag) ==
  \/ UpstreamTag(c, tag) \preceq released_time[c]
  \/ UpstreamTag(c, tag) \prec logical_time[c.source]

ReleaseInv ==
  /\ \A e \in Env : to_release[e] \subseteq Outputs(e)
  /\ \A c \in Connection :
       /\ released_time[c] \preceq logical_time[c.source]
       /\ pc[c.source] = "react" => released_time[c] \prec logical_time[c.source]

FutureInv ==
  \A e \in Env : pc[e] # "start" => \A tag \in Queue(e) : logical_time[e] \prec tag

BegunInv ==
  \A e \in Env :
    /\ pc[e] = "start" => logical_time[e] = TagAt(0, 0)
    /\ pc[e] \notin {"start", "done"} => decrement(start_tag) \preceq logical_time[e]
    /\ pc[e] = "react" => start_tag \preceq logical_time[e]

AskedOf(e) ==
  pc[e] \in {"request", "wait"} =>
    /\ \A c \in Inputs(e) : c \in to_ask[e] \/ c = asked[e] \/ Granted(c, t_next[e])
    /\ pc[e] = "wait" /\ granted[e] => Granted(asked[e], t_next[e])

AskedInv == \A e \in Env : AskedOf(e)

AcquiredFrom(c) ==
  stop[c.target] \/ logical_time[c.target] \prec start_tag \/ Granted(c, logical_time[c.target])

AcquiredInv == \A c \in connections : AcquiredFrom(c)

IInv == TypeOK /\ ReleaseInv /\ FutureInv /\ BegunInv /\ AskedInv /\ AcquiredInv

-----------------------------------------------------------------------------
LEMMA StartTags ==
  /\ start_tag \in Tag /\ decrement(start_tag) \in Tag /\ TagAt(0, 0) \in Tag
  /\ TagAt(0, 0) \preceq decrement(start_tag)
  /\ TagAt(0, 0) \prec start_tag
<1>1. start_tag = TagAt(StartTime, 0) /\ StartTime \in Nat \ {0}
  BY TimesAssumption DEF start_tag, from_physical_time
<1>2. start_tag \in Tag /\ TagAt(0, 0) \in Tag
  BY <1>1, MaxMicrostepAssumption DEF TagAt, Tag, Microstep
<1>3. decrement(start_tag) = TagAt(StartTime - 1, MaxMicrostep)
  BY <1>1 DEF decrement, TagAt
<1>4. decrement(start_tag) \in Tag
  BY <1>1, <1>3, MaxMicrostepAssumption DEF TagAt, Tag, Microstep
<1>5. TagAt(0, 0) \preceq decrement(start_tag) /\ TagAt(0, 0) \prec start_tag
  BY <1>1, <1>3, MaxMicrostepAssumption DEF TagAt, \preceq, \prec, Less
<1>. QED
  BY <1>2, <1>4, <1>5

LEMMA ConnectionTypes ==
  ASSUME NEW c \in Connection, NEW tag \in Tag
  PROVE  /\ c.source \in Env /\ c.target \in Env
         /\ UpstreamTag(c, tag) \in Tag /\ SentTag(c, tag) \in Tag
<1>1. c.source \in Env /\ c.target \in Env /\ c.delay \in Nat \cup {NoDelay}
  BY ConnectionAssumption
<1>2. CASE c.delay = NoDelay
  BY <1>1, <1>2 DEF UpstreamTag, SentTag
<1>3. CASE c.delay # NoDelay
  BY <1>1, <1>3, TagTypes DEF UpstreamTag, SentTag
<1>. QED
  BY <1>1, <1>2, <1>3

LEMMA ActualConnections ==
  ASSUME TypeOK
  PROVE  connections \subseteq Connection
BY DEF TypeOK, Connection

(* subtract finds every tag that can send: what comes over c after the tag *)
(* has been granted comes later.                                           *)
LEMMA SentIsLater ==
  ASSUME NEW c \in Connection, NEW sent \in Tag, NEW tag \in Tag,
         ~Overflows(sent, c.delay), UpstreamTag(c, tag) \prec sent
  PROVE  tag \prec SentTag(c, sent)
<1>1. c.delay \in Nat \cup {NoDelay}
  BY ConnectionAssumption
<1>2. CASE c.delay = NoDelay
  BY <1>2 DEF UpstreamTag, SentTag
<1>3. CASE c.delay # NoDelay
  <2>1. c.delay \in Nat /\ subtract(tag, c.delay) \in Tag
    BY <1>1, <1>3, TagTypes
  <2>2. subtract(tag, c.delay) \prec sent
    BY <1>3 DEF UpstreamTag
  <2>3. ~(sent \preceq subtract(tag, c.delay))
    BY <2>2 DEF \preceq
  <2>4. ~(delay(sent, c.delay) \preceq tag)
    BY <2>1, <2>3, SubtractIsAdjoint
  <2>. QED
    BY <1>3, <2>4 DEF SentTag, \preceq
<1>. QED
  BY <1>2, <1>3

(* No tag lies between a tag and the next microstep. *)
LEMMA NextMicrostep ==
  ASSUME NEW a \in Tag, NEW b \in Tag, ~Overflows(a, 0)
  PROVE  /\ delay(a, 0) \in Tag
         /\ a \prec delay(a, 0)
         /\ a \prec b => delay(a, 0) \preceq b
<1>1. delay(a, 0) \in Tag /\ a \prec delay(a, 0)
  BY TagTypes, DelayIsLater
<1>2. ASSUME a \prec b
      PROVE  delay(a, 0) \preceq b
  <2>1. a \preceq decrement(b)
    BY <1>2, DecrementIsPredecessor
  <2>. QED
    BY <2>1, SubtractIsAdjoint DEF subtract
<1>. QED
  BY <1>1, <1>2

-----------------------------------------------------------------------------
LEMMA AcquireTypes ==
  ASSUME TypeOK, NEW e \in Env, NEW tag \in Tag, NEW S \in SUBSET Connection, Acquire(e, tag, S)
  PROVE  /\ pc' \in [Env -> Location]
         /\ logical_time' \in [Env -> Tag]
         /\ events' \in [Env -> SUBSET Tag] /\ empty_events' \in [Env -> SUBSET Tag]
         /\ t_next' \in [Env -> Tag] /\ asked' \in [Env -> Connection]
         /\ to_ask' \in [Env -> SUBSET Connection] /\ granted' \in [Env -> BOOLEAN]
         /\ to_release' \in [Env -> SUBSET Connection]
         /\ released_time' \in [Connection -> Tag]
<1>1. Outputs(e) \subseteq Connection
  BY ActualConnections DEF Outputs
<1>2. CASE Take(e, tag) /\ UNCHANGED asking
  BY <1>1, <1>2 DEF Take, TypeOK, asking, Goto, Location
<1>3. ASSUME NEW c \in S,
             t_next' = [t_next EXCEPT ![e] = tag],
             asked' = [asked EXCEPT ![e] = c],
             to_ask' = [to_ask EXCEPT ![e] = S \ {c}],
             Goto(e, "request"),
             UNCHANGED <<logical_time, events, empty_events, granted, releasing>>
      PROVE  /\ pc' \in [Env -> Location]
             /\ t_next' \in [Env -> Tag] /\ asked' \in [Env -> Connection]
             /\ to_ask' \in [Env -> SUBSET Connection]
             /\ UNCHANGED <<logical_time, events, empty_events, granted, to_release, released_time>>
  BY <1>3 DEF TypeOK, Goto, Location, releasing
<1>. QED
  BY <1>2, <1>3 DEF Acquire, TypeOK

LEMMA InitTypes == Init => TypeOK
<1>. SUFFICES ASSUME Init PROVE TypeOK
  OBVIOUS
<1>1. (CHOOSE c \in Connection : TRUE) \in Connection
  BY ConnectionAssumption
<1>2. {{}} \cup UNION {FirstEvents[e] : e \in Env} \subseteq SUBSET Tag
  BY TimesAssumption
<1>3. events \in [Env -> SUBSET Tag]
  BY <1>2 DEF Init
<1>4. pc \in [Env -> Location]
  BY DEF Init, Location
<1>. QED
  BY <1>1, <1>3, <1>4, StartTags DEF Init, TypeOK

LEMMA StepTypes == TypeOK /\ [Next]_vars => TypeOK'
<1>. SUFFICES ASSUME TypeOK, [Next]_vars PROVE TypeOK'
  OBVIOUS
<1>. USE DEF control, releasing, Goto, Location
<1>1. ASSUME NEW e \in Env, start(e) PROVE TypeOK'
  BY <1>1, StartTags, ActualConnections DEF start, TypeOK, asking, Outputs
<1>2. ASSUME NEW e \in Env, NEW c \in connections, ReleaseTag(e, c) PROVE TypeOK'
  BY <1>2 DEF ReleaseTag, TypeOK, asking
<1>3. ASSUME NEW e \in Env, Released(e) PROVE TypeOK'
  BY <1>3 DEF Released, TypeOK, asking
<1>4. ASSUME NEW e \in Env, Select(e) PROVE TypeOK'
  <2>1. Inputs(e) \in SUBSET Connection
    BY ActualConnections DEF Inputs
  <2>2. PICK tag \in Tag : Acquire(e, tag, Inputs(e))
    BY <1>4 DEF Select, Queue, TypeOK
  <2>. QED
    BY <1>4, <2>1, <2>2, AcquireTypes DEF Select, TypeOK
<1>5. ASSUME NEW e \in Env, Request(e) PROVE TypeOK'
  <2>. DEFINE u == asked[e].source
              tag == UpstreamTag(asked[e], t_next[e])
  <2>1. u \in Env /\ tag \in Tag
    BY ConnectionTypes DEF TypeOK
  <2>2. (tag \prec logical_time[u]) \in BOOLEAN
    BY DEF \prec, Less
  <2>3. granted' \in [Env -> BOOLEAN] /\ empty_events' \in [Env -> SUBSET Tag]
    BY <1>5, <2>1, <2>2 DEF Request, TypeOK
  <2>. QED
    BY <1>5, <2>3 DEF Request, TypeOK
<1>6. ASSUME NEW e \in Env, Resume(e) PROVE TypeOK'
  <2>1. CASE ~IsNext(e, t_next[e])
    BY <1>6, <2>1 DEF Resume, TypeOK, asking
  <2>2. CASE IsNext(e, t_next[e])
    <3>1. Acquire(e, t_next[e], to_ask[e])
      BY <1>6, <2>2 DEF Resume
    <3>. QED
      BY <1>6, <3>1, AcquireTypes DEF Resume, TypeOK
  <2>. QED
    BY <2>1, <2>2
<1>7. ASSUME NEW e \in Env, NEW c \in connections, Send(e, c) PROVE TypeOK'
  <2>1. c.target \in Env /\ SentTag(c, logical_time[e]) \in Tag
    BY ActualConnections, ConnectionTypes DEF TypeOK
  <2>. QED
    BY <1>7, <2>1 DEF Send, TypeOK, asking
<1>8. ASSUME NEW e \in Env, NEW d \in Delay, ScheduleSync(e, d) PROVE TypeOK'
  <2>1. delay(logical_time[e], d) \in Tag
    BY TagTypes, TimesAssumption DEF TypeOK
  <2>. QED
    BY <1>8, <2>1 DEF ScheduleSync, TypeOK, asking
<1>9. ASSUME NEW e \in Env PROVE ShutdownEvents(e) \subseteq Tag /\ delay(logical_time[e], 0) \in Tag
  <2>1. delay(logical_time[e], 0) \in Tag
    BY TagTypes DEF TypeOK
  <2>. QED
    BY <2>1 DEF ShutdownEvents
<1>10. ASSUME NEW e \in Env, ReactionShutdown(e) PROVE TypeOK'
  BY <1>9, <1>10 DEF ReactionShutdown, TypeOK, asking
<1>11. ASSUME NEW e \in Env, EndReactions(e) PROVE TypeOK'
  BY <1>11, ActualConnections DEF EndReactions, TypeOK, asking, Outputs
<1>12. ASSUME NEW e \in Env, Stop(e) PROVE TypeOK'
  <2>. DEFINE next == delay(logical_time[e], 0)
              queued == events[e] \cup ShutdownEvents(e)
  <2>1. next \in Tag /\ queued \in SUBSET Tag /\ Outputs(e) \in SUBSET Connection
    BY <1>9, ActualConnections DEF TypeOK, Outputs
  <2>. HIDE DEF next, queued
  <2>2. /\ stop' = [stop EXCEPT ![e] = TRUE]
        /\ continue_execution' = [continue_execution EXCEPT ![e] = FALSE]
        /\ UNCHANGED <<connections, asking, released_time, crashed>>
    BY <1>12 DEF Stop
  <2>3. CASE next \in queued \cup empty_events[e]
    <3>1. /\ logical_time' = [logical_time EXCEPT ![e] = next]
          /\ events' = [events EXCEPT ![e] = queued \ {next}]
          /\ empty_events' = [empty_events EXCEPT ![e] = @ \ {next}]
          /\ Goto(e, IF next \in queued THEN "react" ELSE "loop")
          /\ UNCHANGED to_release
      BY <1>12, <2>3 DEF Stop, next, queued
    <3>. QED
      BY <2>1, <2>2, <3>1 DEF TypeOK, asking
  <2>4. CASE next \notin queued \cup empty_events[e]
    <3>1. /\ Goto(e, "release")
          /\ to_release' = [to_release EXCEPT ![e] = Outputs(e)]
          /\ UNCHANGED <<logical_time, events, empty_events>>
      BY <1>12, <2>4 DEF Stop, next, queued
    <3>. QED
      BY <2>1, <2>2, <3>1 DEF TypeOK, asking
  <2>. QED
    BY <2>3, <2>4
<1>13. ASSUME NEW e \in Env, StopCrash(e) PROVE TypeOK'
  BY <1>13 DEF StopCrash, TypeOK, asking
<1>14. ASSUME UNCHANGED vars PROVE TypeOK'
  BY <1>14 DEF vars, TypeOK, asking
<1>. QED
  BY <1>1, <1>2, <1>3, <1>4, <1>5, <1>6, <1>7, <1>8, <1>10, <1>11, <1>12, <1>13, <1>14 DEF Next, Step

-----------------------------------------------------------------------------
(* What the steps do to the logical times and the released tags *)

LEMMA NextTag ==
  ASSUME TypeOK, FutureInv, BegunInv, NEW e \in Env, pc[e] \notin {"start", "done"},
         NEW tag \in Tag, IsNext(e, tag)
  PROVE  /\ logical_time[e] \prec tag /\ start_tag \preceq tag
         /\ \A other \in Queue(e) \ {tag} : tag \prec other
<1>1. logical_time[e] \in Tag /\ \A other \in Queue(e) : other \in Tag
  BY DEF TypeOK, Queue
<1>2. logical_time[e] \prec tag
  BY DEF IsNext, FutureInv
<1>3. decrement(start_tag) \prec tag
  BY <1>1, <1>2, StartTags, TagOrder DEF BegunInv
<1>4. start_tag \preceq tag
  BY <1>3, StartTags, DecrementIsPredecessor DEF \preceq
<1>5. ASSUME NEW other \in Queue(e) \ {tag} PROVE tag \prec other
  BY <1>1, <1>5, TagOrder DEF IsNext
<1>. QED
  BY <1>2, <1>4, <1>5

LEMMA TakeAdvances ==
  ASSUME TypeOK, FutureInv, BegunInv, NEW e \in Env, pc[e] \notin {"start", "done"},
         NEW tag \in Tag, IsNext(e, tag), NEW S \in SUBSET Connection, Acquire(e, tag, S)
  PROVE  /\ \A f \in Env \ {e} : logical_time'[f] = logical_time[f]
         /\ logical_time'[e] = logical_time[e] \/ logical_time[e] \prec logical_time'[e]
         /\ UNCHANGED released_time
<1>1. logical_time[e] \prec tag
  BY NextTag
<1>. QED
  BY <1>1 DEF Acquire, Take, TypeOK, releasing

LEMMA StepGrows ==
  ASSUME TypeOK, FutureInv, BegunInv, ReleaseInv, [Next]_vars
  PROVE  /\ \A f \in Env : logical_time[f] \preceq logical_time'[f]
         /\ \A c \in Connection : released_time[c] \preceq released_time'[c]
<1>. USE DEF control, releasing
<1>. DEFINE Grows == \A f \in Env : logical_time'[f] = logical_time[f] \/ logical_time[f] \preceq logical_time'[f]
            Raises == \A c \in Connection : released_time'[c] = released_time[c] \/ released_time[c] \preceq released_time'[c]
<1>1. ASSUME NEW e \in Env, start(e) PROVE Grows /\ Raises
  <2>1. logical_time[e] \preceq decrement(start_tag)
    BY <1>1, StartTags DEF start, At, BegunInv
  <2>. QED
    BY <1>1, <2>1 DEF start, TypeOK
<1>2. ASSUME NEW e \in Env, NEW c \in connections, ReleaseTag(e, c) PROVE Grows /\ Raises
  <2>1. c.source = e /\ c \in Connection
    BY <1>2, ActualConnections DEF ReleaseTag, ReleaseInv, Outputs
  <2>. QED
    BY <1>2, <2>1 DEF ReleaseTag, ReleaseInv, TypeOK
<1>3. ASSUME NEW e \in Env, Select(e) PROVE Grows /\ Raises
  <2>1. Inputs(e) \in SUBSET Connection
    BY ActualConnections DEF Inputs
  <2>2. PICK tag \in Tag : IsNext(e, tag) /\ Acquire(e, tag, Inputs(e))
    BY <1>3 DEF Select, Queue, TypeOK
  <2>3. pc[e] \notin {"start", "done"}
    BY <1>3 DEF Select, At
  <2>4. /\ \A f \in Env \ {e} : logical_time'[f] = logical_time[f]
        /\ logical_time'[e] = logical_time[e] \/ logical_time[e] \prec logical_time'[e]
        /\ UNCHANGED released_time
    BY <2>1, <2>2, <2>3, TakeAdvances
  <2>5. logical_time[e] \in Tag /\ logical_time'[e] \in Tag
    BY <2>1, <2>2, AcquireTypes DEF TypeOK
  <2>. QED
    BY <2>4, <2>5, TagOrder
<1>4. ASSUME NEW e \in Env, Resume(e) PROVE Grows /\ Raises
  <2>1. CASE ~IsNext(e, t_next[e])
    BY <1>4, <2>1 DEF Resume
  <2>2. CASE IsNext(e, t_next[e])
    <3>1. /\ Acquire(e, t_next[e], to_ask[e]) /\ pc[e] \notin {"start", "done"}
          /\ t_next[e] \in Tag /\ to_ask[e] \in SUBSET Connection
      BY <1>4, <2>2 DEF Resume, At, TypeOK
    <3>2. /\ \A f \in Env \ {e} : logical_time'[f] = logical_time[f]
          /\ logical_time'[e] = logical_time[e] \/ logical_time[e] \prec logical_time'[e]
          /\ UNCHANGED released_time
      BY <2>2, <3>1, TakeAdvances
    <3>3. logical_time[e] \in Tag /\ logical_time'[e] \in Tag
      BY <3>1, AcquireTypes DEF TypeOK
    <3>. QED
      BY <3>2, <3>3, TagOrder
  <2>. QED
    BY <2>1, <2>2
<1>5. ASSUME NEW e \in Env, Stop(e) PROVE Grows /\ Raises
  <2>. DEFINE next == delay(logical_time[e], 0)
  <2>1. logical_time[e] \in Tag /\ next \in Tag /\ logical_time[e] \prec next
    BY <1>5, NextMicrostep DEF Stop, TypeOK
  <2>2. logical_time[e] \preceq next
    BY <2>1, TagOrder
  <2>3. logical_time' = logical_time \/ logical_time' = [logical_time EXCEPT ![e] = next]
    BY <1>5 DEF Stop
  <2>. HIDE DEF next
  <2>. QED
    BY <1>5, <2>2, <2>3 DEF TypeOK, Stop
<1>6. ASSUME NEW e \in Env,
             \/ Released(e) \/ Request(e) \/ ReactionShutdown(e) \/ EndReactions(e) \/ StopCrash(e)
             \/ \E c \in connections : Send(e, c)
             \/ \E d \in Delay : ScheduleSync(e, d)
      PROVE  UNCHANGED <<logical_time, released_time>>
  BY <1>6 DEF Released, Request, ReactionShutdown, EndReactions, StopCrash, Send, ScheduleSync
<1>7. ASSUME UNCHANGED vars PROVE UNCHANGED <<logical_time, released_time>>
  BY <1>7 DEF vars
<1>8. Grows /\ Raises
  BY <1>1, <1>2, <1>3, <1>4, <1>5, <1>6, <1>7 DEF Next, Step
<1>9. \A f \in Env : logical_time[f] \preceq logical_time[f]
  BY TagOrder DEF TypeOK
<1>10. \A c \in Connection : released_time[c] \preceq released_time[c]
  BY TagOrder DEF TypeOK
<1>. QED
  BY <1>8, <1>9, <1>10

(* What is granted stays granted. *)
LEMMA GrantedIsStable ==
  ASSUME TypeOK, TypeOK', FutureInv, BegunInv, ReleaseInv, [Next]_vars
  PROVE  \A c \in Connection, tag \in Tag : Granted(c, tag) => Granted(c, tag)'
<1>. SUFFICES ASSUME NEW c \in Connection, NEW tag \in Tag, Granted(c, tag)
              PROVE  Granted(c, tag)'
  OBVIOUS
<1>1. /\ UpstreamTag(c, tag) \in Tag /\ c.source \in Env
      /\ released_time[c] \in Tag /\ released_time'[c] \in Tag
      /\ logical_time[c.source] \in Tag /\ logical_time'[c.source] \in Tag
  BY ConnectionTypes DEF TypeOK
<1>2. /\ logical_time[c.source] \preceq logical_time'[c.source]
      /\ released_time[c] \preceq released_time'[c]
  BY <1>1, StepGrows
<1>3. CASE UpstreamTag(c, tag) \preceq released_time[c]
  <2>1. UpstreamTag(c, tag) \preceq released_time'[c]
    BY <1>1, <1>2, <1>3, TagOrder
  <2>. QED
    BY <2>1 DEF Granted
<1>4. CASE UpstreamTag(c, tag) \prec logical_time[c.source]
  <2>1. UpstreamTag(c, tag) \prec logical_time'[c.source]
    BY <1>1, <1>2, <1>4, TagOrder
  <2>. QED
    BY <2>1 DEF Granted
<1>. QED
  BY <1>3, <1>4 DEF Granted

-----------------------------------------------------------------------------
(* Each conjunct of the invariant is preserved. *)

LEMMA AcquireReleases ==
  ASSUME TypeOK, FutureInv, BegunInv, ReleaseInv, NEW e \in Env, pc[e] \notin {"start", "done"},
         NEW tag \in Tag, IsNext(e, tag), NEW S \in SUBSET Connection, Acquire(e, tag, S),
         UNCHANGED connections
  PROVE  ReleaseInv'
<1>1. logical_time[e] \prec tag /\ logical_time[e] \in Tag
  BY NextTag DEF TypeOK
<1>2. CASE Take(e, tag) /\ UNCHANGED asking
  <2>1. /\ logical_time' = [logical_time EXCEPT ![e] = tag]
        /\ pc' = [pc EXCEPT ![e] = IF tag \in events[e] THEN "react" ELSE "release"]
        /\ to_release' = [to_release EXCEPT ![e] = IF tag \in events[e] THEN {} ELSE Outputs(e)]
        /\ UNCHANGED released_time
    BY <1>2 DEF Take, Goto
  <2>2. \A f \in Env : to_release'[f] \subseteq Outputs(f)'
    BY <2>1 DEF ReleaseInv, Outputs, TypeOK
  <2>3. ASSUME NEW c \in Connection
        PROVE  /\ released_time'[c] \preceq logical_time'[c.source]
               /\ pc'[c.source] = "react" => released_time'[c] \prec logical_time'[c.source]
    <3>1. c.source \in Env /\ released_time[c] \in Tag
      BY ConnectionAssumption DEF TypeOK
    <3>2. CASE c.source = e
      <4>1. released_time[c] \preceq logical_time[e]
        BY <3>2 DEF ReleaseInv
      <4>2. released_time[c] \prec tag
        BY <1>1, <3>1, <4>1, TagOrder
      <4>3. released_time[c] \preceq tag
        BY <3>1, <4>2, TagOrder
      <4>. QED
        BY <2>1, <3>1, <3>2, <4>2, <4>3 DEF TypeOK
    <3>3. CASE c.source # e
      BY <2>1, <3>1, <3>3 DEF ReleaseInv, TypeOK
    <3>. QED
      BY <3>2, <3>3
  <2>. QED
    BY <2>2, <2>3 DEF ReleaseInv
<1>3. CASE Goto(e, "request") /\ UNCHANGED <<logical_time, releasing>>
  BY <1>3 DEF ReleaseInv, TypeOK, Goto, releasing, Outputs
<1>. QED
  BY <1>2, <1>3 DEF Acquire

LEMMA StepReleases ==
  ASSUME TypeOK, FutureInv, BegunInv, ReleaseInv, Next
  PROVE  ReleaseInv'
<1>. USE DEF control, releasing, Goto
<1>1. ASSUME NEW e \in Env, start(e) PROVE ReleaseInv'
  <2>1. /\ logical_time' = [logical_time EXCEPT ![e] = decrement(start_tag)]
        /\ pc' = [pc EXCEPT ![e] = "release"]
        /\ to_release' = [to_release EXCEPT ![e] = Outputs(e)]
        /\ UNCHANGED <<connections, released_time>>
    BY <1>1 DEF start
  <2>2. \A f \in Env : to_release'[f] \subseteq Outputs(f)'
    BY <2>1 DEF ReleaseInv, Outputs, TypeOK
  <2>3. ASSUME NEW c \in Connection
        PROVE  /\ released_time'[c] \preceq logical_time'[c.source]
               /\ pc'[c.source] = "react" => released_time'[c] \prec logical_time'[c.source]
    <3>1. c.source \in Env /\ released_time[c] \in Tag
      BY ConnectionAssumption DEF TypeOK
    <3>2. CASE c.source = e
      <4>1. released_time[c] \preceq TagAt(0, 0)
        BY <1>1, <3>2 DEF ReleaseInv, BegunInv, start, At
      <4>2. released_time[c] \preceq decrement(start_tag)
        BY <3>1, <4>1, StartTags, TagOrder
      <4>. QED
        BY <2>1, <3>1, <3>2, <4>2 DEF TypeOK
    <3>3. CASE c.source # e
      BY <2>1, <3>1, <3>3 DEF ReleaseInv, TypeOK
    <3>. QED
      BY <3>2, <3>3
  <2>. QED
    BY <2>2, <2>3 DEF ReleaseInv
<1>2. ASSUME NEW e \in Env, NEW c \in connections, ReleaseTag(e, c) PROVE ReleaseInv'
  <2>1. c.source = e /\ pc[e] = "release" /\ c \in Connection /\ logical_time[e] \preceq logical_time[e]
    BY <1>2, ActualConnections, TagOrder DEF ReleaseTag, ReleaseInv, Outputs, TypeOK, At
  <2>. QED
    BY <1>2, <2>1 DEF ReleaseTag, ReleaseInv, Outputs, TypeOK
<1>3. ASSUME NEW e \in Env, Select(e) PROVE ReleaseInv'
  <2>1. Inputs(e) \in SUBSET Connection
    BY ActualConnections DEF Inputs
  <2>2. PICK tag \in Tag : IsNext(e, tag) /\ Acquire(e, tag, Inputs(e))
    BY <1>3 DEF Select, Queue, TypeOK
  <2>3. pc[e] \notin {"start", "done"} /\ UNCHANGED connections
    BY <1>3 DEF Select, At
  <2>. QED
    BY <2>1, <2>2, <2>3, AcquireReleases
<1>4. ASSUME NEW e \in Env, Resume(e) PROVE ReleaseInv'
  <2>1. CASE ~IsNext(e, t_next[e])
    <3>1. /\ pc' = [pc EXCEPT ![e] = "loop"]
          /\ UNCHANGED <<connections, logical_time, to_release, released_time>>
      BY <1>4, <2>1 DEF Resume
    <3>2. \A f \in Env : pc'[f] = "react" => pc[f] = "react"
      BY <3>1 DEF TypeOK
    <3>. QED
      BY <3>1, <3>2, ConnectionAssumption DEF ReleaseInv, Outputs
  <2>2. CASE IsNext(e, t_next[e])
    <3>1. /\ Acquire(e, t_next[e], to_ask[e]) /\ pc[e] \notin {"start", "done"}
          /\ t_next[e] \in Tag /\ to_ask[e] \in SUBSET Connection /\ UNCHANGED connections
      BY <1>4, <2>2 DEF Resume, At, TypeOK
    <3>. QED
      BY <2>2, <3>1, AcquireReleases
  <2>. QED
    BY <2>1, <2>2
<1>5. ASSUME NEW e \in Env, Stop(e) PROVE ReleaseInv'
  <2>. DEFINE next == delay(logical_time[e], 0)
              queued == events[e] \cup ShutdownEvents(e)
  <2>1. logical_time[e] \in Tag /\ next \in Tag /\ logical_time[e] \prec next
    BY <1>5, NextMicrostep DEF Stop, TypeOK
  <2>. HIDE DEF next, queued
  <2>2. CASE next \in queued \cup empty_events[e]
    <3>1. /\ logical_time' = [logical_time EXCEPT ![e] = next]
          /\ pc' = [pc EXCEPT ![e] = IF next \in queued THEN "react" ELSE "loop"]
          /\ UNCHANGED <<connections, to_release, released_time>>
      BY <1>5, <2>2 DEF Stop, next, queued
    <3>2. \A f \in Env : to_release'[f] \subseteq Outputs(f)'
      BY <3>1 DEF ReleaseInv, Outputs
    <3>3. ASSUME NEW c \in Connection
          PROVE  /\ released_time'[c] \preceq logical_time'[c.source]
                 /\ pc'[c.source] = "react" => released_time'[c] \prec logical_time'[c.source]
      <4>1. c.source \in Env /\ released_time[c] \in Tag
        BY ConnectionAssumption DEF TypeOK
      <4>2. CASE c.source = e
        <5>1. released_time[c] \preceq logical_time[e]
          BY <4>2 DEF ReleaseInv
        <5>2. released_time[c] \prec next
          BY <2>1, <4>1, <5>1, TagOrder
        <5>3. released_time[c] \preceq next
          BY <2>1, <4>1, <5>2, TagOrder
        <5>. QED
          BY <3>1, <4>1, <4>2, <5>2, <5>3 DEF TypeOK
      <4>3. CASE c.source # e
        BY <3>1, <4>1, <4>3 DEF ReleaseInv, TypeOK
      <4>. QED
        BY <4>2, <4>3
    <3>. QED
      BY <3>2, <3>3 DEF ReleaseInv
  <2>3. CASE next \notin queued \cup empty_events[e]
    <3>1. /\ pc' = [pc EXCEPT ![e] = "release"]
          /\ to_release' = [to_release EXCEPT ![e] = Outputs(e)]
          /\ UNCHANGED <<connections, logical_time, released_time>>
      BY <1>5, <2>3 DEF Stop, next, queued
    <3>. QED
      BY <3>1 DEF ReleaseInv, Outputs, TypeOK
  <2>. QED
    BY <2>2, <2>3
<1>6. ASSUME NEW e \in Env, EndReactions(e) PROVE ReleaseInv'
  BY <1>6 DEF EndReactions, ReleaseInv, Outputs, TypeOK
<1>7. ASSUME NEW e \in Env, Released(e) \/ Request(e) PROVE ReleaseInv'
  <2>1. /\ pc' \in {[pc EXCEPT ![e] = l] : l \in {"loop", "done", "wait"}}
        /\ UNCHANGED <<connections, logical_time, to_release, released_time>>
    BY <1>7 DEF Released, Request
  <2>2. \A f \in Env : pc'[f] = "react" => pc[f] = "react"
    BY <2>1 DEF TypeOK
  <2>. QED
    BY <2>1, <2>2, ConnectionAssumption DEF ReleaseInv, Outputs
<1>8. ASSUME NEW e \in Env,
             \/ ReactionShutdown(e) \/ StopCrash(e)
             \/ \E c \in connections : Send(e, c)
             \/ \E d \in Delay : ScheduleSync(e, d)
      PROVE  ReleaseInv'
  <2>1. UNCHANGED <<connections, pc, logical_time, to_release, released_time>>
    BY <1>8 DEF ReactionShutdown, StopCrash, Send, ScheduleSync
  <2>. QED
    BY <2>1 DEF ReleaseInv, Outputs
<1>. QED
  BY <1>1, <1>2, <1>3, <1>4, <1>5, <1>6, <1>7, <1>8 DEF Next, Step

LEMMA AcquireFuture ==
  ASSUME TypeOK, FutureInv, BegunInv, NEW e \in Env, pc[e] \notin {"start", "done"},
         NEW tag \in Tag, IsNext(e, tag), NEW S \in SUBSET Connection, Acquire(e, tag, S)
  PROVE  FutureInv' /\ BegunInv'
<1>1. /\ logical_time[e] \prec tag /\ start_tag \preceq tag
      /\ \A other \in Queue(e) \ {tag} : tag \prec other
  BY NextTag
<1>2. CASE Take(e, tag) /\ UNCHANGED asking
  <2>1. /\ logical_time' = [logical_time EXCEPT ![e] = tag]
        /\ pc' = [pc EXCEPT ![e] = IF tag \in events[e] THEN "react" ELSE "release"]
        /\ events' = [events EXCEPT ![e] = @ \ {tag}]
        /\ empty_events' = [empty_events EXCEPT ![e] = @ \ {tag}]
    BY <1>2 DEF Take, Goto
  <2>2. FutureInv'
    BY <1>1, <2>1 DEF FutureInv, Queue, TypeOK
  <2>3. decrement(start_tag) \preceq tag
    <3>1. decrement(start_tag) \preceq logical_time[e]
      BY DEF BegunInv
    <3>. QED
      BY <1>1, <3>1, StartTags, TagOrder DEF TypeOK
  <2>4. BegunInv'
    BY <1>1, <2>1, <2>3 DEF BegunInv, TypeOK
  <2>. QED
    BY <2>2, <2>4
<1>3. CASE Goto(e, "request") /\ UNCHANGED <<logical_time, events, empty_events>>
  BY <1>3 DEF FutureInv, BegunInv, Queue, TypeOK, Goto
<1>. QED
  BY <1>2, <1>3 DEF Acquire

LEMMA StepFuture ==
  ASSUME TypeOK, FutureInv, BegunInv, Next
  PROVE  FutureInv' /\ BegunInv'
<1>. USE DEF control, Goto
<1>1. ASSUME NEW e \in Env, start(e) PROVE FutureInv' /\ BegunInv'
  <2>1. /\ logical_time' = [logical_time EXCEPT ![e] = decrement(start_tag)]
        /\ pc' = [pc EXCEPT ![e] = "release"]
        /\ events' = [events EXCEPT ![e] = {tag \in @ : decrement(start_tag) \prec tag}]
        /\ empty_events' = [empty_events EXCEPT ![e] = {tag \in @ : decrement(start_tag) \prec tag}]
    BY <1>1 DEF start
  <2>2. decrement(start_tag) \preceq decrement(start_tag)
    BY StartTags, TagOrder
  <2>. QED
    BY <2>1, <2>2 DEF FutureInv, BegunInv, Queue, TypeOK
<1>2. ASSUME NEW e \in Env, Select(e) PROVE FutureInv' /\ BegunInv'
  <2>1. Inputs(e) \in SUBSET Connection
    BY ActualConnections DEF Inputs
  <2>2. PICK tag \in Tag : IsNext(e, tag) /\ Acquire(e, tag, Inputs(e))
    BY <1>2 DEF Select, Queue, TypeOK
  <2>3. pc[e] \notin {"start", "done"}
    BY <1>2 DEF Select, At
  <2>. QED
    BY <2>1, <2>2, <2>3, AcquireFuture
<1>3. ASSUME NEW e \in Env, Resume(e) PROVE FutureInv' /\ BegunInv'
  <2>1. CASE ~IsNext(e, t_next[e])
    <3>1. /\ pc' = [pc EXCEPT ![e] = "loop"] /\ pc[e] = "wait"
          /\ UNCHANGED <<logical_time, events, empty_events>>
      BY <1>3, <2>1 DEF Resume, At
    <3>. QED
      BY <3>1 DEF FutureInv, BegunInv, Queue, TypeOK
  <2>2. CASE IsNext(e, t_next[e])
    <3>1. /\ Acquire(e, t_next[e], to_ask[e]) /\ pc[e] \notin {"start", "done"}
          /\ t_next[e] \in Tag /\ to_ask[e] \in SUBSET Connection
      BY <1>3, <2>2 DEF Resume, At, TypeOK
    <3>. QED
      BY <2>2, <3>1, AcquireFuture
  <2>. QED
    BY <2>1, <2>2
<1>4. ASSUME NEW e \in Env, Request(e) PROVE FutureInv' /\ BegunInv'
  <2>. DEFINE u == asked[e].source
              tag == UpstreamTag(asked[e], t_next[e])
  <2>1. /\ pc' = [pc EXCEPT ![e] = "wait"] /\ pc[e] = "request"
        /\ empty_events' = [empty_events EXCEPT ![u] = @ \cup IF logical_time[u] \prec tag THEN {tag} ELSE {}]
        /\ UNCHANGED <<logical_time, events>>
    BY <1>4 DEF Request, At
  <2>2. u \in Env /\ u = asked[e].source
    BY ConnectionTypes DEF TypeOK
  <2>. HIDE DEF u, tag
  <2>. QED
    BY <2>1, <2>2 DEF FutureInv, BegunInv, Queue, TypeOK
<1>5. ASSUME NEW e \in Env, NEW c \in connections, Send(e, c) PROVE FutureInv' /\ BegunInv'
  <2>1. c.target \in Env
    BY ActualConnections, ConnectionAssumption
  <2>2. /\ UNCHANGED <<pc, logical_time, empty_events>>
        /\ \/ events' = events
           \/ \E tag \in {SentTag(c, logical_time[e])} :
                /\ logical_time[c.target] \prec tag
                /\ events' = [events EXCEPT ![c.target] = @ \cup {tag}]
    BY <1>5 DEF Send
  <2>. QED
    BY <2>1, <2>2 DEF FutureInv, BegunInv, Queue, TypeOK
<1>6. ASSUME NEW e \in Env, NEW d \in Delay, ScheduleSync(e, d) PROVE FutureInv' /\ BegunInv'
  <2>1. d \in Nat /\ ~Overflows(logical_time[e], d)
    <3>1. logical_time[e].micro_step \in 0..MaxMicrostep
      BY DEF TypeOK, Tag, Microstep
    <3>. QED
      BY <1>6, <3>1, TimesAssumption, MaxMicrostepAssumption DEF ScheduleSync, Overflows
  <2>2. logical_time[e] \prec delay(logical_time[e], d)
    BY <2>1, DelayIsLater DEF TypeOK
  <2>3. /\ UNCHANGED <<pc, logical_time, empty_events>>
        /\ events' = [events EXCEPT ![e] = @ \cup {delay(logical_time[e], d)}]
    BY <1>6 DEF ScheduleSync
  <2>. QED
    BY <2>2, <2>3 DEF FutureInv, BegunInv, Queue, TypeOK
<1>7. ASSUME NEW e \in Env, ~Overflows(logical_time[e], 0)
      PROVE  \A tag \in ShutdownEvents(e) : logical_time[e] \prec tag
  BY <1>7, NextMicrostep DEF ShutdownEvents, TypeOK
<1>8. ASSUME NEW e \in Env, ReactionShutdown(e) PROVE FutureInv' /\ BegunInv'
  <2>1. ~Overflows(logical_time[e], 0)
    <3>1. logical_time[e].micro_step \in 0..MaxMicrostep
      BY DEF TypeOK, Tag, Microstep
    <3>. QED
      BY <1>8, <3>1, TimesAssumption, MaxMicrostepAssumption DEF ReactionShutdown, Overflows
  <2>2. /\ UNCHANGED <<pc, logical_time, empty_events>>
        /\ events' = [events EXCEPT ![e] = @ \cup ShutdownEvents(e)]
    BY <1>8 DEF ReactionShutdown
  <2>. QED
    BY <1>7, <2>1, <2>2 DEF FutureInv, BegunInv, Queue, TypeOK
<1>9. ASSUME NEW e \in Env, Stop(e) PROVE FutureInv' /\ BegunInv'
  <2>. DEFINE next == delay(logical_time[e], 0)
              queued == events[e] \cup ShutdownEvents(e)
  <2>1. /\ logical_time[e] \in Tag /\ next \in Tag /\ logical_time[e] \prec next
        /\ \A tag \in Tag : logical_time[e] \prec tag => next \preceq tag
    BY <1>9, NextMicrostep DEF Stop, TypeOK
  <2>2. pc[e] = "loop"
    BY <1>9 DEF Stop, Stopping, At
  <2>3. \A tag \in queued \cup empty_events[e] : tag \in Tag /\ logical_time[e] \prec tag
    <3>1. \A tag \in ShutdownEvents(e) : tag = next /\ logical_time[e] \prec tag
      BY <2>1 DEF ShutdownEvents
    <3>2. \A tag \in Queue(e) : logical_time[e] \prec tag
      BY <2>2 DEF FutureInv
    <3>. QED
      BY <2>1, <3>1, <3>2 DEF Queue, TypeOK
  <2>4. \A tag \in queued \cup empty_events[e] : tag # next => next \prec tag
    BY <2>1, <2>3, TagOrder
  <2>5. /\ decrement(start_tag) \preceq logical_time[e] /\ decrement(start_tag) \preceq next
        /\ start_tag \preceq next
    <3>1. decrement(start_tag) \preceq logical_time[e]
      BY <2>2 DEF BegunInv
    <3>2. decrement(start_tag) \prec next
      BY <2>1, <3>1, StartTags, TagOrder
    <3>3. decrement(start_tag) \preceq next
      BY <2>1, <3>2, StartTags, TagOrder
    <3>4. start_tag \preceq next
      BY <2>1, <3>2, StartTags, DecrementIsPredecessor DEF \preceq
    <3>. QED
      BY <3>1, <3>3, <3>4
  <2>. HIDE DEF next, queued
  <2>6. CASE next \in queued \cup empty_events[e]
    <3>1. /\ logical_time' = [logical_time EXCEPT ![e] = next]
          /\ events' = [events EXCEPT ![e] = queued \ {next}]
          /\ empty_events' = [empty_events EXCEPT ![e] = @ \ {next}]
          /\ pc' = [pc EXCEPT ![e] = IF next \in queued THEN "react" ELSE "loop"]
      BY <1>9, <2>6 DEF Stop, next, queued
    <3>2. FutureInv'
      BY <2>4, <3>1 DEF FutureInv, Queue, TypeOK
    <3>3. BegunInv'
      BY <2>5, <3>1 DEF BegunInv, TypeOK
    <3>. QED
      BY <3>2, <3>3
  <2>7. CASE next \notin queued \cup empty_events[e]
    <3>1. /\ pc' = [pc EXCEPT ![e] = "release"]
          /\ UNCHANGED <<logical_time, events, empty_events>>
      BY <1>9, <2>7 DEF Stop, next, queued
    <3>. QED
      BY <2>2, <3>1 DEF FutureInv, BegunInv, Queue, TypeOK
  <2>. QED
    BY <2>6, <2>7
<1>10. ASSUME NEW e \in Env, Released(e) \/ EndReactions(e)
       PROVE  FutureInv' /\ BegunInv'
  <2>1. /\ pc' \in {[pc EXCEPT ![e] = l] : l \in {"loop", "done", "release"}}
        /\ pc[e] \notin {"start", "done"}
        /\ UNCHANGED <<logical_time, events, empty_events>>
    BY <1>10 DEF Released, EndReactions, At
  <2>. QED
    BY <2>1 DEF FutureInv, BegunInv, Queue, TypeOK
<1>11. ASSUME NEW e \in Env, StopCrash(e) \/ \E c \in connections : ReleaseTag(e, c)
       PROVE  FutureInv' /\ BegunInv'
  <2>1. UNCHANGED <<pc, logical_time, events, empty_events>>
    BY <1>11 DEF StopCrash, ReleaseTag
  <2>. QED
    BY <2>1 DEF FutureInv, BegunInv, Queue
<1>. QED
  BY <1>1, <1>2, <1>3, <1>4, <1>5, <1>6, <1>8, <1>9, <1>10, <1>11 DEF Next, Step

LEMMA AskedStays ==
  ASSUME TypeOK, TypeOK', FutureInv, BegunInv, ReleaseInv, AskedInv, [Next]_vars,
         NEW f \in Env, pc'[f] = pc[f] \/ pc'[f] \notin {"request", "wait"},
         UNCHANGED <<connections, asked[f], to_ask[f], t_next[f], granted[f]>>
  PROVE  AskedOf(f)'
<1>1. t_next[f] \in Tag /\ asked[f] \in Connection /\ Inputs(f) \subseteq Connection
  BY ActualConnections DEF TypeOK, Inputs
<1>2. AskedOf(f)
  BY DEF AskedInv
<1>3. Inputs(f)' = Inputs(f)
  BY DEF Inputs
<1>4. \A c \in Connection, tag \in Tag : Granted(c, tag) => Granted(c, tag)'
  BY GrantedIsStable
<1>. QED
  BY <1>1, <1>2, <1>3, <1>4 DEF AskedOf, Granted

LEMMA AcquiredStays ==
  ASSUME TypeOK, TypeOK', FutureInv, BegunInv, ReleaseInv, AcquiredInv, [Next]_vars,
         NEW c \in connections,
         logical_time'[c.target] = logical_time[c.target] \/ logical_time'[c.target] \prec start_tag,
         stop[c.target] => stop'[c.target]
  PROVE  AcquiredFrom(c)'
<1>1. c \in Connection /\ logical_time[c.target] \in Tag
  BY ActualConnections, ConnectionAssumption DEF TypeOK
<1>2. AcquiredFrom(c)
  BY DEF AcquiredInv
<1>3. \A tag \in Tag : Granted(c, tag) => Granted(c, tag)'
  BY <1>1, GrantedIsStable
<1>. QED
  BY <1>1, <1>2, <1>3 DEF AcquiredFrom, Granted

(* A tag is taken when all inputs have granted it. *)
LEMMA AcquireGranted ==
  ASSUME TypeOK, TypeOK', FutureInv, BegunInv, ReleaseInv, AskedInv, AcquiredInv, [Next]_vars,
         NEW e \in Env, NEW tag \in Tag, NEW S \in SUBSET Connection, Acquire(e, tag, S),
         \A c \in Inputs(e) : c \in S \/ Granted(c, tag),
         UNCHANGED <<connections, stop>>
  PROVE  AskedInv' /\ AcquiredInv'
<1>1. \A c \in Connection, g \in Tag : Granted(c, g) => Granted(c, g)'
  BY GrantedIsStable
<1>2. Inputs(e) \subseteq Connection /\ Inputs(e)' = Inputs(e)
  BY ActualConnections DEF Inputs
<1>3. CASE (\A c \in S : try_acquire_tag(c, tag)) /\ Take(e, tag) /\ UNCHANGED asking
  <2>1. /\ logical_time' = [logical_time EXCEPT ![e] = tag]
        /\ pc' = [pc EXCEPT ![e] = IF tag \in events[e] THEN "react" ELSE "release"]
        /\ UNCHANGED <<asked, to_ask, t_next, granted>>
    BY <1>3 DEF Take, Goto, asking
  <2>2. AskedInv'
    <3>1. ASSUME NEW f \in Env PROVE AskedOf(f)'
      <4>1. pc'[f] = pc[f] \/ pc'[f] \notin {"request", "wait"}
        BY <2>1 DEF TypeOK
      <4>. QED
        BY <2>1, <4>1, AskedStays
    <3>. QED
      BY <3>1 DEF AskedInv
  <2>3. \A c \in Inputs(e) : Granted(c, tag)
    BY <1>3 DEF Granted, try_acquire_tag
  <2>4. ASSUME NEW c \in connections PROVE AcquiredFrom(c)'
    <3>1. c.target \in Env /\ c \in Connection
      BY ActualConnections, ConnectionAssumption
    <3>2. CASE c.target = e
      <4>1. Granted(c, tag)'
        BY <1>1, <2>3, <3>1, <3>2 DEF Inputs
      <4>2. logical_time'[c.target] = tag
        BY <2>1, <3>1, <3>2 DEF TypeOK
      <4>. QED
        BY <4>1, <4>2 DEF AcquiredFrom, Granted
    <3>3. CASE c.target # e
      <4>1. logical_time'[c.target] = logical_time[c.target]
        BY <2>1, <3>1, <3>3 DEF TypeOK
      <4>. QED
        BY <4>1, AcquiredStays
    <3>. QED
      BY <3>2, <3>3
  <2>. QED
    BY <2>2, <2>4 DEF AcquiredInv
<1>4. ASSUME NEW c \in S,
             t_next' = [t_next EXCEPT ![e] = tag],
             asked' = [asked EXCEPT ![e] = c],
             to_ask' = [to_ask EXCEPT ![e] = S \ {c}],
             Goto(e, "request"),
             UNCHANGED <<logical_time, events, empty_events, granted, releasing>>
      PROVE  AskedInv' /\ AcquiredInv'
  <2>1. pc' = [pc EXCEPT ![e] = "request"] /\ UNCHANGED <<logical_time, granted>>
    BY <1>4 DEF Goto
  <2>2. ASSUME NEW f \in Env PROVE AskedOf(f)'
    <3>1. CASE f = e
      <4>1. /\ t_next'[e] = tag /\ asked'[e] = c /\ to_ask'[e] = S \ {c} /\ pc'[e] = "request"
        BY <1>4, <2>1 DEF TypeOK
      <4>2. \A i \in Inputs(e)' : i \in to_ask'[e] \/ i = asked'[e] \/ Granted(i, tag)'
        BY <1>1, <1>2, <4>1
      <4>. QED
        BY <3>1, <4>1, <4>2 DEF AskedOf, Granted
    <3>2. CASE f # e
      <4>1. pc'[f] = pc[f] /\ UNCHANGED <<asked[f], to_ask[f], t_next[f], granted[f]>>
        BY <1>4, <2>1, <3>2 DEF TypeOK
      <4>. QED
        BY <4>1, AskedStays
    <3>. QED
      BY <3>1, <3>2
  <2>3. ASSUME NEW i \in connections PROVE AcquiredFrom(i)'
    BY <2>1, AcquiredStays
  <2>. QED
    BY <2>2, <2>3 DEF AskedInv, AcquiredInv
<1>. QED
  BY <1>3, <1>4 DEF Acquire

LEMMA StepGranted ==
  ASSUME IInv, TypeOK', Next
  PROVE  AskedInv' /\ AcquiredInv'
<1>. USE DEF control, Goto, IInv
<1>1. [Next]_vars
  OBVIOUS
<1>2. ASSUME NEW e \in Env, NEW l \in Location,
             pc' = [pc EXCEPT ![e] = l], l \notin {"request", "wait"} \/ l = pc[e],
             UNCHANGED <<connections, asking>>
      PROVE  AskedInv'
  <2>1. ASSUME NEW f \in Env PROVE AskedOf(f)'
    <3>1. pc'[f] = pc[f] \/ pc'[f] \notin {"request", "wait"}
      BY <1>2 DEF TypeOK
    <3>2. UNCHANGED <<asked[f], to_ask[f], t_next[f], granted[f]>>
      BY <1>2 DEF asking
    <3>. QED
      BY <1>1, <1>2, <3>1, <3>2, AskedStays
  <2>. QED
    BY <2>1 DEF AskedInv
<1>3. ASSUME UNCHANGED <<connections, logical_time>>, \A f \in Env : stop[f] => stop'[f]
      PROVE  AcquiredInv'
  <2>1. ASSUME NEW c \in connections PROVE AcquiredFrom(c)'
    BY <1>1, <1>3, <2>1, AcquiredStays, ActualConnections, ConnectionAssumption
  <2>. QED
    BY <1>3, <2>1 DEF AcquiredInv
<1>4. ASSUME NEW e \in Env, start(e) PROVE AskedInv' /\ AcquiredInv'
  <2>1. /\ pc' = [pc EXCEPT ![e] = "release"]
        /\ logical_time' = [logical_time EXCEPT ![e] = decrement(start_tag)]
        /\ UNCHANGED <<connections, asking, stop>>
    BY <1>4 DEF start
  <2>2. decrement(start_tag) \prec start_tag
    <3>1. decrement(start_tag) \preceq decrement(start_tag)
      BY StartTags, TagOrder
    <3>. QED
      BY <3>1, StartTags, DecrementIsPredecessor
  <2>3. ASSUME NEW c \in connections PROVE AcquiredFrom(c)'
    <3>1. c.target \in Env
      BY <2>3, ActualConnections, ConnectionAssumption
    <3>2. logical_time'[c.target] = logical_time[c.target] \/ logical_time'[c.target] \prec start_tag
      BY <2>1, <2>2, <3>1 DEF TypeOK
    <3>3. stop[c.target] => stop'[c.target]
      BY <2>1
    <3>. QED
      BY <1>1, <2>3, <3>2, <3>3, AcquiredStays
  <2>4. AcquiredInv'
    BY <2>1, <2>3 DEF AcquiredInv
  <2>. QED
    BY <1>2, <2>1, <2>4 DEF Location
<1>5. ASSUME NEW e \in Env, Select(e) PROVE AskedInv' /\ AcquiredInv'
  <2>1. Inputs(e) \in SUBSET Connection
    BY ActualConnections DEF Inputs
  <2>2. PICK tag \in Tag : Acquire(e, tag, Inputs(e))
    BY <1>5 DEF Select, Queue, TypeOK
  <2>3. UNCHANGED <<connections, stop>>
    BY <1>5 DEF Select
  <2>. QED
    BY <1>1, <2>1, <2>2, <2>3, AcquireGranted
<1>6. ASSUME NEW e \in Env, Request(e) PROVE AskedInv' /\ AcquiredInv'
  <2>. DEFINE u == asked[e].source
              tag == UpstreamTag(asked[e], t_next[e])
  <2>1. /\ pc[e] = "request" /\ pc' = [pc EXCEPT ![e] = "wait"]
        /\ granted' = [granted EXCEPT ![e] = tag \prec logical_time[u]]
        /\ UNCHANGED <<connections, logical_time, t_next, asked, to_ask, stop, released_time>>
    BY <1>6 DEF Request, At, releasing
  <2>2. ASSUME NEW f \in Env PROVE AskedOf(f)'
    <3>0. AskedOf(f)
      BY <2>2 DEF AskedInv
    <3>1. CASE f = e
      <4>1. \A c \in Inputs(e) : c \in to_ask[e] \/ c = asked[e] \/ Granted(c, t_next[e])
        BY <2>1, <3>0, <3>1 DEF AskedOf
      <4>2. granted'[e] => Granted(asked[e], t_next[e])
        BY <2>1 DEF Granted, TypeOK
      <4>. QED
        BY <2>1, <3>1, <4>1, <4>2 DEF AskedOf, Granted, Inputs
    <3>2. CASE f # e
      <4>1. pc'[f] = pc[f] /\ granted'[f] = granted[f]
        BY <2>1, <3>2 DEF TypeOK
      <4>. QED
        BY <2>1, <3>0, <4>1 DEF AskedOf, Granted, Inputs
    <3>. QED
      BY <3>1, <3>2
  <2>. QED
    BY <1>3, <2>1, <2>2 DEF AskedInv
<1>7. ASSUME NEW e \in Env, Resume(e) PROVE AskedInv' /\ AcquiredInv'
  <2>1. pc[e] = "wait" /\ UNCHANGED <<connections, stop>>
    BY <1>7 DEF Resume, At
  <2>2. CASE ~IsNext(e, t_next[e])
    BY <1>2, <1>3, <1>7, <2>1, <2>2 DEF Resume, Location
  <2>3. CASE IsNext(e, t_next[e])
    <3>1. /\ Acquire(e, t_next[e], to_ask[e])
          /\ granted[e] \/ try_acquire_tag(asked[e], t_next[e])
          /\ t_next[e] \in Tag /\ to_ask[e] \in SUBSET Connection
      BY <1>7, <2>3 DEF Resume, TypeOK
    <3>2. AskedOf(e)
      BY DEF AskedInv
    <3>3. Granted(asked[e], t_next[e])
      BY <2>1, <3>1, <3>2 DEF AskedOf, Granted, try_acquire_tag
    <3>4. \A c \in Inputs(e) : c \in to_ask[e] \/ Granted(c, t_next[e])
      BY <2>1, <3>2, <3>3 DEF AskedOf
    <3>5. PICK tag \in Tag : tag = t_next[e]
      BY <3>1
    <3>6. PICK S \in SUBSET Connection : S = to_ask[e]
      BY <3>1
    <3>7. /\ Acquire(e, tag, S)
          /\ \A c \in Inputs(e) : c \in S \/ Granted(c, tag)
      BY <3>1, <3>4, <3>5, <3>6
    <3>. QED
      BY <1>1, <2>1, <3>7, AcquireGranted
  <2>. QED
    BY <2>2, <2>3
<1>8. ASSUME NEW e \in Env, Stop(e) PROVE AskedInv' /\ AcquiredInv'
  <2>1. /\ \E l \in {"react", "loop", "release"} : pc' = [pc EXCEPT ![e] = l]
        /\ stop' = [stop EXCEPT ![e] = TRUE]
        /\ \A f \in Env : f # e => logical_time'[f] = logical_time[f]
        /\ UNCHANGED <<connections, asking>>
    BY <1>8 DEF Stop, TypeOK
  <2>2. AskedInv'
    BY <1>2, <2>1 DEF Location
  <2>3. ASSUME NEW c \in connections PROVE AcquiredFrom(c)'
    <3>1. c.target \in Env
      BY <2>3, ActualConnections, ConnectionAssumption
    <3>2. CASE c.target = e
      BY <2>1, <3>1, <3>2 DEF AcquiredFrom, TypeOK
    <3>3. CASE c.target # e
      <4>1. logical_time'[c.target] = logical_time[c.target] /\ stop'[c.target] = stop[c.target]
        BY <2>1, <3>1, <3>3 DEF TypeOK
      <4>. QED
        BY <1>1, <2>3, <4>1, AcquiredStays
    <3>. QED
      BY <3>2, <3>3
  <2>. QED
    BY <2>1, <2>2, <2>3 DEF AcquiredInv
<1>9. ASSUME NEW e \in Env, Released(e) \/ EndReactions(e) PROVE AskedInv' /\ AcquiredInv'
  <2>1. /\ \E l \in {"loop", "done", "release"} : pc' = [pc EXCEPT ![e] = l]
        /\ UNCHANGED <<connections, asking, logical_time, stop>>
    BY <1>9 DEF Released, EndReactions
  <2>. QED
    BY <1>2, <1>3, <2>1 DEF Location
<1>10. ASSUME NEW e \in Env,
              \/ ReactionShutdown(e) \/ StopCrash(e)
              \/ \E c \in connections : ReleaseTag(e, c)
              \/ \E c \in connections : Send(e, c)
              \/ \E d \in Delay : ScheduleSync(e, d)
       PROVE  AskedInv' /\ AcquiredInv'
  <2>1. /\ stop' = [stop EXCEPT ![e] = TRUE] \/ UNCHANGED stop
        /\ UNCHANGED <<connections, pc, asking, logical_time>>
    BY <1>10 DEF ReactionShutdown, StopCrash, ReleaseTag, Send, ScheduleSync
  <2>2. pc' = [pc EXCEPT ![e] = pc[e]] /\ pc[e] \in Location
    BY <2>1 DEF TypeOK
  <2>3. \A f \in Env : stop[f] => stop'[f]
    BY <2>1 DEF TypeOK
  <2>. QED
    BY <1>2, <1>3, <2>1, <2>2, <2>3
<1>. QED
  BY <1>4, <1>5, <1>6, <1>7, <1>8, <1>9, <1>10 DEF Next, Step

-----------------------------------------------------------------------------
LEMMA InitInv == Init => IInv
<1>. SUFFICES ASSUME Init PROVE IInv
  OBVIOUS
<1>1. TypeOK
  BY InitTypes
<1>2. TagAt(0, 0) \preceq TagAt(0, 0)
  BY StartTags, TagOrder
<1>3. \A e \in Env : pc[e] \in {"start", "done"} /\ logical_time[e] = TagAt(0, 0)
  BY DEF Init
<1>4. ReleaseInv
  BY <1>2, <1>3, ConnectionAssumption DEF Init, ReleaseInv
<1>5. FutureInv
  BY DEF Init, FutureInv, Queue
<1>6. BegunInv /\ AskedInv
  BY <1>3 DEF BegunInv, AskedInv, AskedOf
<1>7. AcquiredInv
  BY <1>1, <1>3, ActualConnections, ConnectionAssumption, StartTags DEF AcquiredInv, AcquiredFrom
<1>. QED
  BY <1>1, <1>4, <1>5, <1>6, <1>7 DEF IInv

LEMMA StepInv == IInv /\ [Next]_vars => IInv'
<1>. SUFFICES ASSUME IInv, [Next]_vars PROVE IInv'
  OBVIOUS
<1>1. TypeOK'
  BY StepTypes DEF IInv
<1>2. CASE Next
  BY <1>1, <1>2, StepReleases, StepFuture, StepGranted DEF IInv
<1>3. CASE UNCHANGED vars
  <2>1. ReleaseInv' /\ FutureInv' /\ BegunInv'
    BY <1>3 DEF vars, releasing, IInv, ReleaseInv, FutureInv, BegunInv, Queue, Outputs
  <2>2. AskedInv' /\ AcquiredInv'
    BY <1>3 DEF vars, asking, control, releasing, IInv, AskedInv, AskedOf, AcquiredInv, AcquiredFrom, Granted, Inputs
  <2>. QED
    BY <1>1, <2>1, <2>2 DEF IInv
<1>. QED
  BY <1>2, <1>3

LEMMA EventsComeInTime == IInv => EventsAccepted
<1>. SUFFICES ASSUME IInv, NEW c \in connections, pc[c.source] = "react", ~stop[c.target],
                     ~Overflows(logical_time[c.source], c.delay)
              PROVE  logical_time[c.target] \prec SentTag(c, logical_time[c.source])
  BY DEF EventsAccepted
<1>. USE DEF IInv
<1>1. c \in Connection /\ c.source \in Env /\ c.target \in Env /\ c.delay \in Nat \cup {NoDelay}
  BY ActualConnections, ConnectionAssumption
<1>. DEFINE sent == logical_time[c.source]
            tag == logical_time[c.target]
<1>2. sent \in Tag /\ tag \in Tag /\ SentTag(c, sent) \in Tag /\ UpstreamTag(c, tag) \in Tag
  BY <1>1, ConnectionTypes DEF TypeOK
<1>3. CASE tag \prec start_tag
  <2>1. start_tag \preceq sent
    BY <1>1 DEF BegunInv
  <2>2. sent \preceq SentTag(c, sent)
    <3>1. CASE c.delay = NoDelay
      BY <1>2, <3>1, TagOrder DEF SentTag
    <3>2. CASE c.delay # NoDelay
      <4>1. sent \prec delay(sent, c.delay)
        BY <1>1, <1>2, <3>2, DelayIsLater
      <4>. QED
        BY <1>2, <3>2, <4>1, TagOrder DEF SentTag
    <3>. QED
      BY <3>1, <3>2
  <2>3. tag \prec sent
    BY <1>2, <1>3, <2>1, StartTags, TagOrder
  <2>. QED
    BY <1>2, <2>2, <2>3, TagOrder
<1>4. CASE Granted(c, tag)
  <2>1. released_time[c] \prec sent /\ released_time[c] \in Tag
    BY <1>1 DEF ReleaseInv, TypeOK
  <2>2. UpstreamTag(c, tag) \prec sent
    BY <1>2, <1>4, <2>1, TagOrder DEF Granted
  <2>. QED
    BY <1>1, <1>2, <2>2, SentIsLater
<1>. QED
  BY <1>3, <1>4 DEF AcquiredInv, AcquiredFrom

(* Every variable keeps its type in every behaviour. *)
THEOREM TypeCorrect == Spec => []TypeOK
<1>1. Init => TypeOK
  BY InitTypes
<1>2. TypeOK /\ [Next]_vars => TypeOK'
  BY StepTypes
<1>. QED
  BY <1>1, <1>2, PTL DEF Spec

(* Whatever reactions send over enclave connections is accepted by the     *)
(* downstream environment, unless that is stopping: the assertion in       *)
(* EnclaveConnection::upstream_set_callback holds, and no event of a       *)
(* delayed connection is dropped.                                          *)
THEOREM NothingComesTooLate == Spec => []EventsAccepted
<1>1. Init => IInv
  BY InitInv
<1>2. IInv /\ [Next]_vars => IInv'
  BY StepInv
<1>3. IInv => EventsAccepted
  BY EventsComeInTime
<1>. QED
  BY <1>1, <1>2, <1>3, PTL DEF Spec

=============================================================================
