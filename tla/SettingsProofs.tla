--------------------------- MODULE SettingsProofs ---------------------------
(***************************************************************************)
(* For every width of the integers, every length of a second and every     *)
(* setting: the lifetimes that a room comes to have are those asked for,   *)
(* and they do not drift.                                                  *)
(*                                                                         *)
(* A lifetime goes to whole seconds and back each time the room is stored  *)
(* and loaded.  Going there rounds towards zero, so that coming back never *)
(* leaves the integers (SecondsRound) and going there again finds the same *)
(* number (SecondsStable): the stored record is a fixed point.             *)
(***************************************************************************)
EXTENDS Settings, TLAPS

-----------------------------------------------------------------------------
(***************************************************************************)
(* Arithmetic.                                                             *)
(***************************************************************************)

\* Division with rest.
LEMMA Division ==
    ASSUME NEW a \in Nat, NEW b \in Nat \ {0}
    PROVE  a \div b \in Nat /\ (a \div b) * b <= a /\ a < (a \div b) * b + b
OBVIOUS

\* What wraps around is an integer, and what is one does not wrap.
LEMMA WrapLemma ==
    ASSUME NEW n \in Int
    PROVE  Wrap(n) \in Ints /\ (n \in Ints => Wrap(n) = n)
<1> DEFINE m == MaxInt + 1
<1>1. m \in Nat \ {0} /\ 2 * m \in Nat \ {0} /\ n + m \in Int
  BY SettingsAssumption
<1> HIDE DEF m
<1>2. (n + m) % (2 * m) \in 0..(2 * m - 1)
  BY <1>1
<1>3. n + m \in 0..(2 * m - 1) => (n + m) % (2 * m) = n + m
  BY <1>1
<1>4. n + MaxInt + 1 = n + m /\ m = MaxInt + 1
  BY SettingsAssumption DEF m
<1> QED
  BY <1>1, <1>2, <1>3, <1>4, SettingsAssumption DEF Wrap, Ints

\* d / time.Second rounds towards zero: it loses less than a second, and never
\* changes the sign.
LEMMA SecondsRound ==
    ASSUME NEW d \in Ints
    PROVE  LET n == WholeSeconds(d) IN
           /\ n \in Int /\ n * Second \in Ints
           /\ d >= 0 => 0 <= n * Second /\ n * Second <= d /\ d < n * Second + Second
           /\ d < 0  => n * Second - Second < d /\ d <= n * Second /\ n * Second <= 0
<1>0. d \in Int /\ Second \in Nat \ {0} /\ MaxInt \in Nat
  BY SettingsAssumption DEF Ints
<1>1. CASE d >= 0
  <2>1. d \in Nat /\ WholeSeconds(d) = d \div Second
    BY <1>0, <1>1 DEF WholeSeconds
  <2>2. d \div Second \in Nat /\ (d \div Second) * Second <= d /\ d < (d \div Second) * Second + Second
    BY <1>0, <2>1, Division
  <2>3. (d \div Second) * Second \in Nat
    BY <1>0, <2>2
  <2> QED
    BY <1>0, <1>1, <2>1, <2>2, <2>3 DEF Ints
<1>2. CASE d < 0
  <2> DEFINE e == -d
             q == e \div Second
  <2>1. e \in Nat /\ WholeSeconds(d) = -q
    BY <1>0, <1>2 DEF WholeSeconds
  <2> HIDE DEF e
  <2>2. q \in Nat /\ q * Second <= e /\ e < q * Second + Second
    BY <1>0, <2>1, Division
  <2> HIDE DEF q
  <2>3. q * Second \in Nat /\ (-q) * Second = -(q * Second)
    BY <1>0, <2>2
  <2> QED
    BY <1>0, <1>2, <2>1, <2>2, <2>3 DEF Ints, e
<1> QED
  BY <1>0, <1>1, <1>2

\* What has been whole seconds once stays the same number of seconds.
LEMMA SecondsStable ==
    ASSUME NEW d \in Ints
    PROVE  /\ WholeSeconds(d) \in Ints
           /\ InSeconds(WholeSeconds(d)) = WholeSeconds(d) * Second
           /\ WholeSeconds(InSeconds(WholeSeconds(d))) = WholeSeconds(d)
<1> DEFINE n == WholeSeconds(d)
<1>0. Second \in Nat \ {0} /\ MaxInt \in Nat
  BY SettingsAssumption
<1>1. n \in Int /\ n * Second \in Ints
  BY SecondsRound
<1>2. InSeconds(n) = n * Second
  BY <1>0, <1>1, WrapLemma DEF InSeconds
<1> HIDE DEF n
<1>3. WholeSeconds(n * Second) = n
  <2>1. CASE n >= 0
    <3>1. n * Second >= 0 /\ (n * Second) \div Second = n
      BY <1>0, <1>1, <2>1
    <3> QED
      BY <3>1 DEF WholeSeconds
  <2>2. CASE n < 0
    <3> DEFINE k == -n
    <3>1. k \in Nat \ {0} /\ n = -k
      BY <1>1, <2>2
    <3> HIDE DEF k
    <3>2. k * Second > 0 /\ n * Second = -(k * Second) /\ (k * Second) \div Second = k
      BY <1>0, <3>1
    <3> QED
      BY <1>0, <3>1, <3>2 DEF WholeSeconds
  <2> QED
    BY <1>1, <2>1, <2>2
<1>4. n \in Ints
  <2>1. n >= 0 => n <= n * Second
    BY <1>0, <1>1
  <2>2. n < 0 => n * Second <= n
    BY <1>0, <1>1
  <2> QED
    BY <1>0, <1>1, <2>1, <2>2 DEF Ints
<1> QED
  BY <1>2, <1>3, <1>4 DEF n

-----------------------------------------------------------------------------
(***************************************************************************)
(* config.Load                                                             *)
(***************************************************************************)

\* Every setting that is used parses.
Accepted == \A i \in 1..Len(Order) : ~Refused(i)

\* The settings are the fields of an environment.
LEMMA OrderFacts ==
    /\ Len(Order) = 8
    /\ Order[1] = "WAITING_ROOM_ID" /\ Order[2] = "WAITING_ROOM_CAPACITY"
    /\ Order[3] = "WAITING_ROOM_TTL_SECONDS" /\ Order[4] = "WAITING_ROOM_TICKET_TTL"
    /\ Order[5] = "HTTP_SHUTDOWN_TIMEOUT" /\ Order[6] = "TARGET_MAX_ACTIVE_SESSIONS"
    /\ Order[7] = "SESSION_TTL_SECONDS" /\ Order[8] = "VALKEY_DB"
BY DEF Order

\* What each setting can be, and that none that parses is one that does not.
LEMMA EnvironmentFacts ==
    ASSUME env \in Environments
    PROVE  /\ env.WAITING_ROOM_CAPACITY \in {Unset, Malformed} \cup Numbers
           /\ env.WAITING_ROOM_TTL_SECONDS \in {Unset, Malformed} \cup Numbers
           /\ env.WAITING_ROOM_TICKET_TTL \in {Unset, Malformed} \cup Durations
           /\ env.HTTP_SHUTDOWN_TIMEOUT \in {Unset, Malformed} \cup Durations
           /\ env.SESSION_TTL_SECONDS \in {Unset, Malformed} \cup Numbers
           /\ Unset # Malformed /\ Unset \notin Ints /\ Malformed \notin Ints
           /\ Numbers \subseteq Ints /\ Durations \subseteq Ints
<1>1. Unset # Malformed /\ Unset \notin Ints /\ Malformed \notin Ints
      /\ Numbers \subseteq Ints /\ Durations \subseteq Ints
  BY SettingsAssumption
<1> QED
  BY <1>1 DEF Environments

\* A process that is not refused has only settings that parse, but for a
\* ticket lifetime that is not looked at.
LEMMA AcceptedFacts ==
    ASSUME env \in Environments, Accepted
    PROVE  /\ env.WAITING_ROOM_CAPACITY \in {Unset} \cup Numbers
           /\ env.WAITING_ROOM_TTL_SECONDS \in {Unset} \cup Numbers
           /\ env.WAITING_ROOM_TTL_SECONDS = Unset =>
                  env.WAITING_ROOM_TICKET_TTL \in {Unset} \cup Durations
           /\ env.HTTP_SHUTDOWN_TIMEOUT \in {Unset} \cup Durations
           /\ env.SESSION_TTL_SECONDS \in {Unset} \cup Numbers
<1>1. \A i \in 1..8 : env[Order[i]] = Malformed =>
          Order[i] = "WAITING_ROOM_TICKET_TTL" /\ env.WAITING_ROOM_TTL_SECONDS # Unset
  BY OrderFacts DEF Accepted, Refused
<1>2. /\ env["WAITING_ROOM_CAPACITY"] # Malformed /\ env["WAITING_ROOM_TTL_SECONDS"] # Malformed
      /\ env["HTTP_SHUTDOWN_TIMEOUT"] # Malformed /\ env["SESSION_TTL_SECONDS"] # Malformed
      /\ env["WAITING_ROOM_TICKET_TTL"] = Malformed => env.WAITING_ROOM_TTL_SECONDS # Unset
  BY <1>1, OrderFacts
<1> QED
  BY <1>2, EnvironmentFacts

\* A number of seconds becomes a duration, and one that does not overflow the
\* duration of as many seconds.
LEMMA SecondsOrZeroFacts ==
    ASSUME NEW n \in Ints
    PROVE  /\ SecondsOrZero(n) \in Ints
           /\ n > 0 /\ n * Second \in Ints => SecondsOrZero(n) = n * Second
<1>1. n \in Int /\ n * Second \in Int /\ 0 \in Ints
  BY SettingsAssumption DEF Ints
<1> QED
  BY <1>1, WrapLemma DEF SecondsOrZero, InSeconds

\* What Load makes of the settings: lifetimes are as asked for if that is a
\* duration at all, and the timeout of the shutdown is positive.
LEMMA ConfigFacts ==
    ASSUME env \in Environments, Accepted
    PROVE  /\ Config.capacity \in Ints /\ Config.ticketTTL \in Ints /\ Config.sessionTTL \in Ints
           /\ Config.shutdown \in Ints /\ Config.shutdown > 0
           /\ Asked \in Ints => Config.ticketTTL = Asked
<1>0. /\ 10 \in Ints /\ DefaultTTL * Second \in Ints /\ DefaultStop * Second \in Ints
      /\ DefaultTTL \in Ints /\ DefaultStop * Second > 0
  <2>1. DefaultTTL <= DefaultTTL * Second /\ DefaultStop * Second > 0
    BY SettingsAssumption
  <2> QED
    BY <2>1, SettingsAssumption DEF Ints
<1>1. \/ env.WAITING_ROOM_CAPACITY = Unset /\ Config.capacity = 10
      \/ env.WAITING_ROOM_CAPACITY \in Numbers /\ Config.capacity = env.WAITING_ROOM_CAPACITY
  BY AcceptedFacts, EnvironmentFacts DEF Config, Setting
<1>2. Config.ticketTTL \in Ints /\ (Asked \in Ints => Config.ticketTTL = Asked)
  <2> DEFINE n == env.WAITING_ROOM_TTL_SECONDS
  <2>1. CASE n = Unset
    <3>1. Config.ticketTTL = Asked
      BY <2>1 DEF Config, Asked
    <3>2. Asked \in Ints
      BY <1>0, <2>1, AcceptedFacts, EnvironmentFacts DEF Asked, Setting
    <3> QED
      BY <3>1, <3>2
  <2>2. CASE n # Unset
    <3>1. n \in Ints /\ Config.ticketTTL = SecondsOrZero(n)
      BY <2>2, AcceptedFacts, EnvironmentFacts DEF Config
    <3>2. Asked = IF n <= 0 THEN 0 ELSE n * Second
      BY <2>2 DEF Asked
    <3> HIDE DEF n
    <3>3. n <= 0 => SecondsOrZero(n) = 0
      BY DEF SecondsOrZero
    <3>4. n \in Int
      BY <3>1 DEF Ints
    <3> QED
      BY <3>1, <3>2, <3>3, <3>4, SecondsOrZeroFacts
  <2> QED
    BY <2>1, <2>2
<1>3. Config.sessionTTL \in Ints
  <2>1. Setting("SESSION_TTL_SECONDS", DefaultTTL) \in Ints
    BY <1>0, AcceptedFacts, EnvironmentFacts DEF Setting
  <2> QED
    BY <2>1, SecondsOrZeroFacts DEF Config
<1>4. Config.shutdown \in Ints /\ Config.shutdown > 0
  <2> DEFINE d == Setting("HTTP_SHUTDOWN_TIMEOUT", DefaultStop * Second)
  <2>1. d \in Ints
    BY <1>0, AcceptedFacts, EnvironmentFacts DEF Setting
  <2>2. Config.shutdown = IF d <= 0 THEN DefaultStop * Second ELSE d
    BY DEF Config, Shutdown
  <2> HIDE DEF d
  <2> QED
    BY <1>0, <2>1, <2>2 DEF Ints
<1>5. Config.capacity \in Ints
  BY <1>0, <1>1, EnvironmentFacts
<1> QED
  BY <1>1, <1>2, <1>3, <1>4, <1>5

-----------------------------------------------------------------------------
(***************************************************************************)
(* The process.                                                            *)
(***************************************************************************)

\* The inductive invariant: in which phase which records are what they are.
SettingsInv ==
    /\ env \in Environments
    /\ phase \in {"start", "loaded", "refused", "died", "unreachable", "serving"}
    /\ phase \in {"start", "refused"} => cfg = NoConfig
    /\ phase \notin {"start", "refused"} => Accepted /\ cfg = Config
    /\ phase # "serving" => stored = Nothing
    /\ phase = "serving" => stored = Record(cfg.capacity, cfg.ticketTTL)
    /\ lifetime \in Ints

\* A visit gives a lifetime and leaves the room as it was.
LEMMA VisitFacts ==
    ASSUME SettingsInv, phase = "serving"
    PROVE  RoomTTL(stored) \in Ints /\ Record(stored.capacity, RoomTTL(stored)) = stored
<1>1. cfg.ticketTTL \in Ints /\ stored = Record(cfg.capacity, cfg.ticketTTL)
  BY ConfigFacts DEF SettingsInv
<1> DEFINE n == WholeSeconds(cfg.ticketTTL)
<1>2. stored.capacity = cfg.capacity /\ stored.ttlSeconds = n
  BY <1>1 DEF Record
<1>3. RoomTTL(stored) = InSeconds(n)
  BY <1>2 DEF RoomTTL
<1>4. InSeconds(n) \in Ints /\ WholeSeconds(InSeconds(n)) = n
  BY <1>1, SecondsStable, SecondsRound
<1> QED
  BY <1>1, <1>2, <1>3, <1>4 DEF Record

\* SettingsInv holds in every reachable state.
THEOREM SettingsInvariance == SettingsSpec => []SettingsInv
<1>1. SettingsInit => SettingsInv
  BY SettingsAssumption DEF SettingsInit, SettingsInv, Ints
<1>2. SettingsInv /\ [SettingsNext]_settingsVars => SettingsInv'
  <2> SUFFICES ASSUME SettingsInv, [SettingsNext]_settingsVars PROVE SettingsInv'
    OBVIOUS
  <2>1. ASSUME env' = env PROVE Accepted' = Accepted /\ Config' = Config
    BY <2>1 DEF Accepted, Refused, Config, Setting
  <2>2. CASE Load
    BY <2>1, <2>2 DEF Load, SettingsInv, Accepted
  <2>3. CASE Seed
    BY <2>1, <2>3 DEF Seed, SettingsInv
  <2>4. CASE Visit
    BY <2>1, <2>4, VisitFacts DEF Visit, SettingsInv
  <2>5. CASE UNCHANGED settingsVars
    BY <2>1, <2>5 DEF settingsVars, SettingsInv
  <2> QED
    BY <2>2, <2>3, <2>4, <2>5 DEF SettingsNext
<1> QED
  BY <1>1, <1>2, PTL DEF SettingsSpec

\* Whatever numbers the settings are, no lifetime leaves the integers, and a
\* process that serves has a positive timeout for its shutdown.
THEOREM SettingsTypeCorrect == SettingsSpec => []SettingsTypeOK
<1>1. SettingsInv => SettingsTypeOK
  <2> SUFFICES ASSUME SettingsInv PROVE SettingsTypeOK
    OBVIOUS
  <2>1. 0 \in Ints
    BY SettingsAssumption DEF Ints
  <2>2. /\ cfg.capacity \in Ints /\ cfg.ticketTTL \in Ints /\ cfg.sessionTTL \in Ints
        /\ phase \in {"loaded", "serving"} => cfg.shutdown \in Ints /\ cfg.shutdown > 0
    BY <2>1, ConfigFacts DEF SettingsInv, NoConfig
  <2>3. stored.ttlSeconds \in Ints
    <3>1. CASE phase = "serving"
      BY <2>2, <3>1, SecondsStable DEF SettingsInv, Record
    <3>2. CASE phase # "serving"
      BY <2>1, <3>2 DEF SettingsInv, Nothing
    <3> QED
      BY <3>1, <3>2
  <2> QED
    BY <2>2, <2>3 DEF SettingsInv, SettingsTypeOK
<1> QED
  BY <1>1, SettingsInvariance, PTL

\* The lifetime of a room that has been stored and loaded any number of times
\* is the one asked for, cut to whole seconds.
THEOREM LifetimesAreAsAsked == SettingsSpec => []LifetimeAsAsked
<1>1. SettingsInv => LifetimeAsAsked
  <2> SUFFICES ASSUME SettingsInv, phase = "serving", Asked \in Ints
               PROVE  LET got == RoomTTL(stored)
                      IN  \/ 0 <= got /\ got <= Asked /\ Asked < got + Second
                          \/ got - Second < Asked /\ Asked <= got /\ got <= 0
    BY DEF LifetimeAsAsked
  <2>1. cfg.ticketTTL = Asked /\ stored = Record(cfg.capacity, cfg.ticketTTL)
    BY ConfigFacts DEF SettingsInv
  <2>2. RoomTTL(stored) = WholeSeconds(Asked) * Second
    BY <2>1, SecondsStable DEF RoomTTL, Record
  <2>3. Asked >= 0 \/ Asked < 0
    BY DEF Ints
  <2> QED
    BY <2>2, <2>3, SecondsRound
<1> QED
  BY <1>1, SettingsInvariance, PTL

\* No request, loading the room and writing it back, changes its lifetime.
THEOREM LifetimesDoNotDrift == SettingsSpec => NoDrift
<1>1. SettingsInv /\ [SettingsNext]_settingsVars => [phase = "serving" => stored' = stored]_settingsVars
  BY VisitFacts DEF SettingsNext, Load, Seed, Visit, settingsVars
<1> QED
  BY <1>1, SettingsInvariance, PTL DEF SettingsSpec, NoDrift
=============================================================================
