------------------------------ MODULE Settings ------------------------------
(***************************************************************************)
(* From the environment variables to the lifetimes of tickets and sessions *)
(* (config/config.go, app/deps.go, waiting_room_repository.go).            *)
(*                                                                         *)
(* A lifetime is an int64 of nanoseconds in the program and a number of    *)
(* seconds in the settings and in the stored room.  Here the greatest      *)
(* duration is MaxInt and a second has Second units, so that the           *)
(* conversions wrap around and truncate as they do in Go, on numbers small *)
(* enough to try them all.                                                 *)
(***************************************************************************)
EXTENDS Integers, Sequences, SequencesExt

CONSTANTS
    MaxInt,         \* the greatest int and time.Duration (2^63 - 1)
    Second,         \* time.Second (10^9)
    Numbers,        \* what strconv.Atoi may return, a subset of the ints
    Durations,      \* what time.ParseDuration may return, likewise
    DefaultTTL,     \* 5 minutes, in seconds
    DefaultStop,    \* 10 seconds, in seconds
    MaxQueue,       \* the greatest capacity for which make finds the memory
    Unset,          \* a setting that is not there, or blank
    Malformed       \* one that does not parse

\* Two's complement.
Ints == -(MaxInt + 1) .. MaxInt

ASSUME SettingsAssumption ==
    /\ MaxInt \in Nat /\ Second \in Nat \ {0}
    /\ Numbers \subseteq Ints /\ Durations \subseteq Ints
    /\ 10 \in Ints /\ MaxQueue \in Nat /\ DefaultTTL \in Nat /\ DefaultTTL * Second \in Ints
    /\ DefaultStop \in Nat \ {0} /\ DefaultStop * Second \in Ints
    /\ Unset # Malformed /\ {Unset, Malformed} \cap Ints = {}

\* The settings that can be malformed, in the order Load reads them.
Order == <<"WAITING_ROOM_ID", "WAITING_ROOM_CAPACITY", "WAITING_ROOM_TTL_SECONDS",
           "WAITING_ROOM_TICKET_TTL", "HTTP_SHUTDOWN_TIMEOUT", "TARGET_MAX_ACTIVE_SESSIONS",
           "SESSION_TTL_SECONDS", "VALKEY_DB">>

\* Of the room's id, the limit and the number of the database it only matters
\* whether they parse.
Environments ==
    LET parsed == {Unset, Malformed}
        number == parsed \cup Numbers
        length == parsed \cup Durations
    IN  [WAITING_ROOM_ID : parsed, WAITING_ROOM_CAPACITY : number, WAITING_ROOM_TTL_SECONDS : number,
         WAITING_ROOM_TICKET_TTL : length, HTTP_SHUTDOWN_TIMEOUT : length,
         TARGET_MAX_ACTIVE_SESSIONS : parsed, SESSION_TTL_SECONDS : number, VALKEY_DB : parsed]

VARIABLES
    env,        \* the environment of the process
    phase,      \* how far it has come, or why it has ended
    cfg,        \* config.Config
    stored,     \* the record waiting_room:<id>, without its queue
    lifetime    \* what the last ticket issued was given

settingsVars == <<env, phase, cfg, stored, lifetime>>

Nothing == [capacity |-> 0, ttlSeconds |-> 0]
NoConfig == [capacity |-> 0, ticketTTL |-> 0, shutdown |-> 0, sessionTTL |-> 0]

SettingsInit ==
    /\ env \in Environments
    /\ phase = "start" /\ cfg = NoConfig /\ stored = Nothing /\ lifetime = 0
-----------------------------------------------------------------------------
(***************************************************************************)
(* Arithmetic of time.Duration.                                            *)
(***************************************************************************)
Wrap(n) == ((n + MaxInt + 1) % (2 * (MaxInt + 1))) - (MaxInt + 1)

\* time.Duration(n) * time.Second
InSeconds(n) == Wrap(n * Second)

\* (Mutant: \div rounds down.)
FloorSeconds(d) == d \div Second

\* d / time.Second, which rounds towards zero.
WholeSeconds(d) == IF d >= 0 THEN d \div Second ELSE -((-d) \div Second)
-----------------------------------------------------------------------------
(***************************************************************************)
(* config.Load                                                             *)
(***************************************************************************)

\* getEnvWithDefault.
Setting(name, default) == IF env[name] = Unset THEN default ELSE env[name]

\* WAITING_ROOM_TICKET_TTL is not looked at if the lifetime is given in seconds.
Refused(i) ==
    /\ env[Order[i]] = Malformed
    /\ ~(Order[i] = "WAITING_ROOM_TICKET_TTL" /\ env.WAITING_ROOM_TTL_SECONDS # Unset)

\* A number of seconds that is zero or less means zero.
SecondsOrZero(n) == IF n <= 0 THEN 0 ELSE InSeconds(n)

\* (Mutant: HTTP_SHUTDOWN_TIMEOUT is taken as it is.)
AnyShutdown(d) == d

\* A timeout that is zero or less means the default.
Shutdown(d) == IF d <= 0 THEN DefaultStop * Second ELSE d

Config ==
    [capacity   |-> Setting("WAITING_ROOM_CAPACITY", 10),
     ticketTTL  |-> IF env.WAITING_ROOM_TTL_SECONDS # Unset
                    THEN SecondsOrZero(env.WAITING_ROOM_TTL_SECONDS)
                    ELSE Setting("WAITING_ROOM_TICKET_TTL", DefaultTTL * Second),
     shutdown   |-> Shutdown(Setting("HTTP_SHUTDOWN_TIMEOUT", DefaultStop * Second)),
     sessionTTL |-> SecondsOrZero(Setting("SESSION_TTL_SECONDS", DefaultTTL))]

Load ==
    /\ phase = "start"
    /\ \/ /\ \A i \in 1..Len(Order) : ~Refused(i)
          /\ phase' = "loaded" /\ cfg' = Config
       \/ /\ \E i \in 1..Len(Order) : Refused(i)
          /\ phase' = "refused" /\ UNCHANGED cfg
    /\ UNCHANGED <<env, stored, lifetime>>
-----------------------------------------------------------------------------
(***************************************************************************)
(* NewDependencies, and what the handlers do with the result.              *)
(***************************************************************************)

\* newWaitingRoomRecord and toEntity.
Record(capacity, ttl) == [capacity |-> capacity, ttlSeconds |-> WholeSeconds(ttl)]
RoomTTL(record)       == InSeconds(record.ttlSeconds)

\* NewWaitingRoom makes a slice of the given capacity: the process dies of a
\* panic if that is negative or out of range, and of a lack of memory if it is
\* merely huge.  Otherwise the room is stored, if Valkey can be reached.
Seed ==
    /\ phase = "loaded"
    /\ \/ cfg.capacity \notin 0..MaxQueue /\ phase' = "died" /\ UNCHANGED stored
       \/ cfg.capacity \in 0..MaxQueue /\ phase' = "serving" /\ stored' = Record(cfg.capacity, cfg.ticketTTL)
       \/ phase' = "unreachable" /\ UNCHANGED stored
    /\ UNCHANGED <<env, cfg, lifetime>>

\* A request loads the room, issues a ticket with the room's TTL and writes the
\* room back.
Visit ==
    /\ phase = "serving"
    /\ lifetime' = RoomTTL(stored)
    /\ stored' = Record(stored.capacity, RoomTTL(stored))
    /\ UNCHANGED <<env, phase, cfg>>

SettingsNext == Load \/ Seed \/ Visit

SettingsSpec == SettingsInit /\ [][SettingsNext]_settingsVars
-----------------------------------------------------------------------------
(***************************************************************************)
(* Properties.                                                             *)
(***************************************************************************)

\* Lifetimes stay within their width; Shutdown is not given a timeout that has
\* passed already, whatever the settings.
SettingsTypeOK ==
    /\ phase \in {"start", "loaded", "refused", "died", "unreachable", "serving"}
    /\ cfg.capacity \in Ints /\ cfg.ticketTTL \in Ints /\ cfg.sessionTTL \in Ints
    /\ phase \in {"loaded", "serving"} => cfg.shutdown \in Ints /\ cfg.shutdown > 0
    /\ stored.ttlSeconds \in Ints /\ lifetime \in Ints

\* What the operator has asked for, in units of time: without a width.
Asked ==
    LET n == env.WAITING_ROOM_TTL_SECONDS
    IN  IF n = Unset THEN Setting("WAITING_ROOM_TICKET_TTL", DefaultTTL * Second)
        ELSE IF n <= 0 THEN 0 ELSE n * Second

\* The lifetime of a room that has been through Valkey is the one asked for,
\* cut to whole seconds: never longer, never a second shorter, and never of
\* another sign.  Only a number of seconds too great for a Duration is not.
LifetimeAsAsked ==
    phase = "serving" /\ Asked \in Ints =>
        LET got == RoomTTL(stored)
        IN  \/ 0 <= got /\ got <= Asked /\ Asked < got + Second
            \/ got - Second < Asked /\ Asked <= got /\ got <= 0

\* Every request reads the room and writes it back: its lifetime does not
\* drift with the number of requests.
NoDrift == [][phase = "serving" => stored' = stored]_settingsVars
=============================================================================
