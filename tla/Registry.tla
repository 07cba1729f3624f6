------------------------------ MODULE Registry ------------------------------
(***************************************************************************)
(* ConnectionRegistry (lockframe-server/src/registry.rs): the registered   *)
(* sessions and the two subscription maps, room -> sessions for broadcasts *)
(* and session -> rooms for the cleanup.  Every map is a function with the *)
(* value Absent for a key it does not hold, so that an entry with an empty *)
(* set is distinguished from no entry.                                     *)
(***************************************************************************)
EXTENDS Naturals

CONSTANTS Sessions, Rooms, Absent

\* A SessionInfo is reduced to its flag: user_id is Some exactly when it is set.
SessionInfo == [authenticated : BOOLEAN]

ASSUME AbsentAssumption ==
    /\ Absent \notin SessionInfo
    /\ \A ss \in SUBSET Sessions : Absent # ss
    /\ \A rs \in SUBSET Rooms : Absent # rs

VARIABLES
    sessions,               \* session -> SessionInfo
    room_subscriptions,     \* room -> sessions subscribed to it
    session_rooms           \* session -> rooms it is subscribed to

registryVars == <<sessions, room_subscriptions, session_rooms>>

RegistryTypeOK ==
    /\ sessions \in [Sessions -> SessionInfo \cup {Absent}]
    /\ room_subscriptions \in [Rooms -> (SUBSET Sessions) \cup {Absent}]
    /\ session_rooms \in [Sessions -> (SUBSET Rooms) \cup {Absent}]

RegistryInit ==
    /\ sessions = [s \in Sessions |-> Absent]
    /\ room_subscriptions = [r \in Rooms |-> Absent]
    /\ session_rooms = [s \in Sessions |-> Absent]

-----------------------------------------------------------------------------
HasSession(s) == sessions[s] # Absent

\* or_default(), unwrap_or_default() and the lookups that treat no entry as an
\* empty set.
OrEmpty(set) == IF set = Absent THEN {} ELSE set

SessionsInRoom(r) == OrEmpty(room_subscriptions[r])

RoomsForSession(s) == OrEmpty(session_rooms[s])

\* The subscribers left after one is removed; an empty set gives up its entry.
Without(subscribers, s) ==
    IF OrEmpty(subscribers) \ {s} = {} THEN Absent
                                       ELSE subscribers \ {s}

-----------------------------------------------------------------------------
RegisterSession(s) ==
    IF HasSession(s)
    THEN UNCHANGED registryVars
    ELSE /\ sessions' = [sessions EXCEPT ![s] = [authenticated |-> FALSE]]
         /\ session_rooms' = [session_rooms EXCEPT ![s] = {}]
         /\ UNCHANGED room_subscriptions

\* Mutant of UnregisterSession: the room map is not cleaned up.
UnregisterSession_RoomsKept(s) ==
    IF HasSession(s)
    THEN /\ sessions' = [sessions EXCEPT ![s] = Absent]
         /\ session_rooms' = [session_rooms EXCEPT ![s] = Absent]
         /\ UNCHANGED room_subscriptions
    ELSE UNCHANGED registryVars

UnregisterSession(s) ==
    IF HasSession(s)
    THEN /\ sessions' = [sessions EXCEPT ![s] = Absent]
         /\ session_rooms' = [session_rooms EXCEPT ![s] = Absent]
         /\ room_subscriptions' =
               [r \in Rooms |-> IF r \in RoomsForSession(s)
                                THEN Without(room_subscriptions[r], s)
                                ELSE room_subscriptions[r]]
    ELSE UNCHANGED registryVars

\* sessions_mut, as the driver uses it after a Hello.
Authenticate(s) ==
    IF HasSession(s)
    THEN /\ sessions' = [sessions EXCEPT ![s] = [authenticated |-> TRUE]]
         /\ UNCHANGED <<room_subscriptions, session_rooms>>
    ELSE UNCHANGED registryVars

Subscribe(s, r) ==
    IF HasSession(s)
    THEN /\ room_subscriptions' = [room_subscriptions EXCEPT ![r] = OrEmpty(@) \cup {s}]
         /\ session_rooms' = [session_rooms EXCEPT ![s] = OrEmpty(@) \cup {r}]
         /\ UNCHANGED sessions
    ELSE UNCHANGED registryVars

Unsubscribe(s, r) ==
    /\ room_subscriptions' = [room_subscriptions EXCEPT ![r] = Without(@, s)]
    /\ session_rooms' =
          [session_rooms EXCEPT ![s] = IF @ = Absent THEN @ ELSE @ \ {r}]
    /\ UNCHANGED sessions

-----------------------------------------------------------------------------
RegistryNext ==
    \E s \in Sessions :
        \/ RegisterSession(s)
        \/ UnregisterSession(s)
        \/ Authenticate(s)
        \/ \E r \in Rooms : Subscribe(s, r) \/ Unsubscribe(s, r)

RegistrySpec == RegistryInit /\ [][RegistryNext]_registryVars

-----------------------------------------------------------------------------
\* The two maps agree, only registered sessions have room sets, and no room
\* keeps an empty set: unregister_session and unsubscribe each repair both maps,
\* so a broadcast never reaches, and the cleanup never misses, a subscription.
MapsAgree ==
    /\ \A s \in Sessions, r \in Rooms :
          s \in SessionsInRoom(r) <=> r \in RoomsForSession(s)
    /\ \A s \in Sessions : HasSession(s) <=> session_rooms[s] # Absent
    /\ \A r \in Rooms : room_subscriptions[r] # {}
=============================================================================
