---------------------------- MODULE Environment ----------------------------
(***************************************************************************)
(* The start-up of the simulation: Environment::run() builds the maps,     *)
(* fills the shared vector of each with food and starts the map threads,   *)
(* in a thread of its own and with no lock around m_maps.  Map i has the   *)
(* vector m_incomming_entities[i]; every push_back on it is atomic.        *)
(***************************************************************************)
EXTENDS Naturals

CONSTANTS m_map_count,      \* maps to build
          MAX_FOOD_PER_MAP

ASSUME EnvironmentAssumption ==
    /\ m_map_count \in Nat \ {0}
    /\ MAX_FOOD_PER_MAP \in Nat \ {0}

VARIABLES env,    \* the environment thread: not started, building (between
                  \* two push_backs on m_maps), growing (inside one), feeding,
                  \* running (start-up over, the map threads run)
          m_maps, \* maps whose push_back is over
          fed,    \* maps whose food is complete
          food    \* m_incomming_entities[i].size()

envVars == <<env, m_maps, fed, food>>

Maps == 0..(m_map_count - 1)

EnvTypeOK ==
    /\ env \in {"none", "building", "growing", "feeding", "running"}
    /\ m_maps \in 0..m_map_count
    /\ fed \in 0..m_map_count
    /\ food \in [Maps -> 0..MAX_FOOD_PER_MAP]

EnvInit ==
    /\ env = "none"
    /\ m_maps = 0
    /\ fed = 0
    /\ food = [i \in Maps |-> 0]

StartThread ==
    /\ env = "none"
    /\ env' = "building"
    /\ UNCHANGED <<m_maps, fed, food>>

\* m_instanciate_maps()
BeginMap ==
    /\ env = "building"
    /\ m_maps < m_map_count
    /\ env' = "growing"
    /\ UNCHANGED <<m_maps, fed, food>>

EndMap ==
    /\ env = "growing"
    /\ m_maps' = m_maps + 1
    /\ env' = IF m_maps + 1 < m_map_count THEN "building" ELSE "feeding"
    /\ UNCHANGED <<fed, food>>

\* m_create_entities(): one food for the map at hand; with the last one, on to
\* the next map.  The update_entities() between two maps draws a map and changes
\* nothing here.
FeedMap ==
    /\ env = "feeding"
    /\ fed < m_map_count
    /\ food' = [food EXCEPT ![fed] = @ + 1]
    /\ fed' = IF food[fed] + 1 = MAX_FOOD_PER_MAP THEN fed + 1 ELSE fed
    /\ UNCHANGED <<env, m_maps>>

\* The map threads are started; run() returns.
LaunchUnfed ==
    /\ env = "feeding"
    /\ env' = "running"
    /\ UNCHANGED <<m_maps, fed, food>>
Launch ==
    /\ env = "feeding"
    /\ fed = m_map_count
    /\ env' = "running"
    /\ UNCHANGED <<m_maps, fed, food>>

EnvStep == BeginMap \/ EndMap \/ FeedMap \/ Launch

\* What another thread may get from at_get_map(i): the map, the exception
\* out_of_range, or, while push_back moves the maps to a larger array, the
\* remains of a map.
at_get_map(i) ==
    IF env = "growing" /\ i <= m_maps THEN {"map", "out_of_range", "wild"}
    ELSE IF i < m_maps THEN {"map"}
    ELSE {"out_of_range"}
=============================================================================
