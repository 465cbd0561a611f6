--------------------------- MODULE JoinInfoProofs ---------------------------
(***************************************************************************)
(* Proofs about JoinInfo, for any number of callers and ids, any TTL and   *)
(* any number of tokens.                                                   *)
(***************************************************************************)
EXTENDS JoinInfo, TLAPS

\* The two ways in which a call returns to Join, and the end of a launch.
Returns(c) == ReturnInfo(c) \/ ReturnError(c)

\* What a step on behalf of one caller leaves to the others.
LEMMA ReturnTypes ==
  ASSUME TypeOK, NEW c \in Callers, Returns(c)
  PROVE  /\ made' = made
         /\ pc' = [pc EXCEPT ![c] = "join"]
         /\ id' \in [Callers -> Ids \cup { NoId }] /\ key' \in [Callers -> Keys]
         /\ \A d \in Callers \ { c } : id'[d] = id[d] /\ key'[d] = key[d]
         /\ left' \in [Callers -> { NoExpiry } \cup 0 .. TTL]
         /\ info' \in [Callers -> { "empty", "whole" }]
         /\ \A d \in Callers \ { c } : info'[d] = info[d]
         /\ known' = [known EXCEPT ![c] = {}] /\ blind' = [blind EXCEPT ![c] = FALSE]
         /\ info'[c] = "whole" => key'[c] = key[c]
BY TokenAssumption DEF TypeOK, Returns, ReturnInfo, ReturnError, NoToken, Forget, Keys, AdminKey

\* A step that ends a launch.
LEMMA EndTypes ==
  ASSUME TypeOK, NEW c \in Callers, End(c)
  PROVE  /\ UNCHANGED <<made, secrets, stored>>
         /\ pc' = [pc EXCEPT ![c] = "idle"]
         /\ id' \in [Callers -> Ids \cup { NoId }] /\ key' \in [Callers -> Keys]
         /\ \A d \in Callers \ { c } : id'[d] = id[d] /\ key'[d] = key[d]
         /\ left' \in [Callers -> { NoExpiry } \cup 0 .. TTL]
         /\ info' = [info EXCEPT ![c] = "empty"]
         /\ info' \in [Callers -> { "empty", "whole" }]
         /\ known' = [known EXCEPT ![c] = {}] /\ blind' = [blind EXCEPT ![c] = FALSE]
BY TokenAssumption DEF TypeOK, End, NoToken, Forget, Keys, AdminKey

\* A step after which one caller is outside of GetToken keeps the types, if
\* it keeps those of the stored Secrets.
LEMMA LeaveTypes ==
  ASSUME TypeOK, NEW c \in Callers, Returns(c) \/ End(c),
         secrets' \in [Ids -> Secret \cup { Absent }], stored' \in SUBSET Keys
  PROVE  TypeOK'
<1>1. made' \in Keys /\ known' \in [Callers -> SUBSET Keys] /\ blind' \in [Callers -> BOOLEAN]
  BY ReturnTypes, EndTypes DEF TypeOK
<1>2. pc' \in [Callers -> { "idle", "get", "create", "update", "join" }]
  BY ReturnTypes, EndTypes DEF TypeOK
<1>3. id' \in [Callers -> Ids \cup { NoId }] /\ key' \in [Callers -> Keys]
  BY ReturnTypes, EndTypes
<1>4. left' \in [Callers -> { NoExpiry } \cup 0 .. TTL] /\ info' \in [Callers -> { "empty", "whole" }]
  BY ReturnTypes, EndTypes
<1>5. \A d \in Callers : pc'[d] \in InGetToken => id'[d] \in Ids
  <2>1. pc'[c] \notin InGetToken /\ \A d \in Callers \ { c } : pc'[d] = pc[d] /\ id'[d] = id[d]
    BY ReturnTypes, EndTypes DEF TypeOK, InGetToken
  <2> QED
    BY <2>1 DEF TypeOK
<1> QED
  BY <1>1, <1>2, <1>3, <1>4, <1>5 DEF TypeOK

\* Storing a Secret keeps the types of what is stored.
LEMMA StoreTypes ==
  ASSUME TypeOK, NEW c \in Callers, pc[c] \in InGetToken, Store(c)
  PROVE  /\ secrets' \in [Ids -> Secret \cup { Absent }]
         /\ stored' = stored \cup { key[c] } /\ stored' \in SUBSET Keys
         /\ \A i \in Ids \ { id[c] } : secrets'[i] = secrets[i]
         /\ secrets'[id[c]] # Absent /\ secrets'[id[c]].key = key[c]
         /\ Returns(c)
<1>1. [key |-> key[c], left |-> left[c]] \in Secret /\ key[c] # -1
  BY TokenAssumption DEF TypeOK, Secret, Keys
<1>2. [key |-> key[c], left |-> left[c]] # Absent
  BY <1>1 DEF Absent
<1> QED
  BY <1>1, <1>2 DEF TypeOK, Store, Returns

\* Time leaves a token what it is.
LEMMA TickTypes ==
  ASSUME TypeOK, Tick
  PROVE  /\ secrets' \in [Ids -> Secret \cup { Absent }]
         /\ \A i \in Ids : /\ secrets'[i].key = secrets[i].key
                           /\ secrets'[i] = Absent <=> secrets[i] = Absent
         /\ left' \in [Callers -> { NoExpiry } \cup 0 .. TTL]
<1>1. \A l \in { NoExpiry } \cup 0 .. TTL : Later(l) \in { NoExpiry } \cup 0 .. TTL
  BY TokenAssumption DEF Later, NoExpiry
<1>2. ASSUME NEW s \in Secret
      PROVE  [s EXCEPT !.left = Later(@)] \in Secret /\ [s EXCEPT !.left = Later(@)].key = s.key
             /\ s # Absent /\ [s EXCEPT !.left = Later(@)] # Absent
  <2>1. s.key # -1 /\ [s EXCEPT !.left = Later(@)].key = s.key
    BY TokenAssumption DEF Secret, Keys
  <2> QED
    BY <1>1, <2>1 DEF Secret, Absent
<1>3. [Absent EXCEPT !.left = Later(@)] = Absent
  BY DEF Absent, Later
<1>4. \A i \in Ids : secrets[i] \in Secret \cup { Absent }
  BY DEF TypeOK
<1>5. secrets' = [i \in Ids |-> [secrets[i] EXCEPT !.left = Later(@)]]
  BY DEF Tick
<1>6. ASSUME NEW i \in Ids
      PROVE  /\ secrets'[i] \in Secret \cup { Absent }
             /\ secrets'[i].key = secrets[i].key
             /\ secrets'[i] = Absent <=> secrets[i] = Absent
  <2>1. CASE secrets[i] \in Secret
    BY <1>2, <1>5, <2>1
  <2>2. CASE secrets[i] = Absent
    BY <1>3, <1>5, <2>2
  <2> QED
    BY <1>4, <2>1, <2>2
<1>7. left' \in [Callers -> { NoExpiry } \cup 0 .. TTL]
  BY <1>1 DEF Tick, TypeOK
<1> QED
  BY <1>5, <1>6, <1>7

-----------------------------------------------------------------------------
\* Every step keeps the types.
LEMMA TypeNext ==
  ASSUME TypeOK, [Next]_vars
  PROVE  TypeOK'
<1> USE TokenAssumption
<1>1. ASSUME NEW c \in Callers, GetWorkJoinInfo(c) PROVE TypeOK'
  <2>1. CASE ReturnError(c) /\ UNCHANGED <<secrets, stored>>
    BY <2>1, LeaveTypes DEF TypeOK, Returns
  <2>2. CASE ~ ReturnError(c)
    <3>1. made \in Nat /\ made' = made + 1 /\ made' \in Keys
      BY <1>1, <2>2 DEF GetWorkJoinInfo, TypeOK, Keys
    <3>2. PICK i \in Ids : id' = [id EXCEPT ![c] = i]
      BY <1>1, <2>2 DEF GetWorkJoinInfo
    <3>3. key' = [key EXCEPT ![c] = made']
      BY <1>1, <2>2, <3>1 DEF GetWorkJoinInfo
    <3>4. pc' = [pc EXCEPT ![c] = "get"] /\ UNCHANGED <<secrets, stored, info, left, known, blind>>
      BY <1>1, <2>2 DEF GetWorkJoinInfo
    <3> QED
      BY <3>1, <3>2, <3>3, <3>4 DEF TypeOK, InGetToken
  <2> QED
    BY <1>1, <2>1, <2>2 DEF GetWorkJoinInfo
<1>2. ASSUME NEW c \in Callers, GetToken(c) PROVE TypeOK'
  <2>1. CASE ReturnError(c) /\ UNCHANGED <<secrets, stored>>
    BY <2>1, LeaveTypes DEF TypeOK, Returns
  <2>2. CASE ~ ReturnError(c)
    BY <1>2, <2>2 DEF GetToken, BootstrapTokenToSecret, TypeOK, InGetToken
  <2> QED
    BY <1>2, <2>1, <2>2 DEF GetToken
<1>3. ASSUME NEW c \in Callers, CreateSecret(c) \/ UpdateSecret(c) PROVE TypeOK'
  <2>1. CASE Store(c)
    <3>1. pc[c] \in InGetToken
      BY <1>3 DEF CreateSecret, UpdateSecret, InGetToken
    <3> QED
      BY <2>1, <3>1, StoreTypes, LeaveTypes
  <2>2. CASE ReturnError(c) /\ UNCHANGED <<secrets, stored>>
    BY <2>2, LeaveTypes DEF TypeOK, Returns
  <2>3. CASE pc[c] = "create" /\ pc' = [pc EXCEPT ![c] = "update"]
               /\ UNCHANGED <<secrets, stored, Local, info>>
    BY <2>3 DEF TypeOK, InGetToken, Local
  <2> QED
    BY <1>3, <2>1, <2>2, <2>3 DEF CreateSecret, UpdateSecret
<1>4. ASSUME NEW c \in Callers, Join(c) \/ Crash(c) PROVE TypeOK'
  <2>1. End(c)
    BY <1>4 DEF Join, Crash
  <2> QED
    BY <2>1, EndTypes, LeaveTypes DEF TypeOK
<1>5. ASSUME NEW i \in Ids, AdminCreate(i) PROVE TypeOK'
  <2>1. [key |-> AdminKey, left |-> NoExpiry] \in Secret /\ AdminKey \in Keys
    BY DEF Secret, AdminKey, Keys
  <2> QED
    BY <1>5, <2>1 DEF AdminCreate, Local, TypeOK, InGetToken
<1>6. ASSUME NEW i \in Ids, AdminDelete(i) \/ TokenCleaner(i) PROVE TypeOK'
  BY <1>6 DEF AdminDelete, TokenCleaner, Local, TypeOK, InGetToken
<1>7. ASSUME Tick PROVE TypeOK'
  BY <1>7, TickTypes DEF Tick, TypeOK, InGetToken
<1>8. CASE UNCHANGED vars
  BY <1>8 DEF vars, TypeOK
<1> QED
  BY <1>1, <1>2, <1>3, <1>4, <1>5, <1>6, <1>7, <1>8 DEF Next, Call

\* Every variable keeps its type; a caller inside GetToken holds an id.
THEOREM JoinInfoTypeCorrect == Spec => []TypeOK
<1>1. ASSUME Init PROVE TypeOK
  <2>1. 0 \in Keys /\ AdminKey \in Keys
    BY TokenAssumption DEF Keys, AdminKey
  <2> QED
    BY <1>1, <2>1, TokenAssumption DEF Init, TypeOK, InGetToken
<1>2. TypeOK /\ [Next]_vars => TypeOK'
  BY TypeNext
<1> QED
  BY <1>1, <1>2, PTL DEF Spec

-----------------------------------------------------------------------------
(***************************************************************************)
(* The tokens.  A token that is being made is fresh, hence never among     *)
(* those a caller knew at its look-up; so what appears under the id of a   *)
(* caller between its look-up and its update is newer than the look-up.    *)
(***************************************************************************)

\* A call that fails, or a launch that ends, without touching a Secret.
LEMMA LeaveKeeps ==
  ASSUME TypeOK, TokenInv, NEW c \in Callers, ReturnError(c) \/ End(c), UNCHANGED <<secrets, stored>>
  PROVE  TokenInv'
<1>1. /\ made' = made /\ pc'[c] \notin InGetToken /\ info'[c] = "empty"
      /\ known'[c] = {}
      /\ \A d \in Callers \ { c } : /\ pc'[d] = pc[d] /\ id'[d] = id[d] /\ key'[d] = key[d]
                                    /\ info'[d] = info[d] /\ known'[d] = known[d] /\ blind'[d] = blind[d]
  BY DEF ReturnError, End, NoToken, Forget, TypeOK, InGetToken
<1>2. FreshKeys'
  BY <1>1 DEF TokenInv, FreshKeys
<1>3. NameWasFree'
  BY <1>1 DEF TokenInv, NameWasFree, InGetToken
<1>4. TokenIsStored'
  BY <1>1 DEF TokenInv, TokenIsStored
<1> QED
  BY <1>2, <1>3, <1>4 DEF TokenInv

\* A Secret is stored, and its token given to Join or lost with the answer.
LEMMA StoreKeeps ==
  ASSUME TypeOK, TokenInv, NEW c \in Callers, pc[c] \in { "create", "update" }, Store(c)
  PROVE  TokenInv'
<1>0. pc[c] \in InGetToken
  BY DEF InGetToken
<1>1. /\ made' = made /\ pc'[c] = "join" /\ known'[c] = {}
      /\ info'[c] = "whole" => key'[c] = key[c]
      /\ \A d \in Callers \ { c } : /\ pc'[d] = pc[d] /\ id'[d] = id[d] /\ key'[d] = key[d]
                                    /\ info'[d] = info[d] /\ known'[d] = known[d] /\ blind'[d] = blind[d]
  <2>1. Returns(c)
    BY DEF Store, Returns
  <2> QED
    BY <2>1, ReturnTypes DEF TypeOK
<1>2. key[c] \in (1 .. made) \ stored /\ stored' = stored \cup { key[c] }
  BY <1>0, StoreTypes DEF TokenInv, FreshKeys
<1>3. FreshKeys'
  <2>1. stored' \subseteq 0 .. made'
    <3>1. made \in Nat /\ key[c] \in 1 .. made /\ stored \subseteq 0 .. made
      BY <1>2, TokenAssumption DEF TokenInv, FreshKeys, TypeOK, Keys
    <3>2. key[c] \in 0 .. made
      BY <3>1
    <3> QED
      BY <1>1, <1>2, <3>1, <3>2
  <2>2. ASSUME NEW d \in Callers
        PROVE  /\ known'[d] \subseteq stored'
               /\ pc'[d] \in InGetToken => key'[d] \in (1 .. made') \ stored'
    BY <1>0, <1>1, <1>2 DEF TokenInv, FreshKeys, InGetToken
  <2>3. ASSUME NEW d \in Callers, NEW e \in Callers \ { d },
               pc'[d] \in InGetToken, pc'[e] \in InGetToken
        PROVE  key'[d] # key'[e]
    <3>1. d # c /\ e # c
      BY <1>1, <2>3 DEF InGetToken
    <3> QED
      BY <1>1, <2>3, <3>1 DEF TokenInv, FreshKeys
  <2> QED
    BY <2>1, <2>2, <2>3 DEF FreshKeys
<1>4. NameWasFree'
  <2> SUFFICES ASSUME NEW d \in Callers,
                      pc'[d] \in { "create", "update" }, ~ blind'[d], secrets'[id'[d]] # Absent
               PROVE  secrets'[id'[d]].key \in stored' \ known'[d]
    BY DEF NameWasFree
  <2>1. d # c /\ id'[d] = id[d] /\ pc[d] \in { "create", "update" } /\ ~ blind[d] /\ id[d] \in Ids
        /\ known'[d] = known[d]
    BY <1>1 DEF TypeOK, InGetToken
  <2>2. CASE id[d] = id[c]
    <3>1. secrets'[id[d]].key = key[c]
      BY <1>0, <2>2, StoreTypes
    <3>2. key[c] \notin known[d]
      BY <1>2 DEF TokenInv, FreshKeys
    <3> QED
      BY <1>2, <2>1, <3>1, <3>2
  <2>3. CASE id[d] # id[c]
    <3>1. secrets'[id[d]] = secrets[id[d]]
      BY <1>0, <2>1, <2>3, StoreTypes
    <3> QED
      BY <1>2, <2>1, <3>1 DEF TokenInv, NameWasFree
  <2> QED
    BY <2>2, <2>3
<1>5. TokenIsStored'
  BY <1>1, <1>2 DEF TokenInv, TokenIsStored
<1> QED
  BY <1>3, <1>4, <1>5 DEF TokenInv

\* Every step keeps the invariant.
LEMMA TokenNext ==
  ASSUME TypeOK, TokenInv, [Next]_vars
  PROVE  TokenInv'
<1>1. ASSUME NEW c \in Callers, GetWorkJoinInfo(c) PROVE TokenInv'
  <2>1. CASE ReturnError(c)
    BY <1>1, <2>1, LeaveKeeps DEF GetWorkJoinInfo
  <2>2. CASE ~ ReturnError(c)
    <3>1. made \in Nat /\ made' = made + 1 /\ UNCHANGED <<secrets, stored, info, known, blind>>
      BY <1>1, <2>2, TokenAssumption DEF GetWorkJoinInfo, TypeOK, Keys
    <3>2. /\ key'[c] = made + 1 /\ pc'[c] = "get"
          /\ \A d \in Callers \ { c } : pc'[d] = pc[d] /\ id'[d] = id[d] /\ key'[d] = key[d]
      BY <1>1, <2>2 DEF GetWorkJoinInfo, TypeOK
    <3>3. FreshKeys'
      <4>1. stored' \subseteq 0 .. made' /\ made + 1 \notin stored
        BY <3>1 DEF TokenInv, FreshKeys
      <4>2. ASSUME NEW d \in Callers
            PROVE  known'[d] \subseteq stored'
                   /\ (pc'[d] \in InGetToken => key'[d] \in (1 .. made') \ stored')
        <5>1. CASE d = c
          BY <3>1, <3>2, <4>1, <5>1 DEF TokenInv, FreshKeys
        <5>2. CASE d # c
          BY <3>1, <3>2, <5>2 DEF TokenInv, FreshKeys
        <5> QED
          BY <5>1, <5>2
      <4>3. ASSUME NEW d \in Callers, NEW e \in Callers \ { d },
                   pc'[d] \in InGetToken, pc'[e] \in InGetToken
            PROVE  key'[d] # key'[e]
        <5>1. \A a \in Callers \ { c } : pc'[a] \in InGetToken => key'[a] \in 1 .. made
          BY <3>2 DEF TokenInv, FreshKeys
        <5>2. CASE d = c \/ e = c
          BY <3>1, <3>2, <4>3, <5>1, <5>2
        <5>3. CASE d # c /\ e # c
          BY <3>2, <4>3, <5>3 DEF TokenInv, FreshKeys
        <5> QED
          BY <5>2, <5>3
      <4> QED
        BY <4>1, <4>2, <4>3 DEF FreshKeys
    <3>4. NameWasFree' /\ TokenIsStored'
      BY <3>1, <3>2 DEF TokenInv, NameWasFree, TokenIsStored
    <3> QED
      BY <3>3, <3>4 DEF TokenInv
  <2> QED
    BY <2>1, <2>2
<1>2. ASSUME NEW c \in Callers, GetToken(c) PROVE TokenInv'
  <2>1. CASE ReturnError(c)
    BY <1>2, <2>1, LeaveKeeps DEF GetToken
  <2>2. CASE ~ ReturnError(c)
    <3>1. /\ UNCHANGED <<secrets, stored, made, id, key, info>>
          /\ pc[c] = "get" /\ pc'[c] = "create" /\ known'[c] = stored
          /\ blind'[c] \/ secrets[id[c]] = Absent
          /\ \A d \in Callers \ { c } : pc'[d] = pc[d] /\ known'[d] = known[d] /\ blind'[d] = blind[d]
      BY <1>2, <2>2 DEF GetToken, TypeOK
    <3> QED
      BY <3>1 DEF TokenInv, FreshKeys, NameWasFree, TokenIsStored, InGetToken
  <2> QED
    BY <2>1, <2>2
<1>3. ASSUME NEW c \in Callers, CreateSecret(c) \/ UpdateSecret(c) PROVE TokenInv'
  <2>1. CASE Store(c)
    BY <1>3, <2>1, StoreKeeps DEF CreateSecret, UpdateSecret
  <2>2. CASE ReturnError(c) /\ UNCHANGED <<secrets, stored>>
    BY <2>2, LeaveKeeps
  <2>3. CASE pc[c] = "create" /\ pc' = [pc EXCEPT ![c] = "update"]
               /\ UNCHANGED <<secrets, stored, Local, info>>
    <3>1. pc[c] = "create" /\ pc'[c] = "update" /\ \A d \in Callers \ { c } : pc'[d] = pc[d]
      BY <2>3 DEF TypeOK
    <3> QED
      BY <2>3, <3>1 DEF TokenInv, FreshKeys, NameWasFree, TokenIsStored, InGetToken, Local
  <2> QED
    BY <1>3, <2>1, <2>2, <2>3 DEF CreateSecret, UpdateSecret
<1>4. ASSUME NEW c \in Callers, Join(c) \/ Crash(c) PROVE TokenInv'
  BY <1>4, LeaveKeeps DEF Join, Crash, End
<1>5. ASSUME NEW i \in Ids, AdminCreate(i) PROVE TokenInv'
  <2>1. /\ AdminKey \notin stored /\ stored' = stored \cup { AdminKey } /\ UNCHANGED <<Local, pc, info>>
        /\ secrets'[i].key = AdminKey /\ \A j \in Ids \ { i } : secrets'[j] = secrets[j]
    BY <1>5 DEF AdminCreate, TypeOK
  <2>2. FreshKeys'
    BY <2>1, TokenAssumption DEF TokenInv, FreshKeys, TypeOK, Local, AdminKey, Keys
  <2>3. NameWasFree'
    <3> SUFFICES ASSUME NEW d \in Callers,
                        pc[d] \in { "create", "update" }, ~ blind[d], secrets'[id[d]] # Absent
                 PROVE  secrets'[id[d]].key \in stored' \ known[d]
      BY <2>1 DEF NameWasFree, Local
    <3>1. id[d] \in Ids /\ AdminKey \notin known[d]
      BY <2>1 DEF TypeOK, InGetToken, TokenInv, FreshKeys
    <3>2. CASE id[d] = i
      BY <2>1, <3>1, <3>2
    <3>3. CASE id[d] # i
      BY <2>1, <3>1, <3>3 DEF TokenInv, NameWasFree
    <3> QED
      BY <3>2, <3>3
  <2>4. TokenIsStored'
    BY <2>1 DEF TokenInv, TokenIsStored, Local
  <2> QED
    BY <2>2, <2>3, <2>4 DEF TokenInv
<1>6. ASSUME NEW i \in Ids, AdminDelete(i) \/ TokenCleaner(i) PROVE TokenInv'
  <2>1. /\ UNCHANGED <<stored, Local, pc, info>>
        /\ secrets'[i] = Absent /\ \A j \in Ids \ { i } : secrets'[j] = secrets[j]
    BY <1>6 DEF AdminDelete, TokenCleaner, TypeOK
  <2>2. FreshKeys' /\ TokenIsStored'
    BY <2>1 DEF TokenInv, FreshKeys, TokenIsStored, Local
  <2>3. NameWasFree'
    BY <2>1 DEF TokenInv, NameWasFree, Local, TypeOK, InGetToken
  <2> QED
    BY <2>2, <2>3 DEF TokenInv
<1>7. ASSUME Tick PROVE TokenInv'
  <2>1. UNCHANGED <<stored, made, id, key, known, blind, pc, info>>
    BY <1>7 DEF Tick
  <2>2. FreshKeys' /\ TokenIsStored'
    BY <2>1 DEF TokenInv, FreshKeys, TokenIsStored
  <2>3. NameWasFree'
    BY <1>7, <2>1, TickTypes DEF TokenInv, NameWasFree, TypeOK, InGetToken
  <2> QED
    BY <2>2, <2>3 DEF TokenInv
<1>8. CASE UNCHANGED vars
  BY <1>8 DEF vars, TokenInv, FreshKeys, NameWasFree, TokenIsStored
<1> QED
  BY <1>1, <1>2, <1>3, <1>4, <1>5, <1>6, <1>7, <1>8 DEF Next, Call

\* The invariant holds in every reachable state.
LEMMA TokenInvariant == Spec => [](TypeOK /\ TokenInv)
<1>1. Init => TokenInv
  BY TokenAssumption DEF Init, TokenInv, FreshKeys, NameWasFree, TokenIsStored, InGetToken
<1>2. TypeOK /\ TokenInv /\ [Next]_vars => TokenInv'
  BY TokenNext
<1> QED
  BY <1>1, <1>2, JoinInfoTypeCorrect, PTL DEF Spec

\* Join never runs with a token that was not stored for it, whatever request
\* of GetWorkJoinInfo and GetToken fails or loses its answer.
THEOREM JoinTokenCorrect == Spec => []TokenIsStored
<1>1. TokenInv => TokenIsStored
  BY DEF TokenInv
<1> QED
  BY <1>1, TokenInvariant, PTL

\* CreateOrUpdateSecret replaces only a token that was stored after the
\* caller's look-up, unless the look-up itself had failed.
THEOREM OverwriteCorrect == Spec => OverwriteNeedsRace
<1> DEFINE Race == \A i \in Ids :
        secrets[i] # Absent /\ secrets'[i] # Absent /\ secrets'[i].key # secrets[i].key =>
          \E c \in Callers : /\ id[c] = i /\ secrets'[i].key = key[c]
                             /\ blind[c] \/ secrets[i].key \notin known[c]
<1>1. ASSUME TypeOK, TokenInv, [Next]_vars PROVE Race
  <2> SUFFICES ASSUME NEW i \in Ids, secrets[i] # Absent, secrets'[i] # Absent,
                      secrets'[i].key # secrets[i].key
               PROVE  \E c \in Callers : /\ id[c] = i /\ secrets'[i].key = key[c]
                                         /\ blind[c] \/ secrets[i].key \notin known[c]
    OBVIOUS
  <2>1. secrets' # secrets
    OBVIOUS
  <2>2. ASSUME NEW c \in Callers, GetWorkJoinInfo(c) \/ GetToken(c) \/ Join(c) \/ Crash(c) PROVE FALSE
    BY <2>1, <2>2 DEF GetWorkJoinInfo, GetToken, Join, Crash, End
  <2>3. ASSUME NEW j \in Ids, AdminCreate(j) \/ AdminDelete(j) \/ TokenCleaner(j) PROVE FALSE
    <3>1. \/ secrets' = [secrets EXCEPT ![j] = Absent]
          \/ secrets[j] = Absent /\ (\A k \in Ids \ { j } : secrets'[k] = secrets[k])
      BY <1>1, <2>3 DEF AdminCreate, AdminDelete, TokenCleaner, TypeOK
    <3>2. secrets \in [Ids -> Secret \cup { Absent }]
      BY <1>1 DEF TypeOK
    <3> QED
      BY <3>1, <3>2
  <2>4. ~ Tick
    BY <1>1, TickTypes
  <2>5. PICK c \in Callers : CreateSecret(c) \/ UpdateSecret(c)
    BY <1>1, <2>1, <2>2, <2>3, <2>4 DEF Next, Call, vars
  <2>6. Store(c) /\ pc[c] \in { "create", "update" } /\ pc[c] \in InGetToken
    BY <2>1, <2>5 DEF CreateSecret, UpdateSecret, InGetToken
  <2>7. id[c] = i /\ secrets'[i].key = key[c]
    BY <1>1, <2>6, StoreTypes
  <2>8. blind[c] \/ secrets[i].key \notin known[c]
    BY <1>1, <2>6, <2>7 DEF TokenInv, NameWasFree
  <2> QED
    BY <2>7, <2>8
<1>2. TypeOK /\ TokenInv /\ [Next]_vars => [Race]_vars
  BY <1>1
<1> QED
  BY <1>2, TokenInvariant, PTL DEF Spec, OverwriteNeedsRace

=============================================================================
