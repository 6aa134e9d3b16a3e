----------------------- MODULE InstanceProviderProofs -----------------------
(***************************************************************************)
(* Proofs about the instance provider, for any agent pools, machines,      *)
(* specifications and sizes, and however AKS divides its list into pages.  *)
(***************************************************************************)
EXTENDS InstanceProvider, SequenceTheorems, TLAPS

-----------------------------------------------------------------------------
(* Names. *)

\* A name that the way to the provider ID and back keeps.
Survives(n) == ~n.vmss \/ n.rest = ""

\* The names of agent pools are the elements of a sequence.
LEMMA NamesForm ==
    /\ Len(Order) \in Nat /\ DOMAIN Order = 1..Len(Order)
    /\ \A i \in 1..Len(Order) : Order[i] \in Names
    /\ \A n \in Names : /\ n \in [vmss: BOOLEAN, rest: STRING]
                        /\ \E i \in 1..Len(Order) : Order[i] = n
    /\ Machines \subseteq Names
  <1> DEFINE S == [vmss: BOOLEAN, rest: STRING]
  <1>0. Order \in Seq(S) /\ Machines \subseteq Names
    BY ProviderAssumption
  <1> HIDE DEF S
  <1>1. Len(Order) \in Nat /\ DOMAIN Order = 1..Len(Order) /\ Order \in [1..Len(Order) -> S]
    BY <1>0
  <1>2. \A n \in Names : \E i \in 1..Len(Order) : Order[i] = n
    BY <1>1 DEF Names
  <1>3. \A i \in 1..Len(Order) : Order[i] \in Names
    BY <1>1 DEF Names
  <1>4. \A i \in 1..Len(Order) : Order[i] \in S
    BY <1>1
  <1> QED BY <1>0, <1>1, <1>2, <1>3, <1>4 DEF S

\* Where the name of a node is cut: at the part that AKS adds, or already at the name
\* of the pool, when that begins with vmss.
LEMMA Cut ==
    ASSUME NEW n \in Names,
           NEW parts, parts = NodeName(n),
           NEW cut, cut = CHOOSE i \in 2..Len(parts) :
                            parts[i].vmss /\ \A j \in 2..(i - 1) : ~parts[j].vmss
    PROVE  /\ Len(parts) = 4 /\ parts[2] = n
           /\ cut = IF n.vmss THEN 2 ELSE 4
  <1>1. /\ Len(parts) = 4 /\ parts[1] = Word("aks") /\ parts[2] = n /\ parts[3] = Word("hash")
        /\ parts[4] = [vmss |-> TRUE, rest |-> "000000"]
    BY DEF NodeName
  <1>2. ~parts[3].vmss /\ parts[4].vmss /\ n.vmss \in BOOLEAN
    BY <1>1, NamesForm DEF Word
  <1> DEFINE P(i) == i \in 2..4 /\ parts[i].vmss /\ \A j \in 2..(i - 1) : ~parts[j].vmss
  <1>3. \A i : P(i) <=> i = IF n.vmss THEN 2 ELSE 4
    <2>1. CASE n.vmss
      BY <1>1, <1>2, <2>1
    <2>2. CASE ~n.vmss
      BY <1>1, <1>2, <2>2
    <2> QED BY <1>2, <2>1, <2>2
  <1>4. cut = CHOOSE i \in 2..4 : parts[i].vmss /\ \A j \in 2..(i - 1) : ~parts[j].vmss
    BY <1>1
  <1>5. P(cut)
    <2>1. P(IF n.vmss THEN 2 ELSE 4)
      BY <1>3
    <2> QED BY <1>4, <2>1
  <1> QED BY <1>1, <1>3, <1>5

\* The agent pool that ParseAgentPoolNameFromID finds in the ID of an instance.
LEMMA Parsed ==
    ASSUME NEW n \in Names
    PROVE  ParseAgentPoolName(InstanceID(n)) = IF n.vmss THEN [vmss |-> TRUE, rest |-> ""] ELSE n
  <1> DEFINE parts == NodeName(n)
             cut == CHOOSE i \in 2..Len(parts) :
                      parts[i].vmss /\ \A j \in 2..(i - 1) : ~parts[j].vmss
             end == [vmss |-> TRUE, rest |-> ""]
             S == {parts[1], parts[2], parts[3], parts[4], end}
  <1>1. InstanceID(n) = SubSeq(parts, 1, cut - 1) \o <<end>>
    BY DEF InstanceID, ScaleSetName
  <1>2. Len(parts) = 4 /\ parts[2] = n /\ cut = IF n.vmss THEN 2 ELSE 4
    BY Cut
  <1>3. parts \in Seq(S) /\ end \in S
    BY DEF NodeName
  <1> HIDE DEF parts, cut, end, S
  <1>4. ASSUME NEW k \in 1..3
        PROVE  /\ SubSeq(parts, 1, k) \in Seq(S) /\ Len(SubSeq(parts, 1, k)) = k
               /\ \A i \in 1..k : SubSeq(parts, 1, k)[i] = parts[i]
    <2>1. 1 \in 1..(Len(parts) + 1) /\ k \in (1 - 1)..Len(parts) /\ k - 1 + 1 = k
      BY <1>2
    <2>2. /\ SubSeq(parts, 1, k) \in Seq(S)
          /\ Len(SubSeq(parts, 1, k)) = IF 1 <= k THEN k - 1 + 1 ELSE 0
          /\ \A i \in 1..(k - 1 + 1) : SubSeq(parts, 1, k)[i] = parts[1 + i - 1]
      BY <1>3, <2>1, SubSeqProperties
    <2>3. \A i \in 1..k : 1 + i - 1 = i
      OBVIOUS
    <2> QED BY <2>1, <2>2, <2>3
  <1>5. CASE n.vmss
    <2>1. (SubSeq(parts, 1, 1) \o <<end>>)[2] = end
      BY <1>3, <1>4
    <2>2. cut - 1 = 1
      BY <1>2, <1>5
    <2> QED BY <1>1, <1>5, <2>1, <2>2 DEF ParseAgentPoolName, end
  <1>6. CASE ~n.vmss
    <2>1. (SubSeq(parts, 1, 3) \o <<end>>)[2] = n
      BY <1>2, <1>3, <1>4
    <2>2. cut - 1 = 3
      BY <1>2, <1>6
    <2> QED BY <1>1, <1>6, <2>1, <2>2 DEF ParseAgentPoolName
  <1> QED BY <1>5, <1>6

\* The names that lead back to themselves are exactly those that do not begin with
\* vmss, and vmss itself (fromAgentPoolToInstance cuts the node's name at the first
\* "-vmss", ParseAgentPoolNameFromID takes the second substring of what is left).
THEOREM NameRoundTrip ==
    \A n \in Names : ParseAgentPoolName(InstanceID(n)) = n <=> Survives(n)
  <1> SUFFICES ASSUME NEW n \in Names
               PROVE  ParseAgentPoolName(InstanceID(n)) = n <=> Survives(n)
    OBVIOUS
  <1>1. n \in [vmss: BOOLEAN, rest: STRING]
    BY NamesForm
  <1>2. CASE n.vmss
    <2>1. PICK w \in STRING : n = [vmss |-> TRUE, rest |-> w]
      BY <1>1, <1>2
    <2>2. n = [vmss |-> TRUE, rest |-> ""] <=> n.rest = ""
      BY <2>1
    <2> QED BY <1>2, <2>2, Parsed DEF Survives
  <1>3. CASE ~n.vmss
    BY <1>3, Parsed DEF Survives
  <1> QED BY <1>1, <1>2, <1>3

-----------------------------------------------------------------------------
(* Pools and machines. *)

\* The objects that a pool may have: that of its machine, with one of its sizes.
Objects(n) ==
    IF n \in Machines THEN {newAgentPoolObject(SpecOf(n), z) : z \in SizesToTry(SpecOf(n))}
    ELSE {System}

Pools(n) == {Absent} \cup [phase: {"creating", "ready", "deleting"}, obj: Objects(n)]

Ats == {"new", "failed", "creating", "running", "deleting", "gone"}

Labelings(m) == {System.labels} \cup {o.labels : o \in Objects(m)}

Calls(m) == [at: Ats, id: {NoID, InstanceID(m)}, labels: Labelings(m),
             target: {m, ParseAgentPoolName(InstanceID(m))}]

\* Once Create has returned, a machine has its ID and the labels of its object.
Reported(m, c) ==
    c.at \in {"running", "deleting"} =>
        c.id = InstanceID(m) /\ \E o \in Objects(m) : c.labels = o.labels

PoolTypes ==
    /\ DOMAIN pool = Names /\ \A n \in Names : pool[n] \in Pools(n)
    /\ DOMAIN node = Names
    /\ DOMAIN machine = Machines
    /\ \A m \in Machines : machine[m] \in Calls(m) /\ Reported(m, machine[m])

\* A pool has a phase, and an object with labels unless it is absent.
LEMMA PoolForm ==
    ASSUME NEW n, NEW p \in Pools(n)
    PROVE  /\ p.phase \in {"absent", "creating", "ready", "deleting"}
           /\ p.phase = "absent" => p = Absent
           /\ p.phase # "absent" => p.obj \in Objects(n)
           /\ \A f \in {"creating", "ready", "deleting"} :
                p.phase # "absent" =>
                    [p EXCEPT !.phase = f] \in Pools(n) /\ [p EXCEPT !.phase = f].phase = f
  <1>1. CASE p = Absent
    BY <1>1 DEF Absent
  <1>2. CASE p \in [phase: {"creating", "ready", "deleting"}, obj: Objects(n)]
    BY <1>2 DEF Pools
  <1> QED BY <1>1, <1>2 DEF Pools

\* A call goes on and keeps what it has reported.
LEMMA CallAt ==
    ASSUME NEW m, NEW c \in Calls(m), NEW a \in Ats
    PROVE  /\ [c EXCEPT !.at = a] \in Calls(m) /\ [c EXCEPT !.at = a].at = a
           /\ [c EXCEPT !.at = a].id = c.id /\ [c EXCEPT !.at = a].labels = c.labels
  BY DEF Calls

\* One pool, or one call, at a time.
LEMMA OnePool ==
    ASSUME PoolTypes, NEW n \in Names, NEW p \in Pools(n), pool' = [pool EXCEPT ![n] = p]
    PROVE  /\ DOMAIN pool' = Names /\ \A q \in Names : pool'[q] \in Pools(q)
           /\ pool'[n] = p /\ \A q \in Names \ {n} : pool'[q] = pool[q]
  BY DEF PoolTypes

LEMMA OneCall ==
    ASSUME PoolTypes, NEW m \in Machines, NEW c \in Calls(m), Reported(m, c),
           machine' = [machine EXCEPT ![m] = c]
    PROVE  /\ DOMAIN machine' = Machines
           /\ \A k \in Machines : machine'[k] \in Calls(k) /\ Reported(k, machine'[k])
           /\ machine'[m] = c /\ \A k \in Machines \ {m} : machine'[k] = machine[k]
  <1>1. /\ DOMAIN machine' = Machines
        /\ machine'[m] = c /\ \A k \in Machines \ {m} : machine'[k] = machine[k]
    BY DEF PoolTypes
  <1> QED BY <1>1 DEF PoolTypes

\* The steps of Create and Delete: what becomes of the machine and of its pool.
LEMMA CreateEffect ==
    ASSUME PoolTypes, NEW m \in Machines, CreateFails(m) \/ CreateTimesOut(m) \/ EndCreate(m)
    PROVE  /\ PoolTypes' /\ pool' = pool /\ machine[m].at \in {"new", "creating"}
           /\ machine'[m].at \in {"new", "failed", "running"}
           /\ \A k \in Machines \ {m} : machine'[k] = machine[k]
  <1>0. machine[m] \in Calls(m) /\ m \in Names /\ pool[m] \in Pools(m)
    BY NamesForm DEF PoolTypes
  <1>1. PICK c \in Calls(m) : /\ machine' = [machine EXCEPT ![m] = c] /\ Reported(m, c)
                              /\ c.at \in {"new", "failed", "running"}
    <2>1. CASE CreateFails(m)
      <3> DEFINE c == [machine[m] EXCEPT !.at = "failed"]
      <3>1. machine' = [machine EXCEPT ![m] = c]
        BY <2>1 DEF CreateFails
      <3>2. c \in Calls(m) /\ c.at = "failed"
        BY <1>0, CallAt DEF Ats
      <3> HIDE DEF c
      <3> QED BY <3>1, <3>2 DEF Reported
    <2>2. CASE CreateTimesOut(m)
      <3> DEFINE c == [machine[m] EXCEPT !.at = "new"]
      <3>1. machine' = [machine EXCEPT ![m] = c]
        BY <2>2 DEF CreateTimesOut
      <3>2. c \in Calls(m) /\ c.at = "new"
        BY <1>0, CallAt DEF Ats
      <3> HIDE DEF c
      <3> QED BY <3>1, <3>2 DEF Reported
    <2>3. CASE EndCreate(m)
      <3> DEFINE l == pool[m].obj.labels
                 c == [machine[m] EXCEPT !.at = "running", !.id = InstanceID(m), !.labels = l]
      <3>1. machine' = [machine EXCEPT ![m] = c] /\ pool[m].phase # "absent"
        BY <2>3 DEF EndCreate, Described
      <3>2. PICK o \in Objects(m) : l = o.labels
        BY <1>0, <3>1, PoolForm
      <3>3. l \in Labelings(m)
        BY <3>2 DEF Labelings
      <3> HIDE DEF l
      <3>4. c \in Calls(m) /\ c.at = "running" /\ c.id = InstanceID(m) /\ c.labels = l
        BY <1>0, <3>3 DEF Calls, Ats
      <3> HIDE DEF c
      <3> QED BY <3>1, <3>2, <3>4 DEF Reported
    <2> QED BY <2>1, <2>2, <2>3
  <1>2. UNCHANGED <<pool, node>> /\ machine[m].at \in {"new", "creating"}
    BY DEF CreateFails, CreateTimesOut, EndCreate
  <1>3. PoolTypes' /\ machine'[m] = c /\ \A k \in Machines \ {m} : machine'[k] = machine[k]
    BY <1>1, <1>2, OneCall DEF PoolTypes
  <1> QED BY <1>1, <1>2, <1>3

LEMMA PutEffect ==
    ASSUME PoolTypes, NEW m \in Machines, BeginCreate(m)
    PROVE  /\ PoolTypes' /\ machine[m].at = "new"
           /\ machine'[m].at = "creating" /\ pool'[m].phase = "creating"
           /\ \A k \in Machines \ {m} : machine'[k] = machine[k]
           /\ \A q \in Names \ {m} : pool'[q] = pool[q]
  <1>0. machine[m] \in Calls(m) /\ m \in Names
    BY NamesForm DEF PoolTypes
  <1>1. PICK z \in SizesToTry(SpecOf(m)) :
          pool' = [pool EXCEPT ![m] = [phase |-> "creating",
                                       obj |-> newAgentPoolObject(SpecOf(m), z)]]
    BY DEF BeginCreate
  <1> DEFINE p == [phase |-> "creating", obj |-> newAgentPoolObject(SpecOf(m), z)]
             c == [machine[m] EXCEPT !.at = "creating"]
  <1>2. p \in Pools(m) /\ p.phase = "creating"
    <2>1. newAgentPoolObject(SpecOf(m), z) \in Objects(m)
      BY DEF Objects
    <2> QED BY <2>1 DEF Pools
  <1>3. machine' = [machine EXCEPT ![m] = c] /\ machine[m].at = "new" /\ node' = node
    BY DEF BeginCreate
  <1>4. c \in Calls(m) /\ c.at = "creating"
    BY <1>0, CallAt DEF Ats
  <1>5. pool' = [pool EXCEPT ![m] = p]
    BY <1>1
  <1> HIDE DEF p, c
  <1>6. Reported(m, c)
    BY <1>4 DEF Reported
  <1>7. /\ DOMAIN pool' = Names /\ \A q \in Names : pool'[q] \in Pools(q)
        /\ pool'[m] = p /\ \A q \in Names \ {m} : pool'[q] = pool[q]
    BY <1>0, <1>2, <1>5, OnePool
  <1>8. /\ DOMAIN machine' = Machines
        /\ \A k \in Machines : machine'[k] \in Calls(k) /\ Reported(k, machine'[k])
        /\ machine'[m] = c /\ \A k \in Machines \ {m} : machine'[k] = machine[k]
    BY <1>3, <1>4, <1>6, OneCall
  <1>9. PoolTypes'
    BY <1>3, <1>7, <1>8 DEF PoolTypes
  <1> QED BY <1>2, <1>3, <1>4, <1>7, <1>8, <1>9

LEMMA DeleteEffect ==
    ASSUME PoolTypes, NEW m \in Machines, BeginDelete(m),
           NEW n, n = ParseAgentPoolName(InstanceID(m))
    PROVE  /\ PoolTypes' /\ machine[m].at = "running"
           /\ \A k \in Machines \ {m} : machine'[k] = machine[k]
           /\ \/ /\ n \in Names /\ machine'[m].at = "deleting"
                 /\ pool[n].phase # "absent" /\ pool'[n].phase = "deleting"
                 /\ \A q \in Names \ {n} : pool'[q] = pool[q]
              \/ /\ ~(n \in Names /\ pool[n].phase # "absent")
                 /\ machine'[m].at = "gone" /\ pool' = pool
  <1>0. machine[m] \in Calls(m) /\ Reported(m, machine[m]) /\ machine[m].at = "running"
    BY DEF PoolTypes, BeginDelete
  <1>1. machine[m].id = InstanceID(m)
    BY <1>0 DEF Reported
  <1> DEFINE there == n \in Names /\ pool[n].phase # "absent"
             a == IF there THEN "deleting" ELSE "gone"
             c == [machine[m] EXCEPT !.at = a, !.target = n]
  <1>2. /\ machine' = [machine EXCEPT ![m] = c] /\ node' = node
        /\ pool' = IF there THEN [pool EXCEPT ![n] = [pool[n] EXCEPT !.phase = "deleting"]]
                   ELSE pool
    BY <1>1 DEF BeginDelete
  <1>3. a \in Ats /\ n \in {m, ParseAgentPoolName(InstanceID(m))}
    BY DEF Ats
  <1>4. /\ c \in Calls(m) /\ c.at = a /\ c.id = machine[m].id
        /\ c.labels = machine[m].labels
    <2> HIDE DEF a
    <2> QED BY <1>0, <1>3 DEF Calls
  <1>5. Reported(m, c)
    <2> HIDE DEF c
    <2> QED BY <1>0, <1>4 DEF Reported
  <1>6. /\ DOMAIN machine' = Machines
        /\ \A k \in Machines : machine'[k] \in Calls(k) /\ Reported(k, machine'[k])
        /\ machine'[m] = c /\ \A k \in Machines \ {m} : machine'[k] = machine[k]
    <2> HIDE DEF c
    <2> QED BY <1>2, <1>4, <1>5, OneCall
  <1> HIDE DEF c
  <1>7. CASE there
    <2> DEFINE p == [pool[n] EXCEPT !.phase = "deleting"]
    <2>0. pool[n] \in Pools(n) /\ pool[n].phase # "absent"
      BY <1>7 DEF PoolTypes
    <2>1. p \in Pools(n) /\ p.phase = "deleting"
      BY <2>0, PoolForm
    <2>2. pool' = [pool EXCEPT ![n] = p]
      BY <1>2, <1>7
    <2> HIDE DEF p
    <2>3. /\ DOMAIN pool' = Names /\ \A q \in Names : pool'[q] \in Pools(q)
          /\ pool'[n] = p /\ \A q \in Names \ {n} : pool'[q] = pool[q]
      BY <1>7, <2>1, <2>2, OnePool
    <2>4. PoolTypes'
      BY <1>2, <1>6, <2>3 DEF PoolTypes
    <2> QED BY <1>0, <1>4, <1>6, <1>7, <2>1, <2>3, <2>4
  <1>8. CASE ~there
    <2>1. pool' = pool
      BY <1>2, <1>8
    <2>2. PoolTypes'
      BY <1>2, <1>6, <2>1 DEF PoolTypes
    <2> QED BY <1>0, <1>4, <1>6, <1>8, <2>1, <2>2
  <1> QED BY <1>7, <1>8

LEMMA EndDeleteEffect ==
    ASSUME PoolTypes, NEW m \in Machines, EndDelete(m)
    PROVE  /\ PoolTypes' /\ machine[m].at = "deleting" /\ pool' = pool
           /\ machine'[m].at = IF pool[machine[m].target].phase = "absent" THEN "gone"
                               ELSE "running"
           /\ \A k \in Machines \ {m} : machine'[k] = machine[k]
  <1> DEFINE a == IF pool[machine[m].target].phase = "absent" THEN "gone" ELSE "running"
             c == [machine[m] EXCEPT !.at = a]
  <1>0. machine[m] \in Calls(m) /\ Reported(m, machine[m]) /\ machine[m].at = "deleting"
    BY DEF PoolTypes, EndDelete
  <1>1. machine' = [machine EXCEPT ![m] = c] /\ UNCHANGED <<pool, node>>
    BY DEF EndDelete
  <1>2. a \in Ats
    BY DEF Ats
  <1>3. c \in Calls(m) /\ c.at = a /\ c.id = machine[m].id /\ c.labels = machine[m].labels
    <2> HIDE DEF a
    <2> QED BY <1>0, <1>2, CallAt
  <1> HIDE DEF c
  <1>4. Reported(m, c)
    BY <1>0, <1>3 DEF Reported
  <1>5. PoolTypes' /\ machine'[m] = c /\ \A k \in Machines \ {m} : machine'[k] = machine[k]
    BY <1>1, <1>3, <1>4, OneCall DEF PoolTypes
  <1> QED BY <1>0, <1>1, <1>3, <1>5

\* The steps of AKS: a pool is made, or goes.
LEMMA PoolEffect ==
    ASSUME PoolTypes, NEW n \in Names, PoolMade(n) \/ PoolGone(n)
    PROVE  /\ PoolTypes' /\ machine' = machine
           /\ \A q \in Names \ {n} : pool'[q] = pool[q]
           /\ \/ pool[n].phase = "creating" /\ pool'[n].phase = "ready"
              \/ pool[n].phase = "deleting" /\ pool'[n].phase = "absent"
  <1>0. pool[n] \in Pools(n) /\ machine' = machine
    BY DEF PoolTypes, PoolMade, PoolGone
  <1>1. DOMAIN node' = Names
    BY DEF PoolTypes, PoolMade, PoolGone
  <1>2. CASE PoolMade(n)
    <2> DEFINE p == [pool[n] EXCEPT !.phase = "ready"]
    <2>1. pool' = [pool EXCEPT ![n] = p] /\ pool[n].phase = "creating"
      BY <1>2 DEF PoolMade
    <2>2. p \in Pools(n) /\ p.phase = "ready"
      BY <1>0, <2>1, PoolForm
    <2> HIDE DEF p
    <2>3. /\ DOMAIN pool' = Names /\ \A q \in Names : pool'[q] \in Pools(q)
          /\ pool'[n] = p /\ \A q \in Names \ {n} : pool'[q] = pool[q]
      BY <2>1, <2>2, OnePool
    <2> QED BY <1>0, <1>1, <2>1, <2>2, <2>3 DEF PoolTypes
  <1>3. CASE PoolGone(n)
    <2>1. pool' = [pool EXCEPT ![n] = Absent] /\ pool[n].phase = "deleting"
      BY <1>3 DEF PoolGone
    <2>2. Absent \in Pools(n) /\ Absent.phase = "absent"
      BY DEF Pools, Absent
    <2>3. /\ DOMAIN pool' = Names /\ \A q \in Names : pool'[q] \in Pools(q)
          /\ pool'[n] = Absent /\ \A q \in Names \ {n} : pool'[q] = pool[q]
      BY <2>1, <2>2, OnePool
    <2> QED BY <1>0, <1>1, <2>1, <2>2, <2>3 DEF PoolTypes
  <1> QED BY <1>2, <1>3

\* Every step preserves PoolTypes.
LEMMA TypesStep == PoolTypes /\ [ProviderNext]_providerVars => PoolTypes'
  <1> SUFFICES ASSUME PoolTypes, [ProviderNext]_providerVars PROVE PoolTypes'
    OBVIOUS
  <1>1. ASSUME NEW m \in Machines,
               \/ CreateFails(m) \/ BeginCreate(m) \/ EndCreate(m) \/ CreateTimesOut(m)
               \/ BeginDelete(m) \/ EndDelete(m)
        PROVE  PoolTypes'
    BY <1>1, CreateEffect, PutEffect, DeleteEffect, EndDeleteEffect
  <1>2. ASSUME NEW n \in Names, PoolMade(n) \/ PoolGone(n) PROVE PoolTypes'
    BY <1>2, PoolEffect
  <1>3. ASSUME NEW n \in Names, NodeJoins(n) \/ NodeFails(n) PROVE PoolTypes'
    BY <1>3 DEF NodeJoins, NodeFails, PoolTypes
  <1>4. CASE \/ BeginList \/ ListPage \/ Describe \/ EndList \/ ListFails
             \/ UNCHANGED providerVars
    <2>1. UNCHANGED <<pool, node, machine>>
      BY <1>4 DEF BeginList, ListPage, AddPage, Describe, EndList, ListFails, providerVars
    <2> QED BY <2>1 DEF PoolTypes
  <1> QED BY <1>1, <1>2, <1>3, <1>4 DEF ProviderNext

LEMMA TypesStart == ProviderInit => PoolTypes
  <1> SUFFICES ASSUME ProviderInit PROVE PoolTypes
    OBVIOUS
  <1>1. ASSUME NEW n \in Names PROVE pool[n] \in Pools(n)
    <2>1. CASE n \in Machines
      BY <2>1 DEF ProviderInit, Pools
    <2>2. CASE n \notin Machines
      BY <2>2 DEF ProviderInit, Pools, Objects
    <2> QED BY <2>1, <2>2
  <1>2. ASSUME NEW m \in Machines PROVE machine[m] \in Calls(m) /\ Reported(m, machine[m])
    <2>1. machine[m] = [at |-> "new", id |-> NoID, labels |-> System.labels, target |-> m]
      BY DEF ProviderInit
    <2>2. System.labels \in Labelings(m)
      BY DEF Labelings
    <2> QED BY <2>1, <2>2 DEF Calls, Ats, Reported
  <1> QED BY <1>1, <1>2 DEF ProviderInit, PoolTypes

\* The labels that a machine gets from Create are its own, whichever size is chosen and
\* however often the PUT is repeated; the default of the provisioner's name yields to
\* them (newAgentPoolObject sets the defaults first).
THEOREM LabelsStay == ProviderSpec => []LabelsAreKept
  <1>1. PoolTypes => LabelsAreKept
    <2> SUFFICES ASSUME PoolTypes, NEW m \in Machines, machine[m].at = "running",
                        NEW k \in Keys \ {"machine-type"}, SpecOf(m).labels[k] # Unset
                 PROVE  machine[m].labels[k] = SpecOf(m).labels[k]
      BY DEF LabelsAreKept
    <2>1. PICK o \in Objects(m) : machine[m].labels = o.labels
      BY DEF PoolTypes, Reported
    <2>2. PICK z \in SizesToTry(SpecOf(m)) : o = newAgentPoolObject(SpecOf(m), z)
      BY DEF Objects
    <2>3. machine[m].labels = NodeLabels(SpecOf(m), z)
      BY <2>1, <2>2 DEF newAgentPoolObject
    <2>4. NodeLabels(SpecOf(m), z)[k] = Override(Defaults, SpecOf(m).labels)[k]
      BY DEF NodeLabels, Override
    <2>5. Override(Defaults, SpecOf(m).labels)[k] = SpecOf(m).labels[k]
      BY DEF Override
    <2> QED BY <2>3, <2>4, <2>5
  <1> QED BY <1>1, TypesStart, TypesStep, PTL DEF ProviderSpec

-----------------------------------------------------------------------------
(* Whose pool is deleted. *)

\* Only the calls of its machine delete a pool, and a call that is over has left none.
DeletedByOwner ==
    /\ \A n \in Names : pool[n].phase = "deleting" =>
         n \in Machines /\ machine[n].at \in {"running", "deleting"}
    /\ \A m \in Machines : machine[m].at = "gone" => pool[m].phase = "absent"

\* A machine whose name survives the way back is the target of its own Delete.
LEMMA OwnTarget ==
    ASSUME PoolTypes, NEW m \in Machines, Survives(m)
    PROVE  m \in Names /\ ParseAgentPoolName(InstanceID(m)) = m /\ machine[m].target = m
  <1>1. m \in Names /\ ParseAgentPoolName(InstanceID(m)) = m
    BY NamesForm, NameRoundTrip
  <1>2. machine[m] \in Calls(m)
    BY DEF PoolTypes
  <1>3. machine[m].target \in {m, ParseAgentPoolName(InstanceID(m))}
    BY <1>2 DEF Calls
  <1> QED BY <1>1, <1>3

\* Every step preserves it, when the names of machines survive the way back.
LEMMA OwnerStep ==
    ASSUME \A m \in Machines : Survives(m)
    PROVE  PoolTypes /\ DeletedByOwner /\ [ProviderNext]_providerVars => DeletedByOwner'
  <1> SUFFICES ASSUME PoolTypes, DeletedByOwner, [ProviderNext]_providerVars
               PROVE  DeletedByOwner'
    OBVIOUS
  <1>0. ASSUME NEW m \in Machines
        PROVE  m \in Names /\ ParseAgentPoolName(InstanceID(m)) = m /\ machine[m].target = m
    BY OwnTarget
  <1>1. ASSUME NEW m \in Machines, CreateFails(m) \/ CreateTimesOut(m) \/ EndCreate(m)
        PROVE  DeletedByOwner'
    <2>1. /\ pool' = pool /\ machine[m].at \in {"new", "creating"}
          /\ machine'[m].at \in {"new", "failed", "running"}
          /\ \A k \in Machines \ {m} : machine'[k] = machine[k]
      BY <1>1, CreateEffect
    <2> QED BY <2>1 DEF DeletedByOwner
  <1>2. ASSUME NEW m \in Machines, BeginCreate(m) PROVE DeletedByOwner'
    <2>1. /\ machine[m].at = "new" /\ machine'[m].at = "creating"
          /\ pool'[m].phase = "creating"
          /\ \A k \in Machines \ {m} : machine'[k] = machine[k]
          /\ \A q \in Names \ {m} : pool'[q] = pool[q]
      BY <1>2, PutEffect
    <2> QED BY <1>0, <2>1 DEF DeletedByOwner
  <1>3. ASSUME NEW m \in Machines, BeginDelete(m) PROVE DeletedByOwner'
    <2>1. /\ machine[m].at = "running"
          /\ \A k \in Machines \ {m} : machine'[k] = machine[k]
          /\ \/ /\ machine'[m].at = "deleting" /\ pool'[m].phase = "deleting"
                /\ \A q \in Names \ {m} : pool'[q] = pool[q]
             \/ pool[m].phase = "absent" /\ machine'[m].at = "gone" /\ pool' = pool
      BY <1>0, <1>3, DeleteEffect
    <2> QED BY <1>0, <2>1 DEF DeletedByOwner
  <1>4. ASSUME NEW m \in Machines, EndDelete(m) PROVE DeletedByOwner'
    <2>1. /\ machine[m].at = "deleting" /\ pool' = pool
          /\ machine'[m].at = IF pool[m].phase = "absent" THEN "gone" ELSE "running"
          /\ \A k \in Machines \ {m} : machine'[k] = machine[k]
      BY <1>0, <1>4, EndDeleteEffect
    <2> QED BY <1>0, <2>1 DEF DeletedByOwner
  <1>5. ASSUME NEW n \in Names, PoolMade(n) \/ PoolGone(n) PROVE DeletedByOwner'
    <2>1. /\ machine' = machine /\ \A q \in Names \ {n} : pool'[q] = pool[q]
          /\ \/ pool[n].phase = "creating" /\ pool'[n].phase = "ready"
             \/ pool[n].phase = "deleting" /\ pool'[n].phase = "absent"
      BY <1>5, PoolEffect
    <2> QED BY <1>0, <2>1 DEF DeletedByOwner
  <1>6. CASE \/ BeginList \/ ListPage \/ Describe \/ EndList \/ ListFails
             \/ (\E n \in Names : NodeJoins(n) \/ NodeFails(n)) \/ UNCHANGED providerVars
    <2>1. UNCHANGED <<pool, machine>>
      BY <1>6 DEF BeginList, ListPage, AddPage, Describe, EndList, ListFails, NodeJoins,
                  NodeFails, providerVars
    <2> QED BY <2>1 DEF DeletedByOwner
  <1> QED BY <1>1, <1>2, <1>3, <1>4, <1>5, <1>6 DEF ProviderNext

LEMMA OwnerStart == ProviderInit => DeletedByOwner
  <1> SUFFICES ASSUME ProviderInit PROVE DeletedByOwner
    OBVIOUS
  <1>1. \A n \in Names : pool[n].phase \in {"absent", "ready"}
    BY DEF ProviderInit, Absent
  <1>2. \A m \in Machines : machine[m].at = "new"
    BY DEF ProviderInit
  <1> QED BY <1>1, <1>2 DEF DeletedByOwner

\* The way from a machine to its provider ID and back ends at its own pool, if no name
\* of a machine begins with vmss and goes on; NameRoundTrip says that this is what it
\* takes.  Get finds the pool, and Delete deletes no other.
THEOREM DeletesOwnPools ==
    ASSUME \A m \in Machines : Survives(m)
    PROVE  ProviderSpec => []OwnPoolOnly
  <1>1. PoolTypes /\ DeletedByOwner => OwnPoolOnly
    <2> SUFFICES ASSUME PoolTypes, DeletedByOwner PROVE OwnPoolOnly
      OBVIOUS
    <2>1. ASSUME NEW m \in Machines, machine[m].at = "running", Described(m)
          PROVE  Get(machine[m].id) = machine[m].id
      <3>1. machine[m].id = InstanceID(m)
        BY <2>1 DEF PoolTypes, Reported
      <3>2. m \in Names /\ ParseAgentPoolName(InstanceID(m)) = m
        BY NamesForm, NameRoundTrip
      <3> QED BY <2>1, <3>1, <3>2 DEF Get
    <2> QED BY <2>1 DEF DeletedByOwner, OwnPoolOnly
  <1> QED BY <1>1, TypesStart, OwnerStart, TypesStep, OwnerStep, PTL DEF ProviderSpec

-----------------------------------------------------------------------------
(* The contract of Ownership. *)

OwnPhases == [m \in Machines |-> IF machine[m].at = "gone" THEN "released" ELSE "owned"]
OwnPools  == {m \in Machines : pool[m].phase # "absent"}
OwnBound  == {m \in Machines : machine[m].at \in {"running", "deleting"}}

\* A step that concerns one machine and its pool changes the contract's variables for
\* that machine only.
LEMMA OwnFrame ==
    ASSUME NEW m \in Machines,
           \A k \in Machines \ {m} : machine'[k] = machine[k] /\ pool'[k] = pool[k]
    PROVE  /\ OwnPhases' = [OwnPhases EXCEPT ![m] = IF machine'[m].at = "gone" THEN "released"
                                                    ELSE "owned"]
           /\ OwnPools' = IF pool'[m].phase # "absent" THEN OwnPools \union {m}
                          ELSE OwnPools \ {m}
           /\ OwnBound' = IF machine'[m].at \in {"running", "deleting"} THEN OwnBound \union {m}
                          ELSE OwnBound \ {m}
  <1>1. OwnPhases' = [OwnPhases EXCEPT ![m] = IF machine'[m].at = "gone" THEN "released"
                                              ELSE "owned"]
    BY DEF OwnPhases
  <1>2. OwnPools' = IF pool'[m].phase # "absent" THEN OwnPools \union {m} ELSE OwnPools \ {m}
    BY DEF OwnPools
  <1>3. OwnBound' = IF machine'[m].at \in {"running", "deleting"} THEN OwnBound \union {m}
                    ELSE OwnBound \ {m}
    BY DEF OwnBound
  <1> QED BY <1>1, <1>2, <1>3

\* A step in which neither the machine's end, its instance nor the existence of its pool
\* changes is none of the contract.
LEMMA OwnSame ==
    ASSUME NEW m \in Machines,
           \A k \in Machines \ {m} : machine'[k] = machine[k] /\ pool'[k] = pool[k],
           machine[m].at # "gone", machine'[m].at # "gone",
           pool[m].phase = "absent" <=> pool'[m].phase = "absent",
           machine[m].at \in {"running", "deleting"} <=> machine'[m].at \in {"running", "deleting"}
    PROVE  UNCHANGED <<OwnPhases, OwnPools, OwnBound>>
  <1>1. OwnPhases' = OwnPhases
    <2>1. \A k \in Machines : machine[k].at = "gone" <=> machine'[k].at = "gone"
      OBVIOUS
    <2> QED BY <2>1 DEF OwnPhases
  <1>2. OwnPools' = OwnPools /\ OwnBound' = OwnBound
    BY DEF OwnPools, OwnBound
  <1> QED BY <1>1, <1>2

\* Delete has succeeded: the machine is released without a pool.
LEMMA OwnRelease ==
    ASSUME NEW m \in Machines,
           \A k \in Machines \ {m} : machine'[k] = machine[k],
           pool' = pool, machine[m].at # "gone", machine'[m].at = "gone",
           pool[m].phase = "absent"
    PROVE  Own!OwnNext
  <1>1. /\ OwnPhases[m] = "owned" /\ m \notin OwnPools
        /\ OwnPhases' = [OwnPhases EXCEPT ![m] = "released"]
        /\ OwnBound' = OwnBound \ {m} /\ OwnPools' = OwnPools
    BY OwnFrame DEF OwnPhases, OwnPools
  <1>2. Own!Release(m)
    BY <1>1 DEF Own!Release, OwnPhases, OwnPools, OwnBound
  <1> QED BY <1>2 DEF Own!OwnNext

\* Every step is a step of the contract or leaves its variables alone.
LEMMA ContractStep ==
    ASSUME \A m \in Machines : Survives(m)
    PROVE  PoolTypes /\ DeletedByOwner /\ [ProviderNext]_providerVars
             => [Own!OwnNext]_(Own!ownVars)
  <1> SUFFICES ASSUME PoolTypes, DeletedByOwner, [ProviderNext]_providerVars
               PROVE  Own!OwnNext \/ UNCHANGED <<OwnPhases, OwnPools, OwnBound>>
    BY DEF Own!ownVars, OwnPhases, OwnPools, OwnBound
  <1>0. ASSUME NEW m \in Machines
        PROVE  m \in Names /\ ParseAgentPoolName(InstanceID(m)) = m /\ machine[m].target = m
    BY OwnTarget
  <1>1. ASSUME NEW m \in Machines, CreateFails(m) \/ CreateTimesOut(m) \/ EndCreate(m)
        PROVE  Own!OwnNext \/ UNCHANGED <<OwnPhases, OwnPools, OwnBound>>
    <2>1. /\ pool' = pool /\ machine[m].at \in {"new", "creating"}
          /\ machine'[m].at \in {"new", "failed", "running"}
          /\ \A k \in Machines \ {m} : machine'[k] = machine[k]
      BY <1>1, CreateEffect
    <2>2. CASE machine'[m].at = "running"
      <3>1. /\ OwnPhases[m] = "owned" /\ OwnPhases' = OwnPhases
            /\ OwnBound' = OwnBound \union {m} /\ OwnPools' = OwnPools
        <4>1. \A k \in Machines : machine[k].at = "gone" <=> machine'[k].at = "gone"
          BY <2>1, <2>2
        <4>2. OwnPhases[m] = "owned" /\ OwnPhases' = OwnPhases
          BY <2>1, <4>1 DEF OwnPhases
        <4>3. OwnBound' = OwnBound \union {m} /\ OwnPools' = OwnPools
          BY <2>1, <2>2, OwnFrame DEF OwnPools
        <4> QED BY <4>2, <4>3
      <3>2. Own!BindInstance(m)
        BY <3>1 DEF Own!BindInstance, OwnPhases, OwnPools, OwnBound
      <3> QED BY <3>2 DEF Own!OwnNext
    <2>3. CASE machine'[m].at # "running"
      BY <2>1, <2>3, OwnSame
    <2> QED BY <2>2, <2>3
  <1>2. ASSUME NEW m \in Machines, BeginCreate(m)
        PROVE  Own!OwnNext \/ UNCHANGED <<OwnPhases, OwnPools, OwnBound>>
    <2>1. /\ machine[m].at = "new" /\ machine'[m].at = "creating"
          /\ pool'[m].phase = "creating"
          /\ \A k \in Machines \ {m} : machine'[k] = machine[k]
          /\ \A q \in Names \ {m} : pool'[q] = pool[q]
      BY <1>2, PutEffect
    <2>2. \A k \in Machines \ {m} : machine'[k] = machine[k] /\ pool'[k] = pool[k]
      BY <1>0, <2>1
    <2>3. CASE pool[m].phase # "absent"
      BY <2>1, <2>2, <2>3, OwnSame
    <2>4. CASE pool[m].phase = "absent"
      <3>1. \A k \in Machines : machine[k].at = "gone" <=> machine'[k].at = "gone"
        BY <2>1
      <3>2. OwnPhases[m] = "owned" /\ OwnPhases' = OwnPhases
        BY <2>1, <3>1 DEF OwnPhases
      <3>3. m \notin OwnPools \union OwnBound /\ OwnPools' = OwnPools \union {m}
        BY <2>1, <2>2, <2>4, OwnFrame DEF OwnPools, OwnBound
      <3>4. OwnBound' = OwnBound
        BY <2>1 DEF OwnBound
      <3>5. Own!Make(m)
        BY <3>2, <3>3, <3>4 DEF Own!Make, OwnPhases, OwnPools, OwnBound
      <3> QED BY <3>5 DEF Own!OwnNext
    <2> QED BY <2>3, <2>4
  <1>3. ASSUME NEW m \in Machines, BeginDelete(m)
        PROVE  Own!OwnNext \/ UNCHANGED <<OwnPhases, OwnPools, OwnBound>>
    <2>1. /\ machine[m].at = "running"
          /\ \A k \in Machines \ {m} : machine'[k] = machine[k]
          /\ \/ /\ machine'[m].at = "deleting"
                /\ pool[m].phase # "absent" /\ pool'[m].phase = "deleting"
                /\ \A q \in Names \ {m} : pool'[q] = pool[q]
             \/ pool[m].phase = "absent" /\ machine'[m].at = "gone" /\ pool' = pool
      BY <1>0, <1>3, DeleteEffect
    <2>2. CASE machine'[m].at = "gone"
      BY <2>1, <2>2, OwnRelease
    <2>3. CASE machine'[m].at # "gone"
      <3>1. \A k \in Machines \ {m} : pool'[k] = pool[k]
        BY <1>0, <2>1, <2>3
      <3> QED BY <2>1, <2>3, <3>1, OwnSame
    <2> QED BY <2>2, <2>3
  <1>4. ASSUME NEW m \in Machines, EndDelete(m)
        PROVE  Own!OwnNext \/ UNCHANGED <<OwnPhases, OwnPools, OwnBound>>
    <2>1. /\ machine[m].at = "deleting" /\ pool' = pool
          /\ machine'[m].at = IF pool[m].phase = "absent" THEN "gone" ELSE "running"
          /\ \A k \in Machines \ {m} : machine'[k] = machine[k]
      BY <1>0, <1>4, EndDeleteEffect
    <2>2. CASE pool[m].phase = "absent"
      BY <2>1, <2>2, OwnRelease
    <2>3. CASE pool[m].phase # "absent"
      BY <2>1, <2>3, OwnSame
    <2> QED BY <2>2, <2>3
  <1>5. ASSUME NEW n \in Names, PoolMade(n) \/ PoolGone(n)
        PROVE  Own!OwnNext \/ UNCHANGED <<OwnPhases, OwnPools, OwnBound>>
    <2>1. /\ machine' = machine /\ \A q \in Names \ {n} : pool'[q] = pool[q]
          /\ \/ pool[n].phase = "creating" /\ pool'[n].phase = "ready"
             \/ pool[n].phase = "deleting" /\ pool'[n].phase = "absent"
      BY <1>5, PoolEffect
    <2>2. OwnPhases' = OwnPhases /\ OwnBound' = OwnBound
      BY <2>1 DEF OwnPhases, OwnBound
    <2>3. CASE pool'[n].phase = "ready"
      <3>1. OwnPools' = OwnPools
        BY <1>0, <2>1, <2>3 DEF OwnPools
      <3> QED BY <2>2, <3>1
    <2>4. CASE pool'[n].phase = "absent"
      <3>1. n \in Machines
        BY <2>1, <2>4 DEF DeletedByOwner
      <3>2. OwnPools' = OwnPools \ {n}
        BY <1>0, <2>1, <2>4 DEF OwnPools
      <3>3. Own!Unmake(n)
        BY <2>2, <3>2 DEF Own!Unmake, OwnPhases, OwnPools, OwnBound
      <3> QED BY <3>1, <3>3 DEF Own!OwnNext
    <2> QED BY <2>1, <2>3, <2>4
  <1>6. CASE \/ BeginList \/ ListPage \/ Describe \/ EndList \/ ListFails
             \/ (\E n \in Names : NodeJoins(n) \/ NodeFails(n)) \/ UNCHANGED providerVars
    <2>1. UNCHANGED <<pool, machine>>
      BY <1>6 DEF BeginList, ListPage, AddPage, Describe, EndList, ListFails, NodeJoins,
                  NodeFails, providerVars
    <2> QED BY <2>1 DEF OwnPhases, OwnPools, OwnBound
  <1> QED BY <1>1, <1>2, <1>3, <1>4, <1>5, <1>6 DEF ProviderNext

\* Create and Delete keep the contract of Ownership, with the way through names and IDs
\* that they take, for machines whose names survive it: a pool is made only for a machine
\* without instance, and a Delete that succeeds leaves no pool.
THEOREM ProviderOwns ==
    ASSUME \A m \in Machines : Survives(m)
    PROVE  ProviderSpec => ImplementsContract
  <1>1. ProviderInit => Own!OwnInit
    <2> SUFFICES ASSUME ProviderInit PROVE Own!OwnInit
      OBVIOUS
    <2>1. \A m \in Machines : machine[m].at = "new" /\ pool[m].phase = "absent"
      BY NamesForm DEF ProviderInit, Absent
    <2>2. OwnPhases \in [Machines -> {"none", "owned"}] /\ OwnPools = {} /\ OwnBound = {}
      BY <2>1 DEF OwnPhases, OwnPools, OwnBound
    <2> QED BY <2>2 DEF Own!OwnInit, OwnPhases, OwnPools, OwnBound
  <1> QED BY <1>1, TypesStart, OwnerStart, TypesStep, OwnerStep, ContractStep, PTL
      DEF ProviderSpec, ImplementsContract, Own!OwnSpec

-----------------------------------------------------------------------------
(* List. *)

ListStates == [at: {"idle", "paging", "describing", "done"}, last: 0..Len(Order),
               todo: SUBSET (1..Len(Order)), got: SUBSET Names, steady: SUBSET Names]

\* A pool that has been there throughout is described already, is on a page that has
\* been had, or is on one that is still to come.
Covered(l, n) ==
    /\ l.at = "paging" => \A i \in 1..Len(Order) : Order[i] = n => i \in l.todo \/ i > l.last
    /\ l.at = "describing" => n \in l.got \/ \E i \in l.todo : Order[i] = n
    /\ l.at = "done" => n \in l.got

ListInv ==
    /\ list \in ListStates
    /\ \A n \in list.steady : Described(n) /\ Covered(list, n)

\* A call with fewer steady pools, and one whose pools and nodes stay, is as good.
LEMMA FewerSteady ==
    ASSUME ListInv, NEW W \in SUBSET Names,
           list' = [list EXCEPT !.steady = @ \ W],
           \A n \in Names \ W : Described(n) => Described(n)'
    PROVE  ListInv'
  <1> DEFINE l == [list EXCEPT !.steady = @ \ W]
  <1>1. /\ l \in ListStates /\ l.steady = list.steady \ W
        /\ l.at = list.at /\ l.last = list.last /\ l.todo = list.todo /\ l.got = list.got
    BY DEF ListInv, ListStates
  <1>2. list' = l /\ list.steady \subseteq Names
    BY DEF ListInv, ListStates
  <1> HIDE DEF l
  <1>3. \A n \in l.steady : n \in list.steady /\ n \in Names \ W
    BY <1>1, <1>2
  <1>4. \A n \in l.steady : Covered(l, n) /\ Described(n)'
    BY <1>1, <1>3 DEF Covered, ListInv
  <1> QED BY <1>1, <1>2, <1>4 DEF ListInv, Covered

LEMMA SameList ==
    ASSUME ListInv, list' = list, \A n \in Names : Described(n) => Described(n)'
    PROVE  ListInv'
  <1>1. list.steady \subseteq Names
    BY DEF ListInv, ListStates
  <1> QED BY <1>1 DEF ListInv, Covered

\* The steps of List itself, in which pools and nodes stay.
LEMMA BeginListStep ==
    ASSUME BeginList PROVE ListInv'
  <1> DEFINE S == {n \in Names : Described(n)}
             l == [NoList EXCEPT !.at = "paging", !.steady = S]
  <1>1. list' = l /\ UNCHANGED <<pool, node>>
    BY DEF BeginList
  <1>2. S \subseteq Names /\ 0 \in 0..Len(Order) /\ \A n \in S : Described(n)
    BY NamesForm
  <1> HIDE DEF S
  <1>3. l \in ListStates /\ l.at = "paging" /\ l.last = 0 /\ l.steady = S
    BY <1>2 DEF NoList, ListStates
  <1> HIDE DEF l
  <1>4. \A i \in 1..Len(Order) : i > l.last
    BY <1>3, NamesForm
  <1>5. \A n \in l.steady : Covered(l, n) /\ Described(n)
    BY <1>2, <1>3, <1>4 DEF Covered
  <1> QED BY <1>1, <1>3, <1>5 DEF ListInv, Covered, Described

LEMMA ListPageStep ==
    ASSUME ListInv, ListPage PROVE ListInv'
  <1>1. PICK last \in (list.last + 1)..Len(Order) : AddPage(last, list.todo \cup Page(last))
    BY DEF ListPage
  <1> DEFINE T == list.todo \cup Page(last)
             a == IF last < Len(Order) THEN "paging" ELSE "describing"
             l == [list EXCEPT !.todo = T, !.last = last, !.at = a]
  <1>2. list' = l /\ UNCHANGED <<pool, node>> /\ list.at = "paging"
    BY <1>1 DEF AddPage
  <1>3. list \in ListStates /\ list.last \in 0..Len(Order) /\ Len(Order) \in Nat
    BY NamesForm DEF ListInv, ListStates
  <1>4. last \in 1..Len(Order) /\ last \in 0..Len(Order)
    BY <1>3
  <1>5. T \subseteq 1..Len(Order)
    <2>1. Page(last) \subseteq 1..Len(Order)
      BY <1>3, <1>4 DEF Page
    <2> QED BY <1>3, <2>1 DEF ListStates
  <1>6. /\ l \in ListStates /\ l.at = a /\ l.last = last /\ l.todo = T
        /\ l.steady = list.steady
    <2>1. a \in {"paging", "describing"}
      OBVIOUS
    <2> HIDE DEF T, a
    <2> QED BY <1>3, <1>4, <1>5, <2>1 DEF ListStates
  <1>7. ASSUME NEW n \in list.steady, NEW i \in 1..Len(Order), Order[i] = n, i <= last
        PROVE  i \in T
    <2>1. CASE i <= list.last
      <3>1. i \in list.todo \/ i > list.last
        BY <1>2, <1>7 DEF ListInv, Covered
      <3> QED BY <1>3, <2>1, <3>1
    <2>2. CASE ~(i <= list.last)
      <3>1. i \in (list.last + 1)..last
        BY <1>3, <1>4, <1>7, <2>2
      <3>2. pool[Order[i]].phase # "absent"
        BY <1>7 DEF ListInv, Described
      <3> QED BY <3>1, <3>2 DEF Page
    <2> QED BY <2>1, <2>2
  <1> HIDE DEF T, l
  <1>8. ASSUME NEW n \in list.steady PROVE Covered(l, n)
    <2>1. CASE a = "paging"
      <3>1. \A i \in 1..Len(Order) : Order[i] = n => i \in T \/ i > last
        BY <1>4, <1>7
      <3> QED BY <1>6, <2>1, <3>1 DEF Covered
    <2>2. CASE a = "describing"
      <3>1. last = Len(Order)
        BY <1>3, <1>4, <2>2
      <3>2. n \in Names
        BY <1>3 DEF ListStates
      <3>3. PICK i \in 1..Len(Order) : Order[i] = n
        BY <3>2, NamesForm
      <3>4. i \in T
        BY <1>3, <1>7, <3>1, <3>3
      <3> QED BY <1>6, <2>2, <3>3, <3>4 DEF Covered
    <2> QED BY <2>1, <2>2
  <1>9. \A n \in l.steady : Described(n)
    BY <1>6 DEF ListInv
  <1> QED BY <1>2, <1>6, <1>8, <1>9 DEF ListInv, Covered, Described

LEMMA DescribeStep ==
    ASSUME ListInv, Describe PROVE ListInv'
  <1>1. PICK i \in list.todo :
          list' = [list EXCEPT !.todo = @ \ {i},
                               !.got = IF node[Order[i]] = "ready" THEN @ \cup {Order[i]} ELSE @]
    BY DEF Describe
  <1> DEFINE T == list.todo \ {i}
             G == IF node[Order[i]] = "ready" THEN list.got \cup {Order[i]} ELSE list.got
             l == [list EXCEPT !.todo = T, !.got = G]
  <1>2. list' = l /\ UNCHANGED <<pool, node>> /\ list.at = "describing"
    BY <1>1 DEF Describe
  <1>3. list \in ListStates /\ list.todo \subseteq 1..Len(Order) /\ Order[i] \in Names
    BY NamesForm DEF ListInv, ListStates
  <1>4. G \subseteq Names /\ T \subseteq 1..Len(Order)
    BY <1>3 DEF ListStates
  <1>5. /\ l \in ListStates /\ l.at = "describing" /\ l.todo = T /\ l.got = G
        /\ l.steady = list.steady
    <2> HIDE DEF T, G
    <2> QED BY <1>2, <1>3, <1>4 DEF ListStates
  <1> HIDE DEF l
  <1>6. ASSUME NEW n \in list.steady PROVE n \in G \/ \E j \in T : Order[j] = n
    <2>1. node[n] = "ready" /\ (n \in list.got \/ \E j \in list.todo : Order[j] = n)
      BY <1>2 DEF ListInv, Described, Covered
    <2> QED BY <2>1
  <1>7. \A n \in l.steady : Covered(l, n) /\ Described(n)
    <2> HIDE DEF T, G
    <2> QED BY <1>5, <1>6 DEF Covered, ListInv
  <1> QED BY <1>2, <1>5, <1>7 DEF ListInv, Covered, Described

LEMMA EndListStep ==
    ASSUME ListInv, EndList PROVE ListInv'
  <1> DEFINE l == [list EXCEPT !.at = "done", !.last = 0]
  <1>1. list' = l /\ UNCHANGED <<pool, node>> /\ list.at = "describing" /\ list.todo = {}
    BY DEF EndList
  <1>2. list \in ListStates /\ 0 \in 0..Len(Order)
    BY NamesForm DEF ListInv
  <1>3. l \in ListStates /\ l.at = "done" /\ l.got = list.got /\ l.steady = list.steady
    BY <1>2 DEF ListStates
  <1> HIDE DEF l
  <1>4. \A n \in l.steady : Covered(l, n) /\ Described(n)
    BY <1>1, <1>3 DEF ListInv, Covered
  <1> QED BY <1>1, <1>3, <1>4 DEF ListInv, Covered, Described

\* There is nothing to find before a call, and after one that has failed.
LEMMA NoListForm == NoList \in ListStates /\ NoList.steady = {}
  <1>1. 0 \in 0..Len(Order)
    BY NamesForm
  <1> QED BY <1>1 DEF NoList, ListStates

LEMMA NoListIsGood ==
    ASSUME list' = NoList PROVE ListInv'
  BY NoListForm DEF ListInv

\* Every step preserves ListInv.
LEMMA ListStep == PoolTypes /\ ListInv /\ [ProviderNext]_providerVars => ListInv'
  <1> SUFFICES ASSUME PoolTypes, ListInv, [ProviderNext]_providerVars PROVE ListInv'
    OBVIOUS
  <1>1. ASSUME NEW m \in Machines,
               \/ CreateFails(m) \/ EndCreate(m) \/ CreateTimesOut(m) \/ EndDelete(m)
        PROVE  ListInv'
    <2>1. UNCHANGED <<pool, node, list>>
      BY <1>1 DEF CreateFails, EndCreate, CreateTimesOut, EndDelete
    <2> QED BY <2>1, SameList DEF Described
  <1>2. ASSUME NEW m \in Machines, BeginCreate(m) PROVE ListInv'
    <2>1. list' = list /\ node' = node
      BY <1>2 DEF BeginCreate
    <2>2. pool'[m].phase = "creating" /\ \A q \in Names \ {m} : pool'[q] = pool[q]
      BY <1>2, PutEffect
    <2>3. \A n \in Names : Described(n) => Described(n)'
      BY <2>1, <2>2 DEF Described
    <2> QED BY <2>1, <2>3, SameList
  <1>3. ASSUME NEW m \in Machines, BeginDelete(m) PROVE ListInv'
    <2>1. list' = list /\ node' = node
      BY <1>3 DEF BeginDelete
    <2>2. \A q \in Names : pool'[q] = pool[q] \/ pool'[q].phase = "deleting"
      BY <1>3, DeleteEffect
    <2>3. \A n \in Names : Described(n) => Described(n)'
      BY <2>1, <2>2 DEF Described
    <2> QED BY <2>1, <2>3, SameList
  <1>4. ASSUME NEW n \in Names, PoolMade(n) PROVE ListInv'
    <2>1. list' = list /\ node' = node /\ pool[n].phase = "creating"
      BY <1>4 DEF PoolMade
    <2>2. \A q \in Names : pool'[q] = pool[q] \/ pool'[q].phase = "ready"
      BY <1>4, <2>1, PoolEffect
    <2>3. \A q \in Names : Described(q) => Described(q)'
      BY <2>1, <2>2 DEF Described
    <2> QED BY <2>1, <2>3, SameList
  <1>5. ASSUME NEW n \in Names, NodeJoins(n) PROVE ListInv'
    <2>1. list' = list /\ pool' = pool /\ node' = [node EXCEPT ![n] = "ready"]
      BY <1>5 DEF NodeJoins
    <2>2. \A q \in Names : Described(q) => Described(q)'
      BY <2>1 DEF Described, PoolTypes
    <2> QED BY <2>1, <2>2, SameList
  <1>6. ASSUME NEW n \in Names, PoolGone(n) \/ NodeFails(n) PROVE ListInv'
    <2>1. list' = [list EXCEPT !.steady = @ \ {n}]
      BY <1>6 DEF PoolGone, NodeFails, Watched
    <2>2. \A q \in Names \ {n} : pool'[q] = pool[q] /\ node'[q] = node[q]
      BY <1>6 DEF PoolGone, NodeFails, PoolTypes
    <2>3. \A q \in Names \ {n} : Described(q) => Described(q)'
      BY <2>2 DEF Described
    <2> QED BY <2>1, <2>3, FewerSteady
  <1>7. CASE ListFails
    <2>1. list' = NoList
      BY <1>7 DEF ListFails
    <2> QED BY <2>1, NoListIsGood
  <1>8. CASE UNCHANGED providerVars
    BY <1>8, SameList DEF providerVars, Described
  <1> QED BY <1>1, <1>2, <1>3, <1>4, <1>5, <1>6, <1>7, <1>8, BeginListStep, ListPageStep,
             DescribeStep, EndListStep DEF ProviderNext

\* A pool whose node is ready during the whole of List is in its result, wherever AKS
\* ends its pages and whatever pools and nodes come and go meanwhile (listAgentPools
\* appends the pages, and fromAPListToInstances leaves out only what has no ready node).
THEOREM ListFindsAll == ProviderSpec => []ListIsComplete
  <1>1. ProviderInit => ListInv
    <2> SUFFICES ASSUME ProviderInit PROVE ListInv
      OBVIOUS
    <2>1. NoList \in ListStates /\ NoList.steady = {}
      BY NoListForm
    <2> QED BY <2>1 DEF ProviderInit, ListInv
  <1>2. ListInv => ListIsComplete
    BY DEF ListInv, ListIsComplete, Covered
  <1> QED BY <1>1, <1>2, TypesStart, TypesStep, ListStep, PTL DEF ProviderSpec
=============================================================================
