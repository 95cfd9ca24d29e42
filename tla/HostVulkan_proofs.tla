-------------------------- MODULE HostVulkan_proofs --------------------------
(***************************************************************************)
(* For every host, every list of memory types and every command Metal      *)
(* allows: the device is set up with queues it has, what the set-up made   *)
(* is taken down in order, and what the handlers ask for is legal.         *)
(*                                                                         *)
(* The steps of the handlers keep what they kept in ResourceTranslation;   *)
(* what is new is that the memory types are not chosen from at random: they*)
(* were copied from one of the host's GPUs while the device was set up,    *)
(* and are cleared when it is taken down.  SetUpInv says in which phases   *)
(* they agree with the GPU.                                                *)
(***************************************************************************)
EXTENDS HostVulkan, ResourceTranslation_proofs, SequenceTheorems

Optional == {"pipeline_cache", "descriptor_pool"}
\* The phases from the one named on, up to the end of gravity_vk_destroy.
AfterDevice == Device!Pools \cup Optional \cup {"running", "destroying"}
AfterSelection ==
    {"find_queue_families", "create_logical_device"} \cup AfterDevice

QueuesWanted == {queue_families[use] : use \in Device!Uses}

\* The three families exist and can do what they are used for.
FamiliesFit ==
    LET families == host[physical_device].families
    IN  /\ QueuesWanted \subseteq DOMAIN families
        /\ "graphics" \in families[queue_families.graphics]
        /\ "compute" \in families[queue_families.compute]
        /\ families[queue_families.transfer] # {}

\* What the set-up has found stays as it is until gravity_vk_destroy ends.
SetUpInv ==
    /\ host \in Hosts
    /\ queue_families \in [Device!Uses -> Nat]
    /\ phase \in AfterSelection =>
          /\ physical_device \in DOMAIN host
          /\ memory_types = host[physical_device].memory_types
    /\ phase = "create_logical_device" => FamiliesFit

\* Which objects of the set-up there are, by phase.
ObjectsInv ==
    /\ Device!Own \subseteq handles
    /\ Device!Own \subseteq {Device!DestroyOrder[i] : i \in 1 .. 8}
    /\ \A o \in Device!Own \ {"instance"} : Device!Parent(o) \in Device!Own
    /\ phase = "create_instance" => Device!Own = {}
    /\ phase \in {"select_physical_device", "find_queue_families",
                  "create_logical_device"} =>
          "instance" \in Device!Own /\ "device" \notin Device!Own
    /\ phase \in Device!Pools \cup Optional \cup {"running"} =>
          {"instance", "device"} \subseteq Device!Own
    /\ phase = "destroying" =>
          \E k \in 0 .. 8 :
              /\ toDestroy = SubSeq(Device!DestroyOrder, k + 1, 8)
              /\ Device!Own \subseteq {Device!DestroyOrder[i] : i \in k + 1 .. 8}
    /\ phase = "ended" => Device!Own = {}

\* Commands are handled in the loop only.
LoopInv == asked # Nothing => phase = "running"

HostInv == /\ SetUpInv
           /\ ObjectsInv
           /\ LoopInv
           /\ QueuesLegal
           /\ TextureAsked
           /\ asked # Nothing => MemoryInv

-----------------------------------------------------------------------------
(* Choices among the GPUs of a host and the families of a GPU.             *)

\* A GPU of a host is what HostsAssumption says.
LEMMA HostFacts ==
    ASSUME NEW gpus \in Hosts
    PROVE  /\ gpus \in Seq(GPUs)
           /\ DOMAIN gpus = 1 .. Len(gpus) /\ Len(gpus) \in Nat
           /\ \A i \in DOMAIN gpus :
                /\ gpus[i] \in GPUs
                /\ gpus[i].families \in Seq(SUBSET Flags)
                /\ gpus[i].memory_types \in Devices
                /\ \A f \in DOMAIN gpus[i].families :
                     /\ gpus[i].families[f] # {}
                     /\ "graphics" \in gpus[i].families[f] =>
                          "compute" \in gpus[i].families[f]
<1>1. gpus \in Seq(GPUs)
  BY HostsAssumption
<1>2. DOMAIN gpus = 1 .. Len(gpus) /\ Len(gpus) \in Nat
  BY <1>1
<1>3. \A i \in DOMAIN gpus : gpus[i] \in GPUs
  BY <1>1, <1>2
<1> QED BY <1>1, <1>2, <1>3, HostsAssumption DEF GPUs

\* A set of numbers with a bound has a greatest.
LEMMA GreatestMember ==
    ASSUME NEW n \in Nat, NEW S \in SUBSET (0 .. n), S # {}
    PROVE  Device!Greatest(S) \in S
<1> DEFINE T == {k \in 0 .. n : n - k \in S}
<1>1. T \in SUBSET Nat /\ T # {}
  <2>1. PICK i \in S : TRUE
    OBVIOUS
  <2>2. i \in 0 .. n
    OBVIOUS
  <2>3. n - i \in 0 .. n /\ n - (n - i) = i
    BY <2>2
  <2>4. n - i \in T
    BY <2>1, <2>3
  <2>5. T \in SUBSET Nat
    OBVIOUS
  <2> HIDE DEF T
  <2> QED BY <2>4, <2>5
<1>2. PICK k \in T : \A j \in T : k <= j
  BY <1>1, LeastMember
<1>3. \A j \in S : j <= n - k
  <2>1. ASSUME NEW j \in S PROVE j <= n - k
    <3>1. j \in 0 .. n /\ n - j \in 0 .. n /\ n - (n - j) = j
      BY <2>1
    <3>2. k <= n - j
      BY <1>2, <3>1
    <3> QED BY <1>2, <3>1, <3>2
  <2> QED BY <2>1
<1>4. n - k \in S
  BY <1>2
<1> QED BY <1>3, <1>4 DEF Device!Greatest

\* The GPU that is selected is one of the host's.
LEMMA SelectedExists ==
    ASSUME NEW gpus \in Hosts, gpus # <<>>
    PROVE  Device!Selected(gpus) \in DOMAIN gpus
<1> DEFINE intel == {i \in DOMAIN gpus : gpus[i].intel_integrated}
<1>1. /\ gpus \in Seq(GPUs) /\ DOMAIN gpus = 1 .. Len(gpus)
      /\ Len(gpus) \in Nat
  BY HostFacts
<1>2. 1 \in DOMAIN gpus
  BY <1>1
<1>3. intel # {} => Device!Greatest(intel) \in intel
  <2>1. intel \in SUBSET (0 .. Len(gpus))
    BY <1>1
  <2> QED BY <1>1, <2>1, GreatestMember
<1> QED BY <1>2, <1>3 DEF Device!Selected

\* A family that is found has the flags that were looked for.
LEMMA FamilyFound ==
    ASSUME NEW families \in Seq(SUBSET Flags), NEW with, NEW without
    PROVE  LET f == Device!FamilyOf(families, with, without)
           IN  f \in Nat /\ (f # 0 => /\ f \in DOMAIN families
                                     /\ with \subseteq families[f])
<1> DEFINE fit == {i \in DOMAIN families : /\ with \subseteq families[i]
                                           /\ families[i] \cap without = {}}
<1>1. DOMAIN families = 1 .. Len(families) /\ Len(families) \in Nat
  OBVIOUS
<1>2. fit \in SUBSET Nat
  BY <1>1
<1>3. fit # {} => Device!Least(fit) \in fit
  BY <1>2, FirstMember DEF First, Device!Least
<1> QED BY <1>1, <1>2, <1>3 DEF Device!FamilyOf

\* With a family for graphics there is one for each use.
LEMMA FamiliesSuffice ==
    ASSUME NEW families \in Seq(SUBSET Flags),
           \A f \in DOMAIN families :
              /\ families[f] # {}
              /\ "graphics" \in families[f] => "compute" \in families[f],
           Device!Families(families).graphics # 0
    PROVE  LET q == Device!Families(families)
           IN  /\ {q[use] : use \in Device!Uses} \subseteq DOMAIN families
               /\ "graphics" \in families[q.graphics]
               /\ "compute" \in families[q.compute]
               /\ families[q.transfer] # {}
<1> DEFINE g == Device!FamilyOf(families, {"graphics"}, {})
           c == Device!FamilyOf(families, {"compute"}, {"graphics"})
           t == Device!FamilyOf(families, {"transfer"}, {"graphics", "compute"})
           cc == IF c = 0 THEN g ELSE c
           tt == IF t = 0 THEN g ELSE t
<1>1. /\ g # 0 => g \in DOMAIN families /\ "graphics" \in families[g]
      /\ c # 0 => c \in DOMAIN families /\ "compute" \in families[c]
      /\ t # 0 => t \in DOMAIN families
  BY FamilyFound
<1>2. Device!Families(families)
        = [graphics |-> g, compute |-> cc, transfer |-> tt]
  BY DEF Device!Families
<1> HIDE DEF g, c, t
<1>3. g # 0
  BY <1>2
<1>4. /\ {g, cc, tt} \subseteq DOMAIN families
      /\ "graphics" \in families[g] /\ "compute" \in families[cc]
      /\ families[tt] # {}
  BY <1>1, <1>3
<1> HIDE DEF cc, tt
<1> QED BY <1>2, <1>4 DEF Device!Uses

\* The queues are numbers whatever the families are.
LEMMA FamiliesType ==
    ASSUME NEW families \in Seq(SUBSET Flags)
    PROVE  Device!Families(families) \in [Device!Uses -> Nat]
<1> DEFINE g == Device!FamilyOf(families, {"graphics"}, {})
           c == Device!FamilyOf(families, {"compute"}, {"graphics"})
           t == Device!FamilyOf(families, {"transfer"}, {"graphics", "compute"})
<1>1. g \in Nat /\ c \in Nat /\ t \in Nat
  BY FamilyFound
<1> HIDE DEF g, c, t
<1> QED BY <1>1 DEF Device!Families, Device!Uses, g, c, t

\* Tuples put together one by one.
LEMMA Tuples ==
    ASSUME NEW a \in Nat, NEW b \in Nat, NEW c \in Nat
    PROVE  /\ <<a>> \o <<b>> = <<a, b>>
           /\ <<a, b>> \o <<c>> = <<a, b, c>>
           /\ <<a>> \o <<>> = <<a>> /\ <<a, b>> \o <<>> = <<a, b>>
<1> DEFINE s == <<a>> \o <<b>>  r == <<a, b>>
           u == <<a, b>> \o <<c>>  v == <<a, b, c>>
<1>1. /\ s \in Seq(Nat) /\ r \in Seq(Nat)
      /\ Len(s) = 2 /\ s[1] = a /\ s[2] = b
      /\ Len(r) = 2 /\ r[1] = a /\ r[2] = b
  OBVIOUS
<1>2. /\ u \in Seq(Nat) /\ v \in Seq(Nat)
      /\ Len(u) = 3 /\ u[1] = a /\ u[2] = b /\ u[3] = c
      /\ Len(v) = 3 /\ v[1] = a /\ v[2] = b /\ v[3] = c
  OBVIOUS
<1>3. <<a>> \o <<>> = <<a>> /\ <<a, b>> \o <<>> = <<a, b>>
  BY ConcatEmptySeq
<1> HIDE DEF s, r, u, v
<1>4. \A i \in 1 .. Len(s) : s[i] = r[i]
  BY <1>1
<1>5. s = r
  BY <1>1, <1>4, SeqEqual
<1>6. \A i \in 1 .. Len(u) : u[i] = v[i]
  BY <1>2
<1>7. u = v
  BY <1>2, <1>6, SeqEqual
<1> QED BY <1>3, <1>5, <1>7 DEF s, r, u, v

\* The families given to vkCreateDevice are those of the three uses, each once.
LEMMA UniqueExact ==
    ASSUME NEW q \in [Device!Uses -> Nat]
    PROVE  LET s == Device!UniqueFamilies(q)
           IN  /\ {q[use] : use \in Device!Uses} = {s[i] : i \in DOMAIN s}
               /\ \A i, j \in DOMAIN s : s[i] = s[j] => i = j
<1> DEFINE g == q.graphics  c == q.compute  t == q.transfer
           s == Device!UniqueFamilies(q)
<1>1. /\ {q[use] : use \in Device!Uses} = {g, c, t}
      /\ g \in Nat /\ c \in Nat /\ t \in Nat
  BY DEF Device!Uses
<1>2. s = <<g>> \o (IF c # g THEN <<c>> ELSE <<>>)
                \o (IF t \notin {g, c} THEN <<t>> ELSE <<>>)
  BY DEF Device!UniqueFamilies
<1> HIDE DEF g, c, t, s
<1>a. /\ <<g>> \o <<c>> = <<g, c>> /\ <<g>> \o <<t>> = <<g, t>>
      /\ <<g, c>> \o <<t>> = <<g, c, t>>
      /\ <<g>> \o <<>> = <<g>> /\ <<g, c>> \o <<>> = <<g, c>>
  BY <1>1, Tuples
<1>3. CASE c = g /\ t \in {g, c}
  <2>1. s = <<g>> \o <<>> \o <<>>
    BY <1>2, <1>3
  <2>2. s = <<g>>
    BY <1>a, <2>1, Zenon
  <2> QED BY <1>1, <1>3, <2>2 DEF s
<1>4. CASE c = g /\ t \notin {g, c}
  <2>1. s = <<g>> \o <<>> \o <<t>>
    BY <1>2, <1>4
  <2>2. s = <<g, t>>
    BY <1>a, <2>1, Zenon
  <2> QED BY <1>1, <1>4, <2>2 DEF s
<1>5. CASE c # g /\ t \in {g, c}
  <2>1. s = <<g>> \o <<c>> \o <<>>
    BY <1>2, <1>5
  <2>2. s = <<g, c>>
    BY <1>a, <2>1, Zenon
  <2> QED BY <1>1, <1>5, <2>2 DEF s
<1>6. CASE c # g /\ t \notin {g, c}
  <2>1. s = <<g>> \o <<c>> \o <<t>>
    BY <1>2, <1>6
  <2>2. s = <<g, c, t>>
    BY <1>a, <2>1, Zenon
  <2> QED BY <1>1, <1>6, <2>2 DEF s
<1> QED BY <1>3, <1>4, <1>5, <1>6

-----------------------------------------------------------------------------
(* The steps of the set-up and of gravity_vk_destroy.                      *)

\* What the set-up has found stays.
LEMMA SetUpStep == SetUpInv /\ [HostNext]_hostVars => SetUpInv'
<1> SUFFICES ASSUME SetUpInv, [HostNext]_hostVars PROVE SetUpInv'
  OBVIOUS
<1> USE DEF SetUpInv, AfterSelection, AfterDevice, Device!Pools, Optional
<1>1. CASE Device!Fail
  BY <1>1 DEF Device!Fail, FamiliesFit, QueuesWanted
<1>2. CASE Device!CreateInstance
  BY <1>2 DEF Device!CreateInstance, Device!Made, FamiliesFit, QueuesWanted
<1>3. CASE Device!SelectPhysicalDevice
  <2>1. CASE host = <<>>
    BY <1>3, <2>1 DEF Device!SelectPhysicalDevice
  <2>2. CASE host # <<>>
    <3>1. /\ physical_device' = Device!Selected(host)
          /\ memory_types' = host[physical_device'].memory_types
          /\ phase' = "find_queue_families"
          /\ host' = host /\ queue_families' = queue_families
      BY <1>3, <2>2 DEF Device!SelectPhysicalDevice
    <3>2. Device!Selected(host) \in DOMAIN host
      BY <2>2, SelectedExists
    <3> QED BY <3>1, <3>2
  <2> QED BY <2>1, <2>2
<1>4. CASE Device!FindQueueFamilies
  <2> DEFINE families == host[physical_device].families
             q == Device!Families(families)
  <2>1. /\ host' = host /\ physical_device' = physical_device
        /\ memory_types' = memory_types /\ phase = "find_queue_families"
        /\ queue_families' = q
        /\ phase' = IF q.graphics = 0 THEN "failed" ELSE "create_logical_device"
    BY <1>4 DEF Device!FindQueueFamilies
  <2>2. /\ families \in Seq(SUBSET Flags)
        /\ \A f \in DOMAIN families :
              /\ families[f] # {}
              /\ "graphics" \in families[f] => "compute" \in families[f]
    BY <2>1, HostFacts
  <2>3. q \in [Device!Uses -> Nat]
    BY <2>2, FamiliesType
  <2>4. q.graphics # 0 =>
           /\ {q[use] : use \in Device!Uses} \subseteq DOMAIN families
           /\ "graphics" \in families[q.graphics]
           /\ "compute" \in families[q.compute]
           /\ families[q.transfer] # {}
    BY <2>2, FamiliesSuffice
  <2> HIDE DEF q
  <2>5. q.graphics # 0 => FamiliesFit'
    BY <2>1, <2>4 DEF FamiliesFit, QueuesWanted
  <2> QED BY <2>1, <2>3, <2>5
<1>5. CASE Device!CreateLogicalDevice
  BY <1>5 DEF Device!CreateLogicalDevice, Device!Made
<1>6. CASE Device!CreateCommandPool
  BY <1>6 DEF Device!CreateCommandPool, Device!Made
<1>7. CASE Device!CreateOptional
  BY <1>7 DEF Device!CreateOptional, Device!Made
<1>8. CASE Device!LeaveLoop
  BY <1>8 DEF Device!LeaveLoop
<1>9. CASE Device!DestroyNext
  BY <1>9 DEF Device!DestroyNext
<1>10. CASE Device!ClearState
  BY <1>10 DEF Device!ClearState
<1>11. CASE HandlerStep
  <2>1. UNCHANGED <<host, phase, physical_device, queue_families, enabled>>
        /\ phase = "running"
    BY <1>11 DEF HandlerStep
  <2>2. memory_types' = memory_types
    BY <1>11 DEF HandlerStep, Next, CreateTexture, CreateBuffer,
                 CreateSampler, Return
  <2> QED BY <2>1, <2>2
<1>12. CASE UNCHANGED hostVars
  BY <1>12 DEF hostVars, FamiliesFit, QueuesWanted
<1> QED BY <1>1, <1>2, <1>3, <1>4, <1>5, <1>6, <1>7, <1>8, <1>9, <1>10,
           <1>11, <1>12
        DEF HostNext, DeviceStep, Device!Next

Objects == Device!OfDevice \cup {"device", "debug_messenger", "instance"}

\* The order of gravity_vk_destroy is the reverse of the making.
LEMMA OrderFacts ==
    /\ Device!DestroyOrder \in Seq(Objects) /\ Len(Device!DestroyOrder) = 8
    /\ \A i \in 1 .. 8, j \in 1 .. 8 :
          Device!DestroyOrder[j] # "instance" /\ i < j =>
             Device!Parent(Device!DestroyOrder[j]) # Device!DestroyOrder[i]
    /\ \A i \in 1 .. 8, j \in 1 .. 8 :
          i # j => Device!DestroyOrder[i] # Device!DestroyOrder[j]
<1> DEFINE order == Device!DestroyOrder
<1>1. order \in Seq(Objects) /\ Len(order) = 8
  BY DEF Device!DestroyOrder, Objects, Device!OfDevice, Device!Pools
<1>2. /\ order[1] = "descriptor_pool"    /\ order[2] = "pipeline_cache"
      /\ order[3] = "graphics_cmd_pool"  /\ order[4] = "compute_cmd_pool"
      /\ order[5] = "transfer_cmd_pool"  /\ order[6] = "device"
      /\ order[7] = "debug_messenger"    /\ order[8] = "instance"
  BY DEF Device!DestroyOrder
<1> HIDE DEF order
<1>3. \A i \in 1 .. 8 : i \in {1, 2, 3, 4, 5, 6, 7, 8}
  OBVIOUS
<1>4. \A j \in 1 .. 8 :
         Device!Parent(order[j]) = IF j < 6 THEN order[6] ELSE order[8]
  BY <1>2, <1>3 DEF Device!Parent, Device!OfDevice, Device!OfHandlers,
                    Device!Pools
<1>5. \A i \in 1 .. 8, j \in 1 .. 8 : i # j => order[i] # order[j]
  BY <1>2, <1>3
<1>6. \A i \in 1 .. 8, j \in 1 .. 8 :
         order[j] # "instance" /\ i < j => Device!Parent(order[j]) # order[i]
  <2> SUFFICES ASSUME NEW i \in 1 .. 8, NEW j \in 1 .. 8,
                      order[j] # "instance", i < j
               PROVE  Device!Parent(order[j]) # order[i]
    OBVIOUS
  <2>1. j # 8
    BY <1>2
  <2>2. CASE j < 6
    BY <1>4, <1>5, <2>2
  <2>3. CASE ~ (j < 6)
    BY <1>4, <1>5, <2>1, <2>3
  <2> QED BY <2>2, <2>3
<1> QED BY <1>1, <1>5, <1>6 DEF order

\* Objects are made after the one they are made from and destroyed before it.
LEMMA ObjectsStep == ObjectsInv /\ [HostNext]_hostVars => ObjectsInv'
<1> SUFFICES ASSUME ObjectsInv, [HostNext]_hostVars PROVE ObjectsInv'
  OBVIOUS
<1> DEFINE order == Device!DestroyOrder
           All == {order[i] : i \in 1 .. 8}
<1>0. /\ All = Objects
      /\ \A o \in Objects : Device!Parent(o) =
            IF o \in Device!OfDevice THEN "device" ELSE "instance"
  <2>1. /\ order[1] = "descriptor_pool"    /\ order[2] = "pipeline_cache"
        /\ order[3] = "graphics_cmd_pool"  /\ order[4] = "compute_cmd_pool"
        /\ order[5] = "transfer_cmd_pool"  /\ order[6] = "device"
        /\ order[7] = "debug_messenger"    /\ order[8] = "instance"
    BY DEF Device!DestroyOrder
  <2> HIDE DEF order
  <2>2. \A i \in 1 .. 8 : i \in {1, 2, 3, 4, 5, 6, 7, 8}
    OBVIOUS
  <2>3. All \subseteq Objects
    BY <2>1, <2>2 DEF Objects, Device!OfDevice, Device!Pools
  <2>4. \A i \in 1 .. 8 : order[i] \in All
    OBVIOUS
  <2> HIDE DEF All
  <2>5. Objects \subseteq All
    BY <2>1, <2>4 DEF Objects, Device!OfDevice, Device!Pools
  <2> QED BY <2>3, <2>5 DEF Device!Parent, Device!OfHandlers, Objects,
             Device!OfDevice, Device!Pools
<1> HIDE DEF All
<1> DEFINE Shape ==
      /\ Device!Own \subseteq handles
      /\ Device!Own \subseteq Objects
      /\ \A o \in Device!Own \ {"instance"} : Device!Parent(o) \in Device!Own
<1>1. Shape
  BY <1>0 DEF ObjectsInv, All
<1>2. CASE Device!Fail
  BY <1>2 DEF Device!Fail, ObjectsInv, Device!Pools, Optional,
              Device!Own
<1>3. CASE Device!CreateInstance
  <2>1. PICK messenger \in SUBSET {"debug_messenger"} :
           /\ handles' = handles \cup ({"instance"} \cup messenger)
           /\ Device!Own' = Device!Own \cup ({"instance"} \cup messenger)
           /\ phase' = "select_physical_device"
    BY <1>3 DEF Device!CreateInstance, Device!Made, Device!Own, Device!OfHandlers
  <2>2. Device!Own = {}
    BY <1>3 DEF Device!CreateInstance, ObjectsInv
  <2>3. /\ Device!Own' \subseteq handles' /\ Device!Own' \subseteq Objects
        /\ "instance" \in Device!Own' /\ "device" \notin Device!Own'
        /\ \A o \in Device!Own' \ {"instance"} : o \notin Device!OfDevice
    BY <2>1, <2>2 DEF Objects, Device!OfDevice, Device!Pools
  <2> QED BY <1>0, <2>1, <2>3 DEF ObjectsInv, All, Device!Pools, Optional
<1>4. CASE Device!SelectPhysicalDevice
  BY <1>4 DEF Device!SelectPhysicalDevice, ObjectsInv, Device!Pools, Optional,
              Device!Own
<1>5. CASE Device!FindQueueFamilies
  BY <1>5 DEF Device!FindQueueFamilies, ObjectsInv, Device!Pools, Optional,
              Device!Own
<1>6. CASE Device!CreateLogicalDevice
  <2>1. /\ handles' = handles \cup {"device"} /\ Device!Own' = Device!Own \cup {"device"}
        /\ phase' = "graphics_cmd_pool" /\ "instance" \in Device!Own
    BY <1>6 DEF Device!CreateLogicalDevice, Device!Made, ObjectsInv,
                Device!Own, Device!OfHandlers
  <2>2. Device!Own' \subseteq handles' /\ Device!Own' \subseteq Objects
    BY <1>1, <2>1 DEF Objects
  <2>3. \A o \in Device!Own' \ {"instance"} : Device!Parent(o) \in Device!Own'
    BY <1>0, <2>1, <2>2
  <2> QED BY <1>0, <2>1, <2>2, <2>3 DEF ObjectsInv, All, Device!Pools, Optional
<1>7. CASE Device!CreateCommandPool
  <2>1. /\ phase \in Device!Pools
        /\ handles' = handles \cup {phase} /\ Device!Own' = Device!Own \cup {phase}
        /\ phase' \in Device!Pools \cup Optional
        /\ {"instance", "device"} \subseteq Device!Own
    BY <1>7 DEF Device!CreateCommandPool, Device!Made, ObjectsInv,
                Device!Pools, Optional, Device!Own, Device!OfHandlers
  <2>2. Device!Own' \subseteq handles' /\ Device!Own' \subseteq Objects
    BY <1>1, <2>1 DEF Objects, Device!OfDevice
  <2>3. \A o \in Device!Own' \ {"instance"} : Device!Parent(o) \in Device!Own'
    BY <1>0, <2>1, <2>2
  <2> QED BY <1>0, <2>1, <2>2, <2>3 DEF ObjectsInv, All, Device!Pools, Optional
<1>8. CASE Device!CreateOptional
  <2>1. PICK object \in SUBSET {phase} :
           /\ handles' = handles \cup object /\ Device!Own' = Device!Own \cup object
           /\ phase' \in {"descriptor_pool", "running"}
    BY <1>8 DEF Device!CreateOptional, Device!Made, Device!Own, Device!OfHandlers
  <2>2. phase \in Optional /\ {"instance", "device"} \subseteq Device!Own
    BY <1>8 DEF Device!CreateOptional, ObjectsInv, Optional
  <2>3. Device!Own' \subseteq handles' /\ Device!Own' \subseteq Objects
    BY <1>1, <2>1, <2>2 DEF Objects, Device!OfDevice, Optional
  <2>4. \A o \in Device!Own' \ {"instance"} : Device!Parent(o) \in Device!Own'
    BY <1>0, <2>1, <2>2, <2>3
  <2> QED BY <1>0, <2>1, <2>2, <2>3, <2>4
          DEF ObjectsInv, All, Device!Pools, Optional
<1>9. CASE Device!LeaveLoop
  <2>1. /\ handles' = handles /\ Device!Own' = Device!Own /\ phase' = "destroying"
        /\ toDestroy' = order
    BY <1>9 DEF Device!LeaveLoop, Device!Own
  <2>2. order = SubSeq(order, 0 + 1, 8) /\ 0 \in 0 .. 8
    BY OrderFacts, SubSeqFull
  <2>3. Device!Own' \subseteq {order[i] : i \in 0 + 1 .. 8}
    BY <2>1 DEF ObjectsInv
  <2> HIDE DEF order
  <2>4. \E k \in 0 .. 8 : /\ toDestroy' = SubSeq(order, k + 1, 8)
                          /\ Device!Own' \subseteq {order[i] : i \in k + 1 .. 8}
    BY <2>1, <2>2, <2>3
  <2> QED BY <1>1, <2>1, <2>4
          DEF ObjectsInv, All, Device!Pools, Optional, order
<1>10. CASE Device!DestroyNext
  <2>1. PICK k \in 0 .. 8 : /\ toDestroy = SubSeq(order, k + 1, 8)
                            /\ Device!Own \subseteq {order[i] : i \in k + 1 .. 8}
    BY <1>10 DEF Device!DestroyNext, ObjectsInv
  <2>2. /\ handles' = handles /\ phase' = "destroying" /\ phase = phase'
        /\ Device!Own' = Device!Own \ (handles \cap {Head(toDestroy)})
        /\ toDestroy' = Tail(toDestroy) /\ toDestroy # <<>>
    BY <1>10 DEF Device!DestroyNext, Device!Own
  <2>3. k # 8
    BY <2>1, <2>2, SubSeqEmpty
  <2> DEFINE n == k + 1
  <2>4. /\ n \in 1 .. 8
        /\ Head(toDestroy) = order[n]
        /\ Tail(toDestroy) = SubSeq(order, n + 1, 8)
    BY <2>1, <2>3, OrderFacts, HeadTailOfSubSeq
  <2> HIDE DEF order, n
  <2>5. Device!Own' = Device!Own \ {order[n]}
    BY <1>1, <2>2, <2>4
  <2>6. Device!Own' \subseteq {order[i] : i \in n + 1 .. 8}
    <3> SUFFICES ASSUME NEW o \in Device!Own' PROVE o \in {order[i] : i \in n + 1 .. 8}
      OBVIOUS
    <3>1. PICK i \in k + 1 .. 8 : o = order[i]
      BY <2>1, <2>5
    <3>2. i # n
      BY <2>5, <3>1
    <3>3. i \in n + 1 .. 8
      BY <2>4, <3>1, <3>2 DEF n
    <3> QED BY <3>1, <3>3
  <2>7. \A o \in Device!Own' \ {"instance"} : Device!Parent(o) \in Device!Own'
    <3> SUFFICES ASSUME NEW o \in Device!Own' \ {"instance"}
                 PROVE  Device!Parent(o) \in Device!Own'
      OBVIOUS
    <3>1. PICK i \in n + 1 .. 8 : o = order[i]
      BY <2>6
    <3>2. i \in 1 .. 8 /\ n < i
      BY <2>4, <3>1
    <3>3. Device!Parent(o) # order[n]
      BY <2>4, <3>1, <3>2, OrderFacts DEF order
    <3>4. Device!Parent(o) \in Device!Own
      BY <2>5 DEF ObjectsInv
    <3> QED BY <2>5, <3>3, <3>4
  <2>8. \E i \in 0 .. 8 : /\ toDestroy' = SubSeq(order, i + 1, 8)
                          /\ Device!Own' \subseteq {order[j] : j \in i + 1 .. 8}
    <3>1. n \in 0 .. 8
      BY <2>4
    <3>2. toDestroy' = SubSeq(order, n + 1, 8)
      BY <2>2, <2>4
    <3> QED BY <2>6, <3>1, <3>2
  <2>9. Device!Own' \subseteq handles' /\ Device!Own' \subseteq All
    BY <1>0, <1>1, <2>2, <2>5
  <2> QED BY <2>2, <2>7, <2>8, <2>9
          DEF ObjectsInv, All, Device!Pools, Optional, order
<1>11. CASE Device!ClearState
  <2>1. /\ Device!Own' = Device!Own /\ phase' = "ended" /\ handles' = {}
        /\ phase = "destroying" /\ toDestroy = <<>>
    BY <1>11 DEF Device!ClearState, Device!Own
  <2>2. PICK k \in 0 .. 8 : /\ toDestroy = SubSeq(order, k + 1, 8)
                            /\ Device!Own \subseteq {order[i] : i \in k + 1 .. 8}
    BY <2>1 DEF ObjectsInv
  <2>3. k = 8
    <3>1. \A i \in k + 1 .. 8 : order[i] \in Objects
      <4>1. k + 1 .. 8 \subseteq 1 .. 8
        OBVIOUS
      <4>2. \A i \in 1 .. 8 : order[i] \in Objects
        BY <1>0 DEF All
      <4> HIDE DEF order
      <4> QED BY <4>1, <4>2
    <3>2. Len(SubSeq(order, k + 1, 8)) = IF k + 1 <= 8 THEN 8 - (k + 1) + 1 ELSE 0
      BY <3>1, SubSeqProperties
    <3>3. Len(<<>>) = 0
      OBVIOUS
    <3> QED BY <2>1, <2>2, <3>2, <3>3
  <2>4. Device!Own = {}
    BY <2>2, <2>3
  <2> QED BY <2>1, <2>4 DEF ObjectsInv, Device!Pools, Optional
<1>12. CASE HandlerStep \/ UNCHANGED hostVars
  <2>1. UNCHANGED <<Device!Own, handles, phase, toDestroy>>
    <3>1. CASE HandlerStep
      <4>1. PICK made \in {{}, ObjectsFor(asked')} : live' = live \cup made
        BY <3>1 DEF HandlerStep
      <4>2. made \subseteq Device!OfHandlers
        BY <4>1 DEF ObjectsFor, Device!OfHandlers
      <4>3. UNCHANGED <<handles, phase, toDestroy>>
        BY <3>1 DEF HandlerStep
      <4> QED BY <4>1, <4>2, <4>3 DEF Device!Own
    <3>2. CASE UNCHANGED hostVars
      BY <3>2 DEF hostVars, Device!Own
    <3> QED BY <1>12, <3>1, <3>2
  <2> QED BY <2>1 DEF ObjectsInv
<1> QED BY <1>2, <1>3, <1>4, <1>5, <1>6, <1>7, <1>8, <1>9, <1>10, <1>11, <1>12
        DEF HostNext, DeviceStep, Device!Next

\* The device keeps the queues it was made with, until there is none.
LEMMA QueuesStep ==
    SetUpInv /\ ObjectsInv /\ ObjectsInv' /\ QueuesLegal /\ [HostNext]_hostVars
        => QueuesLegal'
<1> SUFFICES ASSUME SetUpInv, ObjectsInv, ObjectsInv', QueuesLegal,
                    [HostNext]_hostVars
             PROVE  QueuesLegal'
  OBVIOUS
<1> USE DEF QueuesLegal, Device!QueuesLegal
<1>1. CASE UNCHANGED <<host, physical_device, queue_families, requested>>
             /\ ("device" \in live' => "device" \in live)
  BY <1>1
<1>2. CASE "device" \notin live'
  BY <1>2
<1>0. /\ "device" \in live <=> "device" \in Device!Own
      /\ ("device" \in live <=> "device" \in Device!Own)'
  BY DEF Device!Own, Device!OfHandlers
<1>3. CASE Device!CreateLogicalDevice
  <2>1. /\ UNCHANGED <<host, physical_device, queue_families>>
        /\ requested' = Device!UniqueFamilies(queue_families)
    BY <1>3 DEF Device!CreateLogicalDevice
  <2>2. FamiliesFit /\ queue_families \in [Device!Uses -> Nat]
    BY <1>3 DEF Device!CreateLogicalDevice, SetUpInv
  <2>3. /\ QueuesWanted = {requested'[i] : i \in DOMAIN requested'}
        /\ \A i, j \in DOMAIN requested' :
              requested'[i] = requested'[j] => i = j
    BY <2>1, <2>2, UniqueExact DEF QueuesWanted
  <2> QED BY <2>1, <2>2, <2>3 DEF FamiliesFit, QueuesWanted
<1>4. CASE Device!Fail
  BY <1>1, <1>4 DEF Device!Fail
<1>5. CASE Device!CreateInstance
  BY <1>1, <1>2, <1>5 DEF Device!CreateInstance, Device!Made, ObjectsInv
<1>6. CASE Device!SelectPhysicalDevice
  BY <1>0, <1>2, <1>6 DEF Device!SelectPhysicalDevice, ObjectsInv
<1>7. CASE Device!FindQueueFamilies
  BY <1>0, <1>2, <1>7 DEF Device!FindQueueFamilies, ObjectsInv
<1>8. CASE Device!CreateCommandPool
  BY <1>1, <1>8 DEF Device!CreateCommandPool, Device!Made, ObjectsInv,
                    Device!Pools
<1>9. CASE Device!CreateOptional
  BY <1>1, <1>9 DEF Device!CreateOptional, Device!Made, Optional
<1>10. CASE Device!LeaveLoop
  BY <1>1, <1>10 DEF Device!LeaveLoop
<1>11. CASE Device!DestroyNext
  BY <1>1, <1>11 DEF Device!DestroyNext
<1>12. CASE Device!ClearState
  BY <1>0, <1>2, <1>12 DEF Device!ClearState, ObjectsInv
<1>13. CASE HandlerStep \/ UNCHANGED hostVars
  <2>1. "device" \in live' => "device" \in live
    BY <1>13 DEF HandlerStep, hostVars, ObjectsFor
  <2>2. UNCHANGED <<host, physical_device, queue_families, requested>>
    BY <1>13 DEF HandlerStep, hostVars
  <2> QED BY <1>1, <2>1, <2>2
<1> QED BY <1>3, <1>4, <1>5, <1>6, <1>7, <1>8, <1>9, <1>10, <1>11, <1>12, <1>13
        DEF HostNext, DeviceStep, Device!Next

-----------------------------------------------------------------------------
(* The handlers, on the device that was set up.                            *)

\* A command is translated in the loop, for the memory types of the device.
LEMMA LoopStep ==
    /\ SetUpInv /\ LoopInv /\ TextureAsked /\ (asked # Nothing => MemoryInv)
    /\ [HostNext]_hostVars
    => LoopInv' /\ TextureAsked' /\ (asked # Nothing => MemoryInv)'
<1> SUFFICES ASSUME SetUpInv, LoopInv, TextureAsked,
                    asked # Nothing => MemoryInv, [HostNext]_hostVars
             PROVE  LoopInv' /\ TextureAsked' /\ (asked # Nothing => MemoryInv)'
  OBVIOUS
<1>1. CASE DeviceStep
  BY <1>1 DEF DeviceStep, LoopInv, TextureAsked, Nothing
<1>2. CASE HandlerStep
  <2>1. Next /\ phase = "running" /\ phase' = phase
    BY <1>2 DEF HandlerStep
  <2>2. memory_types \in Devices
    BY <2>1, HostFacts DEF SetUpInv, AfterSelection, AfterDevice
  <2>3. MemoryInv
    BY <2>2 DEF MemoryInv, MemoryChosen, Nothing
  <2>4. MemoryInv' /\ TextureAsked'
    BY <2>1, <2>3, MemoryStep, AskedStep
  <2> QED BY <2>1, <2>4 DEF LoopInv
<1>3. CASE UNCHANGED hostVars
  <2>1. UNCHANGED <<memory_types, asked, phase>>
    BY <1>3 DEF hostVars
  <2> QED BY <2>1 DEF LoopInv, TextureAsked, MemoryInv, MemoryChosen
<1> QED BY <1>1, <1>2, <1>3 DEF HostNext

\* The whole holds from the start, through every failure of the set-up, in
\* the command loop and after it.
THEOREM HostInvHolds == HostSpec => []HostInv
<1>1. HostInit => HostInv
  <2> SUFFICES ASSUME HostInit PROVE HostInv
    OBVIOUS
  <2> USE DEF HostInit, Device!Init
  <2>1. SetUpInv
    BY DEF SetUpInv, AfterSelection, AfterDevice, Device!Pools, Optional
  <2>2. ObjectsInv
    BY DEF ObjectsInv, Device!Own, Device!Pools, Optional
  <2>3. /\ LoopInv /\ QueuesLegal /\ TextureAsked
        /\ asked # Nothing => MemoryInv
    BY DEF LoopInv, QueuesLegal, Device!QueuesLegal, TextureAsked, Nothing
  <2> QED BY <2>1, <2>2, <2>3 DEF HostInv
<1>2. HostInv /\ [HostNext]_hostVars => HostInv'
  <2> SUFFICES ASSUME HostInv, [HostNext]_hostVars PROVE HostInv'
    OBVIOUS
  <2>1. SetUpInv' /\ ObjectsInv'
    BY SetUpStep, ObjectsStep DEF HostInv
  <2>2. QueuesLegal'
    BY <2>1, QueuesStep DEF HostInv
  <2>3. LoopInv' /\ TextureAsked' /\ (asked # Nothing => MemoryInv)'
    BY LoopStep DEF HostInv
  <2> QED BY <2>1, <2>2, <2>3 DEF HostInv
<1> QED BY <1>1, <1>2, PTL DEF HostSpec

-----------------------------------------------------------------------------
(* What follows.                                                           *)

\* The logical device is made with the families of the three uses, each
\* once, and each can do what it is used for.
THEOREM QueuesCorrect == HostSpec => []QueuesLegal
<1>1. HostInv => QueuesLegal
  BY DEF HostInv
<1> QED BY <1>1, HostInvHolds, PTL

\* Of what gravity_vk_init made no object outlives the one it is made from, and
\* after a run nothing of it is left.
THEOREM DestroyCorrect == HostSpec => []SetUpTakenDown
<1>1. HostInv => SetUpTakenDown
  BY DEF HostInv, ObjectsInv, SetUpTakenDown, Device!SetUpTakenDown, Device!Own
<1> QED BY <1>1, HostInvHolds, PTL

\* In the whole system too, a resource's memory type suits it.
THEOREM HostMemoryCorrect == HostSpec => []MemoryChosen
<1>1. HostInv => MemoryChosen
  BY DEF HostInv, MemoryInv, MemoryChosen, Nothing
<1> QED BY <1>1, HostInvHolds, PTL

\* In the whole system too, images, views and usages are legal.
THEOREM HostTexturesCorrect ==
    HostSpec => [](UsageFitsAspect /\ ViewFitsImage /\ ImageLegal)
<1>1. HostInv => UsageFitsAspect /\ ViewFitsImage /\ ImageLegal
  BY UsageOfAsked, ViewOfAsked, ImageOfAsked DEF HostInv
<1> QED BY <1>1, HostInvHolds, PTL
=============================================================================
