--------------------------- MODULE Session_proofs ---------------------------
(***************************************************************************)
(* Proofs about Session, for rings of any sizes and any numbers of boots,  *)
(* starts, messages and polls.                                             *)
(*                                                                         *)
(* Every party may write at any time, also to rings that another is just   *)
(* initialising, so TypeInv holds of the rings whether the header is ready *)
(* or not.  QEMU and the daemon may give the region different memory; the  *)
(* sizes of the two rings do not depend on it.  DeliveryInv is about       *)
(* sessions that nothing has disturbed: it says what is in the rings       *)
(* between the two stores of an initialisation and what the daemon holds   *)
(* inside a command.                                                       *)
(***************************************************************************)
EXTENDS Session, ModArith, SequenceTheorems

CmdSize == RoundUp(RingSlots)
CompSize == RoundUp(CompSlots)

\* What a header says once somebody has filled it.
Known == {Sizes(RingSlots, QemuMem), Sizes(RingSlots, DaemonMem)}

(* Types.                                                                  *)

Numbers == 0 .. MaxSent

\* Nobody has cleared the region yet.
Untouched ==
    /\ hdr.ready = FALSE
    /\ cmd_head = 0 /\ cmd_tail = 0 /\ comp_head = 0 /\ comp_tail = 0
    /\ qstate \in {"off", "mapped"} /\ dstate \in {"off", "mapped"}
    /\ kstate = "off" /\ saved = NotSaved

RingsTyped ==
    /\ cmd_ring \in [0 .. CmdSize - 1 -> Message]
    /\ cmd_head \in 0 .. CmdSize - 1 /\ cmd_tail \in 0 .. CmdSize - 1
    /\ comp_ring \in [0 .. CompSize - 1 -> Numbers]
    /\ comp_head \in 0 .. CompSize - 1 /\ comp_tail \in 0 .. CompSize - 1

\* A kext, running or saved: it polls and serves with sizes it knows.
Kexts ==
    [kstate : {"off", "attach", "sizes", "hello", "poll", "ready", "stopped"},
     kring : Known \cup {NoSizes}, polls : 0 .. MaxPolls,
     hello : Numbers, answer : Numbers,
     guest_status : {"none", "INIT", "READY", "ERROR"}]

SizesKnown(k) == k.kstate \in {"poll", "ready"} => k.kring \in Known

Kext0 == [kstate |-> kstate, kring |-> kring, polls |-> polls,
          hello |-> hello, answer |-> answer, guest_status |-> guest_status]

RegionInv ==
    /\ shm_size \in {0, QemuMem, DaemonMem}
    /\ hdr \in [ready : BOOLEAN, sizes : Known \cup {NoSizes}]
    /\ hdr.ready => hdr.sizes \in Known
    /\ Untouched \/ RingsTyped

QemuInv ==
    /\ qstate \in {"off", "mapped", "cleared", "load", "on"}
    /\ qstate = "on" => saved = NotSaved
    /\ qstate = "load" => saved # NotSaved
    /\ boots \in 0 .. MaxBoots

KextInv ==
    /\ Kext0 \in Kexts /\ SizesKnown(Kext0)
    /\ saved # NotSaved => saved \in Kexts /\ SizesKnown(saved)
    /\ qstate # "on" => kstate = "off"

DaemonInv ==
    /\ dstate \in {"off", "mapped", "cleared", "attach", "sizes", "vulkan",
                   "poll", "process", "consume"}
    /\ dstate \in {"process", "consume"} => dring \in Known
    /\ dstate \in {"vulkan", "poll"} =>
           \/ dring \in Known
           \/ dring = NoSizes /\ "blind" \in disturbed
    /\ held \in Message
    /\ dstate \in {"process", "consume"} => held # Zero
    /\ starts \in 0 .. MaxStarts

HistoryInv ==
    /\ sent \in Numbers
    /\ submitted \in Seq(1 .. MaxSent) /\ handled \in Seq(1 .. MaxSent)
    /\ replied \in Seq(1 .. MaxSent) /\ received \in Seq(1 .. MaxSent)
    /\ disturbed \subseteq {"busy", "late", "blind", "reload"}

\* What is in the completion ring, whatever the header says; each is one.
Completions == InRing(comp_ring, comp_head, comp_tail, CompSize)

CompletionsInv == RingsTyped => Completions \in Seq(1 .. MaxSent)

TypeInv == /\ RegionInv /\ QemuInv /\ KextInv /\ DaemonInv /\ HistoryInv
           /\ CompletionsInv

(* Delivery.                                                               *)

Calm == disturbed \cap {"late", "busy", "blind"} = {}

\* What is in the command ring, whatever the header says.
CmdNumbers == [i \in 0 .. CmdSize - 1 |-> cmd_ring[i].n]
Commands == InRing(CmdNumbers, cmd_head, cmd_tail, CmdSize)

CommandsInv == submitted = handled \o Commands
RepliesInv == replied = received \o Completions

\* What the daemon is about to consume is still there.
HeldInv ==
    dstate \in {"process", "consume"} =>
        /\ Avail(cmd_head, cmd_tail, CmdSize) >= 1
        /\ held = cmd_ring[cmd_head]

\* Between QEMU's two stores nothing is under way.
FreshInv ==
    qstate = "cleared" =>
        /\ cmd_head = cmd_tail /\ comp_head = comp_tail
        /\ submitted = <<>> /\ handled = <<>>
        /\ replied = <<>> /\ received = <<>>
        /\ dstate \notin {"process", "consume"}

\* Only what was submitted is replied to.
RepliedInv ==
    \A i \in DOMAIN replied : \E j \in DOMAIN submitted :
        replied[i] = submitted[j]

DeliveryInv ==
    Calm => /\ CommandsInv /\ RepliesInv /\ HeldInv /\ FreshInv
            /\ RepliedInv

IInv == TypeInv /\ DeliveryInv

(* Order, of disturbed sessions too.  A number is that of a command, or zero *)
(* for a slot that has been wiped.                                           *)

Rising(s) == \A i, j \in DOMAIN s : i < j /\ s[j] # 0 => s[i] < s[j]

\* The sequence a rises, and so does b after it.
InLine(a, b) ==
    /\ Rising(a) /\ Rising(b)
    /\ \A i \in DOMAIN a, j \in DOMAIN b : b[j] # 0 => a[i] < b[j]

UpTo(s, n) == \A i \in DOMAIN s : s[i] <= n

WipedFrom(k) == \A i \in k .. CmdSize - 1 : cmd_ring[i] = Zero

\* The command in hand is still at the head ...
Kept == Avail(cmd_head, cmd_tail, CmdSize) >= 1 /\ held = cmd_ring[cmd_head]

\* ... or a reset has wiped it, and nothing has come round the ring since.
Swept ==
    /\ cmd_head = 0 /\ WipedFrom(cmd_tail)
    /\ InLine(Append(handled, held.n), Commands)

WaitingInv ==
    /\ InLine(handled, Commands) /\ UpTo(Commands, sent)
    /\ dstate \in {"process", "consume"} => held.n <= sent /\ (Kept \/ Swept)
    /\ qstate = "cleared" => WipedFrom(0)

OrderInv ==
    /\ Rising(handled) /\ UpTo(handled, sent)
    /\ RingsTyped => WaitingInv

\* The replies read and waiting come after each other and before all commands
\* that wait; with a command in hand, none is a reply to a later one.
RepliesUpTo(n) == UpTo(received, n) /\ UpTo(Completions, n)

AnsweringInv ==
    /\ InLine(received, Completions) /\ UpTo(Completions, sent)
    /\ dstate = "process" => RepliesUpTo(held.n - 1)
    /\ dstate = "consume" => RepliesUpTo(held.n)
    /\ dstate \notin {"process", "consume"} =>
           InLine(received, Commands) /\ InLine(Completions, Commands)

ReplyOrderInv ==
    /\ Rising(received) /\ UpTo(received, sent)
    /\ RingsTyped => AnsweringInv

(* Membership, of disturbed sessions too, unless a reset strikes inside a    *)
(* command.                                                                *)

Sent(x) == \E j \in DOMAIN submitted : submitted[j] = x

AllSent(s) == \A i \in DOMAIN s : s[i] # 0 => Sent(s[i])

\* No command is in hand while QEMU is between its two stores.
QuietInv == qstate = "cleared" => dstate \notin {"process", "consume"}

\* ... and none is waiting.
QuietRingInv == qstate = "cleared" => cmd_head = cmd_tail

MembersInv ==
    /\ AllSent(handled) /\ AllSent(received)
    /\ RingsTyped => AllSent(Commands) /\ AllSent(Completions)

ThisBootInv ==
    "busy" \notin disturbed =>
        MembersInv /\ HeldInv /\ QuietInv /\ QuietRingInv

\* A kext that waits for the answer to its HELLO has sent nothing else in this
\* boot, and before it nothing at all.
HelloInv ==
    "reload" \notin disturbed =>
        /\ qstate \in {"cleared", "load"} => submitted = <<>>
        /\ qstate = "on" /\ kstate \in {"off", "attach", "sizes", "hello"} =>
              submitted = <<>>
        /\ qstate = "on" /\ kstate = "poll" =>
              \A j \in DOMAIN submitted : submitted[j] = hello

-----------------------------------------------------------------------------
(* Rings: a window of a ring from head to tail.                            *)

\* A position at most once round the ring is brought back by one subtraction.
LEMMA MaskOnce ==
    ASSUME NEW N \in Nat \ {0}, NEW x \in Int
    PROVE  /\ x \in 0 .. N - 1 => Mask(x, N) = x
           /\ x \in N .. 2 * N - 1 => Mask(x, N) = x - N
           /\ x \in -N .. -1 => Mask(x, N) = x + N
           /\ Mask(x, N) \in 0 .. N - 1
<1>1. ASSUME x \in 0 .. N - 1 PROVE (x % N) = x
  <2>1. x = N * 0 + x
    OBVIOUS
  <2> QED BY <1>1, <2>1, ModUnique
<1>2. ASSUME x \in N .. 2 * N - 1 PROVE (x % N) = x - N
  <2>1. x = N * 1 + (x - N) /\ x - N \in 0 .. N - 1
    BY <1>2
  <2> QED BY <2>1, ModUnique
<1>3. ASSUME x \in -N .. -1 PROVE (x % N) = x + N
  <2>1. x = N * (-1) + (x + N) /\ x + N \in 0 .. N - 1
    BY <1>3
  <2>2. -1 \in Int
    OBVIOUS
  <2> QED BY <2>1, <2>2, ModUnique
<1>4. (x % N) \in 0 .. N - 1
  BY ModRange
<1> QED BY <1>1, <1>2, <1>3, <1>4 DEF Mask

\* The number of elements of a window.
LEMMA AvailIs ==
    ASSUME NEW N \in Nat \ {0}, NEW h \in 0 .. N - 1, NEW t \in 0 .. N - 1
    PROVE  /\ Avail(h, t, N) = IF h <= t THEN t - h ELSE t - h + N
           /\ Avail(h, t, N) \in 0 .. N - 1
<1>1. t - h \in Int
  OBVIOUS
<1>2. CASE h <= t
  <2>1. t - h \in 0 .. N - 1
    BY <1>2
  <2> QED BY <1>1, <1>2, <2>1, MaskOnce DEF Avail
<1>3. CASE ~ (h <= t)
  <2>1. t - h \in -N .. -1 /\ t - h + N \in 0 .. N - 1
    BY <1>3
  <2> QED BY <1>1, <1>3, <2>1, MaskOnce DEF Avail
<1> QED BY <1>2, <1>3

\* The slot of an element of a window.
LEMMA SlotIs ==
    ASSUME NEW N \in Nat \ {0}, NEW h \in 0 .. N - 1, NEW i \in 1 .. N
    PROVE  /\ Mask(h + i - 1, N) = IF h + i - 1 < N THEN h + i - 1
                                                    ELSE h + i - 1 - N
           /\ Mask(h + i - 1, N) \in 0 .. N - 1
<1>1. h + i - 1 \in Int /\ h + i - 1 \in 0 .. 2 * N - 1
  OBVIOUS
<1> DEFINE x == h + i - 1
<1>2. CASE x < N
  <2>1. x \in 0 .. N - 1
    BY <1>1, <1>2
  <2> QED BY <1>1, <1>2, <2>1, MaskOnce
<1>3. CASE ~ (x < N)
  <2>1. x \in N .. 2 * N - 1
    BY <1>1, <1>3
  <2> QED BY <1>1, <1>3, <2>1, MaskOnce
<1> QED BY <1>2, <1>3

\* The next slot.
LEMMA NextIs ==
    ASSUME NEW N \in Nat \ {0}, NEW h \in 0 .. N - 1
    PROVE  /\ Mask(h + 1, N) = IF h + 1 < N THEN h + 1 ELSE 0
           /\ Mask(h + 1, N) \in 0 .. N - 1
<1>1. h + 1 \in Int
  OBVIOUS
<1>2. CASE h + 1 < N
  <2>1. h + 1 \in 0 .. N - 1
    BY <1>2
  <2> QED BY <1>1, <1>2, <2>1, MaskOnce
<1>3. CASE ~ (h + 1 < N)
  <2>1. h + 1 \in N .. 2 * N - 1 /\ h + 1 = N
    BY <1>3
  <2> QED BY <1>1, <1>3, <2>1, MaskOnce
<1> QED BY <1>2, <1>3

\* A ring of N slots with elements of S, and its positions.
Ring(S, N, ring, h, t) ==
    /\ N \in Nat \ {0}
    /\ ring \in [0 .. N - 1 -> S]
    /\ h \in 0 .. N - 1 /\ t \in 0 .. N - 1

\* A window is a sequence of what the ring holds.
LEMMA WindowIs ==
    ASSUME NEW S, NEW N, NEW ring, NEW h, NEW t, Ring(S, N, ring, h, t)
    PROVE  /\ InRing(ring, h, t, N) \in Seq(S)
           /\ Len(InRing(ring, h, t, N)) = Avail(h, t, N)
           /\ Avail(h, t, N) \in 0 .. N - 1
           /\ \A i \in 1 .. Avail(h, t, N) :
                 /\ InRing(ring, h, t, N)[i] = ring[Mask(h + i - 1, N)]
                 /\ Mask(h + i - 1, N) \in 0 .. N - 1
<1> DEFINE n == Avail(h, t, N)
<1>0. /\ N \in Nat \ {0} /\ ring \in [0 .. N - 1 -> S]
      /\ h \in 0 .. N - 1 /\ t \in 0 .. N - 1
  BY DEF Ring
<1>1. n \in 0 .. N - 1
  BY <1>0, AvailIs
<1> HIDE DEF n
<1>2. \A i \in 1 .. n : Mask(h + i - 1, N) \in 0 .. N - 1
  <2>1. \A i \in 1 .. n : i \in 1 .. N
    BY <1>0, <1>1
  <2> QED BY <1>0, <2>1, SlotIs
<1>3. InRing(ring, h, t, N) = [i \in 1 .. n |-> ring[Mask(h + i - 1, N)]]
  BY <1>0 DEF InRing, n
<1>4. \A i \in 1 .. n : ring[Mask(h + i - 1, N)] \in S
  BY <1>0, <1>2
<1> DEFINE w == [i \in 1 .. n |-> ring[Mask(h + i - 1, N)]]
<1>5. w \in Seq(S) /\ Len(w) = n
  BY <1>0, <1>1, <1>4
<1> QED BY <1>0, <1>1, <1>2, <1>3, <1>5 DEF n

\* A window without elements.
LEMMA WindowEmpty ==
    ASSUME NEW N \in Nat \ {0}, NEW ring, NEW h \in 0 .. N - 1
    PROVE  /\ Avail(h, h, N) = 0
           /\ InRing(ring, h, h, N) = <<>>
<1>1. Avail(h, h, N) = 0
  BY AvailIs
<1>2. InRing(ring, h, h, N) = [i \in 1 .. 0 |-> ring[Mask(h + i - 1, N)]]
  BY <1>1 DEF InRing
<1> QED BY <1>1, <1>2

\* The ring new is the ring with x stored at t, and u is the position after t.
Stored(S, N, ring, t, x, new, u) ==
    /\ new \in [0 .. N - 1 -> S]
    /\ x \in S /\ new[t] = x
    /\ \A i \in 0 .. N - 1 : i # t => new[i] = ring[i]
    /\ u = Mask(t + 1, N)

\* A store at the tail of a ring with room, and the tail advanced.
LEMMA WindowGrows ==
    ASSUME NEW S, NEW N, NEW ring, NEW h, NEW t, NEW x, NEW new, NEW u,
           Ring(S, N, ring, h, t), HasRoom(h, t, N),
           Stored(S, N, ring, t, x, new, u)
    PROVE  /\ Avail(h, u, N) = Avail(h, t, N) + 1
           /\ InRing(new, h, u, N) = Append(InRing(ring, h, t, N), x)
           /\ Avail(h, t, N) >= 1 => new[h] = ring[h]
<1> DEFINE n == Avail(h, t, N)
           w == InRing(ring, h, t, N)
           v == InRing(new, h, u, N)
<1>0. /\ N \in Nat \ {0} /\ ring \in [0 .. N - 1 -> S]
      /\ h \in 0 .. N - 1 /\ t \in 0 .. N - 1
  BY DEF Ring
<1>1. /\ new \in [0 .. N - 1 -> S] /\ x \in S /\ new[t] = x
      /\ \A i \in 0 .. N - 1 : i # t => new[i] = ring[i]
      /\ u = Mask(t + 1, N)
  BY DEF Stored
<1>2. n = (IF h <= t THEN t - h ELSE t - h + N) /\ n \in 0 .. N - 1
  BY <1>0, AvailIs
<1>3. n + 1 <= N - 1
  BY <1>0, <1>2 DEF HasRoom
<1>4. u \in 0 .. N - 1 /\ u = IF t + 1 < N THEN t + 1 ELSE 0
  BY <1>0, <1>1, NextIs
<1>5. Avail(h, u, N) = IF h <= u THEN u - h ELSE u - h + N
  BY <1>0, <1>4, AvailIs
<1> HIDE DEF n
<1>6. Avail(h, u, N) = n + 1
  BY <1>0, <1>2, <1>3, <1>4, <1>5
<1>7. w \in Seq(S) /\ Len(w) = n /\ \A i \in 1 .. n : w[i] = ring[Mask(h + i - 1, N)]
  BY <1>0, WindowIs DEF n
<1>8. /\ v \in Seq(S) /\ Len(v) = n + 1
      /\ \A i \in 1 .. n + 1 : v[i] = new[Mask(h + i - 1, N)]
  <2>1. /\ v \in Seq(S) /\ Len(v) = Avail(h, u, N)
        /\ \A i \in 1 .. Avail(h, u, N) : v[i] = new[Mask(h + i - 1, N)]
    <3>1. /\ InRing(new, h, u, N) \in Seq(S)
          /\ Len(InRing(new, h, u, N)) = Avail(h, u, N)
          /\ Avail(h, u, N) \in 0 .. N - 1
          /\ \A i \in 1 .. Avail(h, u, N) :
                /\ InRing(new, h, u, N)[i] = new[Mask(h + i - 1, N)]
                /\ Mask(h + i - 1, N) \in 0 .. N - 1
      <4>1. Ring(S, N, new, h, u)
        BY <1>0, <1>1, <1>4 DEF Ring
      <4> HIDE DEF v
      <4> QED BY <4>1, WindowIs, Zenon
    <3>2. v = InRing(new, h, u, N)
      BY <1>0 DEF v
    <3> HIDE DEF v
    <3> QED BY <1>0, <3>1, <3>2
  <2> QED BY <1>0, <1>6, <2>1
<1>9. \A i \in 1 .. n : /\ Mask(h + i - 1, N) # t
                        /\ Mask(h + i - 1, N) \in 0 .. N - 1
  <2> SUFFICES ASSUME NEW i \in 1 .. n
               PROVE  Mask(h + i - 1, N) # t /\ Mask(h + i - 1, N) \in 0 .. N - 1
    BY <1>0
  <2>1. i \in 1 .. N
    BY <1>0, <1>2
  <2>2. /\ Mask(h + i - 1, N) = (IF h + i - 1 < N THEN h + i - 1
                                                  ELSE h + i - 1 - N)
        /\ Mask(h + i - 1, N) \in 0 .. N - 1
    BY <1>0, <2>1, SlotIs
  <2> QED BY <1>0, <1>2, <1>3, <2>2
<1>10. Mask(h + (n + 1) - 1, N) = t
  <2>1. n + 1 \in 1 .. N
    BY <1>0, <1>2, <1>3
  <2>2. Mask(h + (n + 1) - 1, N) = IF h + (n + 1) - 1 < N THEN h + (n + 1) - 1
                                                         ELSE h + (n + 1) - 1 - N
    BY <1>0, <2>1, SlotIs
  <2> QED BY <1>0, <1>2, <2>2
<1> DEFINE a == Append(w, x)
<1>11. /\ a \in Seq(S) /\ Len(a) = n + 1 /\ a[n + 1] = x
       /\ \A i \in 1 .. n : a[i] = w[i]
  <2> HIDE DEF w
  <2> QED BY <1>1, <1>7
<1> HIDE DEF v, w, a
<1>12. v[n + 1] = x
  <2>1. n + 1 \in 1 .. n + 1
    BY <1>0, <1>2
  <2>2. v[n + 1] = new[t]
    BY <1>0, <1>8, <1>10, <2>1
  <2> QED BY <1>1, <2>2
<1>13. ASSUME NEW i \in 1 .. n PROVE v[i] = w[i]
  <2>1. i \in 1 .. n + 1
    BY <1>2
  <2>2. v[i] = new[Mask(h + i - 1, N)]
    BY <1>8, <2>1
  <2>3. new[Mask(h + i - 1, N)] = ring[Mask(h + i - 1, N)]
    BY <1>1, <1>9
  <2>4. w[i] = ring[Mask(h + i - 1, N)]
    BY <1>7
  <2> QED BY <2>2, <2>3, <2>4
<1>14. ASSUME NEW i \in 1 .. n + 1 PROVE v[i] = a[i]
  <2>1. i \in 1 .. n \/ i = n + 1
    BY <1>2
  <2> QED BY <1>11, <1>12, <1>13, <2>1
<1>15. v = a
  BY <1>0, <1>8, <1>11, <1>14, SeqEqual
<1>16. n >= 1 => h # t
  BY <1>0, <1>2
<1> QED BY <1>0, <1>1, <1>4, <1>6, <1>15, <1>16 DEF v, w, a, n

\* A ring that is not empty.
Filled(S, N, ring, h, t) == Ring(S, N, ring, h, t) /\ Avail(h, t, N) >= 1

\* What is left of a ring when its head moves past the first element.
Shrunk(N, ring, h, t) ==
    /\ Mask(h + 1, N) \in 0 .. N - 1
    /\ InRing(ring, h, t, N)
         = <<ring[h]>> \o InRing(ring, Mask(h + 1, N), t, N)

\* The head of a ring that is not empty, advanced.
LEMMA WindowShrinks ==
    ASSUME NEW S, NEW N, NEW ring, NEW h, NEW t, Filled(S, N, ring, h, t)
    PROVE  Shrunk(N, ring, h, t)
<1> DEFINE g == Mask(h + 1, N)
           n == Avail(h, t, N)
           w == InRing(ring, h, t, N)
           v == InRing(ring, g, t, N)
<1>0. /\ N \in Nat \ {0} /\ ring \in [0 .. N - 1 -> S]
      /\ h \in 0 .. N - 1 /\ t \in 0 .. N - 1
  BY DEF Ring, Filled
<1>1. n = (IF h <= t THEN t - h ELSE t - h + N) /\ n \in 0 .. N - 1 /\ n >= 1
  BY <1>0, AvailIs DEF Filled
<1>2. g \in 0 .. N - 1 /\ g = IF h + 1 < N THEN h + 1 ELSE 0
  BY <1>0, NextIs
<1>3. Avail(g, t, N) = IF g <= t THEN t - g ELSE t - g + N
  BY <1>0, <1>2, AvailIs
<1> HIDE DEF g, n
<1>4. Avail(g, t, N) = n - 1
  BY <1>0, <1>1, <1>2, <1>3
<1>5. w \in Seq(S) /\ Len(w) = n /\ \A i \in 1 .. n : w[i] = ring[Mask(h + i - 1, N)]
  <2>1. /\ InRing(ring, h, t, N) \in Seq(S)
        /\ Len(InRing(ring, h, t, N)) = Avail(h, t, N)
        /\ Avail(h, t, N) \in 0 .. N - 1
        /\ \A i \in 1 .. Avail(h, t, N) :
              /\ InRing(ring, h, t, N)[i] = ring[Mask(h + i - 1, N)]
              /\ Mask(h + i - 1, N) \in 0 .. N - 1
    <3>1. Ring(S, N, ring, h, t)
      BY DEF Filled
    <3> HIDE DEF w
    <3> QED BY <3>1, WindowIs, Zenon
  <2>2. w = InRing(ring, h, t, N)
    BY <1>0 DEF w
  <2> HIDE DEF w
  <2> QED BY <1>0, <2>1, <2>2 DEF n
<1>6. /\ v \in Seq(S) /\ Len(v) = n - 1
      /\ \A i \in 1 .. n - 1 : v[i] = ring[Mask(g + i - 1, N)]
  <2>1. /\ InRing(ring, g, t, N) \in Seq(S)
        /\ Len(InRing(ring, g, t, N)) = Avail(g, t, N)
        /\ Avail(g, t, N) \in 0 .. N - 1
        /\ \A i \in 1 .. Avail(g, t, N) :
              /\ InRing(ring, g, t, N)[i] = ring[Mask(g + i - 1, N)]
              /\ Mask(g + i - 1, N) \in 0 .. N - 1
    <3>1. Ring(S, N, ring, g, t)
      BY <1>0, <1>2 DEF Ring
    <3> HIDE DEF v, w
    <3> QED BY <3>1, WindowIs, Zenon
  <2>2. v = InRing(ring, g, t, N)
    BY <1>0 DEF v
  <2> HIDE DEF v
  <2> QED BY <1>0, <1>4, <2>1, <2>2
<1>7. \A i \in 1 .. n - 1 : Mask(g + i - 1, N) = Mask(h + (i + 1) - 1, N)
  <2> SUFFICES ASSUME NEW i \in 1 .. n - 1
               PROVE  Mask(g + i - 1, N) = Mask(h + (i + 1) - 1, N)
    BY <1>0
  <2>1. i \in 1 .. N /\ i + 1 \in 1 .. N
    BY <1>0, <1>1
  <2>2. Mask(g + i - 1, N) = IF g + i - 1 < N THEN g + i - 1 ELSE g + i - 1 - N
    BY <1>0, <1>2, <2>1, SlotIs
  <2>3. Mask(h + (i + 1) - 1, N) = IF h + (i + 1) - 1 < N THEN h + (i + 1) - 1
                                                         ELSE h + (i + 1) - 1 - N
    BY <1>0, <2>1, SlotIs
  <2> QED BY <1>0, <1>1, <1>2, <2>2, <2>3
<1>8. Mask(h + 1 - 1, N) = h
  <2>1. 1 \in 1 .. N
    BY <1>0, <1>1
  <2>2. Mask(h + 1 - 1, N) = IF h + 1 - 1 < N THEN h + 1 - 1 ELSE h + 1 - 1 - N
    BY <1>0, <2>1, SlotIs
  <2> QED BY <1>0, <2>2
<1>9. ring[h] \in S
  BY <1>0
<1> DEFINE a == <<ring[h]>> \o v
<1>10. /\ a \in Seq(S) /\ Len(a) = n /\ a[1] = ring[h]
       /\ \A i \in 1 .. n - 1 : a[i + 1] = v[i]
  <2>1. <<ring[h]>> \in Seq(S) /\ Len(<<ring[h]>>) = 1 /\ <<ring[h]>>[1] = ring[h]
    BY <1>0, <1>9
  <2>2. /\ a \in Seq(S) /\ Len(a) = 1 + (n - 1)
        /\ \A i \in 1 .. 1 + (n - 1) :
              a[i] = IF i <= 1 THEN <<ring[h]>>[i] ELSE v[i - 1]
    <3>1. n - 1 \in Nat
      BY <1>0, <1>1
    <3> DEFINE one == <<ring[h]>>
    <3> HIDE DEF v, one
    <3>2. /\ one \o v \in Seq(S) /\ Len(one \o v) = Len(one) + Len(v)
          /\ \A i \in 1 .. Len(one) + Len(v) :
                (one \o v)[i] = IF i <= Len(one) THEN one[i] ELSE v[i - Len(one)]
      BY <1>0, <1>6, <2>1, ConcatProperties DEF one
    <3>3. Len(one) = 1 /\ Len(v) = n - 1
      BY <1>0, <1>6, <2>1 DEF one
    <3> QED BY <1>0, <3>2, <3>3 DEF one
  <2> HIDE DEF a, v
  <2>3. a[1] = ring[h]
    <3>1. 1 \in 1 .. 1 + (n - 1) /\ 1 <= 1
      BY <1>0, <1>1
    <3> QED BY <1>0, <2>1, <2>2, <3>1
  <2>4. ASSUME NEW i \in 1 .. n - 1 PROVE a[i + 1] = v[i]
    <3>1. i + 1 \in 1 .. 1 + (n - 1) /\ ~ (i + 1 <= 1) /\ (i + 1) - 1 = i
      BY <1>0, <1>1
    <3>2. a[i + 1] = IF i + 1 <= 1 THEN <<ring[h]>>[i + 1] ELSE v[(i + 1) - 1]
      BY <1>0, <2>2, <3>1
    <3> QED BY <1>0, <3>1, <3>2
  <2> QED BY <1>0, <1>1, <2>2, <2>3, <2>4
<1> HIDE DEF v, w, a
<1>11. w[1] = ring[h]
  BY <1>0, <1>1, <1>5, <1>8
<1>12. \A i \in 1 .. n - 1 : w[i + 1] = v[i]
  <2> SUFFICES ASSUME NEW i \in 1 .. n - 1 PROVE w[i + 1] = v[i]
    BY <1>0
  <2>1. i + 1 \in 1 .. n
    BY <1>0, <1>1
  <2>2. w[i + 1] = ring[Mask(h + (i + 1) - 1, N)]
    BY <1>0, <1>5, <2>1
  <2>3. v[i] = ring[Mask(g + i - 1, N)]
    BY <1>0, <1>6
  <2> QED BY <1>0, <1>7, <2>2, <2>3
<1>13. \A i \in 1 .. Len(w) : w[i] = a[i]
  <2> SUFFICES ASSUME NEW i \in 1 .. n PROVE w[i] = a[i]
    BY <1>0, <1>5
  <2>1. CASE i = 1
    BY <1>0, <2>1, <1>10, <1>11
  <2>2. CASE i # 1
    <3>1. i - 1 \in 1 .. n - 1 /\ (i - 1) + 1 = i
      BY <1>0, <1>1, <2>2
    <3> QED BY <1>0, <3>1, <1>10, <1>12
  <2> QED BY <1>0, <2>1, <2>2
<1>14. w = a
  BY <1>0, <1>5, <1>10, <1>13, SeqEqual
<1> QED BY <1>0, <1>2, <1>4, <1>14 DEF v, w, a, n, g, Shrunk

\* The first element of a sequence and the rest.
LEMMA FirstAndRest ==
    ASSUME NEW S, NEW T, NEW x \in S, NEW v \in Seq(S), <<x>> \o v \in Seq(T)
    PROVE  x \in T /\ v \in Seq(T)
<1> DEFINE one == <<x>>
           w == one \o v
<1>1. one \in Seq(S) /\ Len(one) = 1 /\ one[1] = x
  OBVIOUS
<1> HIDE DEF one
<1>2. /\ Len(w) = 1 + Len(v)
      /\ \A i \in 1 .. 1 + Len(v) : w[i] = IF i <= 1 THEN one[i] ELSE v[i - 1]
  <2>1. /\ Len(one \o v) = Len(one) + Len(v)
        /\ \A i \in 1 .. Len(one) + Len(v) :
              (one \o v)[i] = IF i <= Len(one) THEN one[i] ELSE v[i - Len(one)]
    BY <1>1, ConcatProperties
  <2> QED BY <1>1, <2>1
<1>3. w \in Seq(T)
  BY DEF one
<1> HIDE DEF w
<1>4. Len(v) \in Nat
  OBVIOUS
<1>5. \A i \in 1 .. 1 + Len(v) : w[i] \in T
  BY <1>2, <1>3
<1>6. 1 \in 1 .. 1 + Len(v)
  BY <1>4
<1>7. x \in T
  BY <1>1, <1>2, <1>5, <1>6
<1>8. ASSUME NEW i \in 1 .. Len(v) PROVE v[i] \in T
  <2>1. i + 1 \in 1 .. 1 + Len(v) /\ ~ (i + 1 <= 1) /\ (i + 1) - 1 = i
    BY <1>4
  <2> QED BY <1>2, <1>5, <2>1
<1> QED BY <1>7, <1>8

-----------------------------------------------------------------------------
(* Types.                                                                  *)

\* All that matters of the sizes: both initialisers give the rings the same.
LEMMA SizesFacts ==
    /\ CmdSize \in Nat \ {0} /\ CmdSize >= 2
    /\ CompSize \in Nat \ {0} /\ CompSize >= 2
    /\ \A s \in Known : s.cmd = CmdSize /\ s.comp = CompSize
    /\ NoSizes \notin Known
    /\ NoSizes.cmd = 0
<1>1. /\ CmdSize \in Nat \ {0} /\ CmdSize >= 2
      /\ CompSize \in Nat \ {0} /\ CompSize >= 2
  BY SessionAssumption, RoundUpAssumption DEF CmdSize, CompSize
<1>2. \A s \in Known : s.cmd = CmdSize /\ s.comp = CompSize
  BY DEF Known, Sizes, CmdSize, CompSize
<1>3. NoSizes.cmd = 0
  BY DEF NoSizes
<1> QED BY <1>1, <1>2, <1>3

\* What the bounds are.
LEMMA Bounds ==
    MaxPolls \in Nat /\ MaxSent \in Nat /\ MaxBoots \in Nat /\ MaxStarts \in Nat
BY SessionAssumption

\* A kext that sends or polls does so with the sizes of the rings.
LEMMA AcceptsKnown ==
    ASSUME TypeInv, Accepts
    PROVE  kring \in Known /\ HasRoom(cmd_head, cmd_tail, CmdSize)
<1>1. kring \in Known \cup {NoSizes}
  BY DEF TypeInv, KextInv, Kexts, Kext0
<1>2. kring # NoSizes
  BY SizesFacts DEF Accepts
<1> QED BY <1>1, <1>2, SizesFacts DEF Accepts

\* Nothing has started: the types hold.
LEMMA InitType == Init => TypeInv
<1> SUFFICES ASSUME Init PROVE TypeInv
  OBVIOUS
<1>1. ~ RingsTyped /\ RegionInv
  <2>1. RegionInv
    BY DEF Init, RegionInv, Untouched
  <2>2. 0 \in 0 .. CompSize - 1
    BY SizesFacts
  <2>3. DOMAIN comp_ring = {}
    BY DEF Init
  <2> QED BY <2>1, <2>2, <2>3 DEF RingsTyped
<1>2. QemuInv /\ KextInv
  BY Bounds DEF Init, QemuInv, KextInv, Kexts, Kext0, SizesKnown, Numbers
<1>3. DaemonInv
  BY Bounds DEF Init, DaemonInv, Message
<1>4. HistoryInv
  BY Bounds DEF Init, HistoryInv, Numbers
<1> QED BY <1>1, <1>2, <1>3, <1>4 DEF TypeInv, CompletionsInv

\* QEMU's part.
LEMMA QemuStep ==
    ASSUME TypeInv, Next
    PROVE  QemuInv'
<1>1. QemuInv
  BY DEF TypeInv
<1>2. CASE Qemu
  <2>1. CASE QemuLaunch
    BY <1>1, <2>1, Bounds DEF QemuLaunch, QemuInv
  <2>2. CASE Reset
    BY <1>1, <2>2, Bounds DEF Reset, ResetPhase, QemuInv
  <2>3. CASE QemuClear
    BY <1>1, <2>3 DEF QemuClear, QemuInv
  <2>4. CASE QemuFill
    BY <1>1, <2>4 DEF QemuFill, QemuInv
  <2>5. CASE QemuExit
    BY <1>1, <2>5 DEF QemuExit, QemuInv
  <2>6. CASE SaveVM
    BY <1>1, <2>6 DEF SaveVM, QemuInv
  <2>7. CASE LoadState
    BY <1>1, <2>7 DEF LoadState, QemuInv
  <2> QED BY <1>2, <2>1, <2>2, <2>3, <2>4, <2>5, <2>6, <2>7 DEF Qemu
<1>3. CASE Daemon
  <2>1. UNCHANGED <<qstate, saved, boots>>
    BY <1>3 DEF Daemon, DaemonLoop, DaemonStart, DaemonClear, DaemonFill,
                DaemonAttach, DaemonSizes, DaemonVulkan, Peek, Skip, BlindSkip,
                Process, Consume, DaemonExit, qemuVars
  <2> QED BY <1>1, <2>1 DEF QemuInv
<1>4. CASE Kext
  <2>1. UNCHANGED <<qstate, saved, boots>>
    BY <1>4 DEF Kext, KextStarting, KextStart, AttachCheck, AttachSizes,
                SendHello, HelloFails, PollAnswer, PollEmpty, GiveUp, SendPing,
                KextStop, qemuVars
  <2> QED BY <1>1, <2>1 DEF QemuInv
<1> QED BY <1>2, <1>3, <1>4 DEF Next

\* The kext's part, running or saved.
LEMMA KextStep ==
    ASSUME TypeInv, Next
    PROVE  KextInv'
<1> USE DEF KextInv, Kexts, Kext0, SizesKnown
<1>1. KextInv /\ QemuInv
  BY DEF TypeInv
<1>2. hdr.sizes \in Known \cup {NoSizes}
  BY DEF TypeInv, RegionInv
<1>3. CASE Qemu
  <2>1. CASE QemuLaunch
    BY <1>1, <2>1 DEF QemuLaunch, kextVars
  <2>2. CASE Reset
    BY <1>1, <2>2, Bounds DEF Reset, ResetPhase, KextGone, Numbers
  <2>3. CASE QemuClear
    BY <1>1, <2>3 DEF QemuClear, kextVars
  <2>4. CASE QemuFill
    BY <1>1, <2>4 DEF QemuFill, kextVars
  <2>5. CASE QemuExit
    BY <1>1, <2>5, Bounds DEF QemuExit, KextGone, Numbers
  <2>6. CASE SaveVM
    BY <1>1, <2>6, Bounds DEF SaveVM, KextGone, Numbers
  <2>7. CASE LoadState
    BY <1>1, <2>7 DEF LoadState, QemuInv
  <2> QED BY <1>3, <2>1, <2>2, <2>3, <2>4, <2>5, <2>6, <2>7 DEF Qemu
<1>4. CASE Daemon
  <2>1. UNCHANGED <<qemuVars, kextVars>>
    BY <1>4 DEF Daemon, DaemonLoop, DaemonStart, DaemonClear, DaemonFill,
                DaemonAttach, DaemonSizes, DaemonVulkan, Peek, Skip, BlindSkip,
                Process, Consume, DaemonExit
  <2> QED BY <1>1, <2>1 DEF qemuVars, kextVars
<1>5. CASE Kext
  <2>1. qstate = "on" /\ UNCHANGED <<qstate, saved>>
    BY <1>5 DEF Kext, KextStarting, KextStart, AttachCheck, AttachSizes,
                SendHello, HelloFails, PollAnswer, PollEmpty, GiveUp, SendPing,
                KextStop, qemuVars
  <2>2. Kext0' \in Kexts /\ SizesKnown(Kext0')
    <3>1. CASE KextStart
      BY <1>1, <3>1, Bounds DEF KextStart, qemuVars, Numbers
    <3>2. CASE AttachCheck
      BY <1>1, <3>2 DEF AttachCheck, qemuVars
    <3>3. CASE AttachSizes
      BY <1>1, <1>2, <3>3 DEF AttachSizes
    <3>4. CASE SendHello
      <4>1. kring \in Known
        BY <3>4, AcceptsKnown DEF SendHello
      <4>2. sent + 1 \in Numbers
        BY <3>4, Bounds DEF SendHello, TypeInv, HistoryInv, Numbers
      <4> QED BY <1>1, <3>4, <4>1, <4>2 DEF SendHello, qemuVars
    <3>5. CASE HelloFails
      BY <1>1, <3>5 DEF HelloFails, qemuVars
    <3>6. CASE PollAnswer
      <4>1. comp_ring[comp_head] \in Numbers
        BY <1>1, <3>6 DEF PollAnswer, TypeInv, RegionInv, RingsTyped, Untouched
      <4> QED BY <1>1, <3>6, <4>1 DEF PollAnswer
    <3>7. CASE PollEmpty
      <4>1. polls + 1 \in 0 .. MaxPolls
        BY <1>1, <3>7, Bounds DEF PollEmpty
      <4> QED BY <1>1, <3>7, <4>1 DEF PollEmpty, PollsAfter, qemuVars
    <3>8. CASE GiveUp
      BY <1>1, <3>8 DEF GiveUp
    <3>9. CASE SendPing
      BY <1>1, <3>9 DEF SendPing, qemuVars, kextVars
    <3>10. CASE KextStop
      BY <1>1, <3>10 DEF KextStop
    <3> QED BY <1>5, <3>1, <3>2, <3>3, <3>4, <3>5, <3>6, <3>7, <3>8, <3>9, <3>10
            DEF Kext, KextStarting
  <2> QED BY <1>1, <2>1, <2>2
<1> QED BY <1>3, <1>4, <1>5 DEF Next

\* Only QEMU wipes out what has disturbed the session.
LEMMA DisturbedGrows ==
    ASSUME Next, ~ QemuClear
    PROVE  disturbed \subseteq disturbed'
<1>1. CASE Qemu
  BY <1>1 DEF Qemu, QemuLaunch, Reset, QemuFill, QemuExit, SaveVM, LoadState,
              history
<1>2. CASE Daemon
  BY <1>2 DEF Daemon, DaemonLoop, DaemonStart, DaemonClear, DaemonFill,
              DaemonAttach, DaemonSizes, DaemonVulkan, Peek, Skip, BlindSkip,
              Process, Consume, DaemonExit, Late, history
<1>3. CASE Kext
  BY <1>3 DEF Kext, KextStarting, KextStart, AttachCheck, AttachSizes,
              SendHello, HelloFails, PollAnswer, PollEmpty, GiveUp, SendPing,
              KextStop, Submit, history
<1> QED BY <1>1, <1>2, <1>3 DEF Next

\* The daemon's part.
LEMMA DaemonStep ==
    ASSUME TypeInv, Next
    PROVE  DaemonInv'
<1>1. DaemonInv
  BY DEF TypeInv
<1>3. CASE Daemon
  <2>1. CASE DaemonStart
    BY <1>1, <2>1, Bounds DEF DaemonStart, DaemonInv
  <2>2. CASE DaemonClear
    BY <1>1, <2>2 DEF DaemonClear, DaemonInv
  <2>3. CASE DaemonFill
    BY <1>1, <2>3 DEF DaemonFill, DaemonInv
  <2>4. CASE DaemonAttach
    BY <1>1, <2>4 DEF DaemonAttach, DaemonInv
  <2>11. CASE DaemonSizes
    <3>1. hdr.sizes \in Known \cup {NoSizes}
      BY DEF TypeInv, RegionInv
    <3>2. dring' \in Known \/ (dring' = NoSizes /\ "blind" \in disturbed')
      BY <2>11, <3>1 DEF DaemonSizes
    <3>3. dstate' = "vulkan" /\ UNCHANGED <<held, starts>>
      BY <2>11 DEF DaemonSizes
    <3> QED BY <1>1, <3>2, <3>3 DEF DaemonInv
  <2>5. CASE DaemonVulkan
    BY <1>1, <2>5 DEF DaemonVulkan, DaemonInv, history
  <2>6. CASE Peek
    <3>1. HeadMessage \in Message
      BY <2>6 DEF Peek, HeadMessage, TypeInv, RegionInv, RingsTyped, Untouched
    <3>2. dring \in Known
      BY <1>1, <2>6 DEF Peek, Blind, DaemonInv
    <3> QED BY <1>1, <2>6, <3>1, <3>2 DEF Peek, DaemonInv
  <2>7. CASE Skip \/ BlindSkip
    BY <1>1, <2>7 DEF Skip, BlindSkip, DaemonInv, daemonVars, history
  <2>8. CASE Process
    BY <1>1, <2>8 DEF Process, DaemonInv
  <2>9. CASE Consume
    BY <1>1, <2>9 DEF Consume, DaemonInv
  <2>10. CASE DaemonExit
    BY <1>1, <2>10 DEF DaemonExit, DaemonInv
  <2> QED BY <1>3, <2>1, <2>2, <2>3, <2>4, <2>5, <2>6, <2>7, <2>8, <2>9, <2>10,
             <2>11
          DEF Daemon, DaemonLoop
<1>4. CASE ~ Daemon
  <2>1. UNCHANGED daemonVars
    <3>1. CASE Qemu
      BY <3>1 DEF Qemu, QemuLaunch, Reset, QemuClear, QemuFill, QemuExit, SaveVM,
                  LoadState
    <3>2. CASE Kext
      BY <3>2 DEF Kext, KextStarting, KextStart, AttachCheck, AttachSizes,
                  SendHello, HelloFails, PollAnswer, PollEmpty, GiveUp, SendPing,
                  KextStop, Submit
    <3> QED BY <1>4, <3>1, <3>2 DEF Next
  <2>2. dstate \in {"vulkan", "poll"} /\ dring = NoSizes => "blind" \in disturbed'
    <3>1. ASSUME dstate \in {"vulkan", "poll"}, dring = NoSizes
          PROVE  "blind" \in disturbed
      BY <1>1, <3>1, SizesFacts DEF DaemonInv
    <3>2. CASE QemuClear
      BY <3>2 DEF QemuClear, Blind
    <3>3. CASE ~ QemuClear
      BY <3>1, <3>3, DisturbedGrows
    <3> QED BY <3>2, <3>3
  <2> QED BY <1>1, <2>1, <2>2 DEF DaemonInv, daemonVars
<1> QED BY <1>3, <1>4

\* The rings are there for everybody who has got as far as to use them.
LEMMA RingsThere ==
    ASSUME TypeInv,
           \/ qstate \notin {"off", "mapped"}
           \/ dstate \notin {"off", "mapped"}
           \/ hdr.ready
    PROVE  RingsTyped
BY DEF TypeInv, RegionInv, Untouched

\* A daemon that works at commands has the sizes of the rings.
LEMMA KnownToLoop ==
    ASSUME TypeInv, Peek \/ Skip \/ Process \/ Consume
    PROVE  RingsTyped /\ dring \in Known
<1>1. dstate \in {"poll", "process", "consume"}
  BY DEF Peek, Skip, Process, Consume
<1>2. CASE Peek \/ Skip
  BY <1>1, <1>2, RingsThere DEF Peek, Skip, Blind, TypeInv, DaemonInv
<1>3. CASE Process \/ Consume
  BY <1>1, <1>3, RingsThere DEF Process, Consume, TypeInv, DaemonInv
<1> QED BY <1>2, <1>3

\* A daemon that skips moves the head by one, with or without sizes.
LEMMA SkipsOne ==
    ASSUME TypeInv, Skip \/ BlindSkip
    PROVE  /\ RingsTyped /\ dstate = "poll"
           /\ Avail(cmd_head, cmd_tail, CmdSize) >= 1
           /\ cmd_head' = Mask(cmd_head + 1, CmdSize)
           /\ UNCHANGED <<region, cmd_ring, cmd_tail, compVars, qemuVars,
                         daemonVars, kextVars, history>>
<1>1. CASE Skip
  BY <1>1, KnownToLoop, SizesFacts DEF Skip
<1>2. CASE BlindSkip
  <2>1. RingsTyped
    BY <1>2, RingsThere DEF BlindSkip
  <2>2. cmd_head = 0 /\ cmd_tail \in 1 .. CmdSize - 1 /\ cmd_head' = 1
    BY <1>2, <2>1, SizesFacts DEF BlindSkip, RingsTyped
  <2>3. Avail(cmd_head, cmd_tail, CmdSize) = cmd_tail
    BY <2>1, <2>2, AvailIs, SizesFacts DEF RingsTyped
  <2>4. Mask(cmd_head + 1, CmdSize) = 1
    <3>1. Mask(0 + 1, CmdSize) = IF 0 + 1 < CmdSize THEN 0 + 1 ELSE 0
      BY NextIs, SizesFacts
    <3> QED BY <2>2, <3>1, SizesFacts
  <2> QED BY <1>2, <2>1, <2>2, <2>3, <2>4, SizesFacts DEF BlindSkip
<1> QED BY <1>1, <1>2

\* A clearing of the region.
LEMMA ClearTyped ==
    ASSUME TypeInv, Clear
    PROVE  RegionInv' /\ RingsTyped'
<1>1. RingsTyped'
  <2>1. Zero \in Message /\ 0 \in Numbers
    BY Bounds DEF Message, Numbers
  <2> QED BY <2>1, SizesFacts DEF Clear, Wiped, RingsTyped, CmdSize, CompSize
<1> QED BY <1>1 DEF TypeInv, RegionInv, Clear

\* A filling of a region that is cleared.
LEMMA FillTyped ==
    ASSUME TypeInv, RingsTyped, NEW mem \in {QemuMem, DaemonMem},
           Fill(RingSlots, mem)
    PROVE  RegionInv' /\ RingsTyped'
<1>1. RingsTyped'
  BY SizesFacts DEF Fill, RingsTyped
<1>2. Sizes(RingSlots, mem) \in Known
  BY DEF Known
<1> QED BY <1>1, <1>2 DEF TypeInv, RegionInv, Fill

\* A command of the kext.
LEMMA SubmitTyped ==
    ASSUME TypeInv, RingsTyped, Accepts, sent < MaxSent, NEW op \in Ops,
           Submit(op)
    PROVE  RegionInv' /\ RingsTyped'
<1>1. [op |-> op, n |-> sent + 1] \in Message
  <2>1. sent + 1 \in 1 .. MaxSent
    BY Bounds DEF TypeInv, HistoryInv, Numbers
  <2> QED BY <2>1 DEF Message
<1>2. cmd_tail' = Mask(cmd_tail + 1, CmdSize) /\ cmd_tail' \in 0 .. CmdSize - 1
  <2>1. kring.cmd = CmdSize
    BY AcceptsKnown, SizesFacts
  <2>2. Mask(cmd_tail + 1, CmdSize) \in 0 .. CmdSize - 1
    BY NextIs, SizesFacts DEF RingsTyped
  <2> QED BY <2>1, <2>2 DEF Submit
<1>3. RingsTyped'
  BY <1>1, <1>2 DEF Submit, RingsTyped, compVars
<1> QED BY <1>3 DEF TypeInv, RegionInv, Submit, region

\* The region.
LEMMA RegionStep ==
    ASSUME TypeInv, Next
    PROVE  RegionInv'
<1>1. RegionInv
  BY DEF TypeInv
<1>2. CASE Qemu
  <2>1. CASE QemuLaunch
    BY <1>1, <2>1 DEF QemuLaunch, RegionInv, Untouched, RingsTyped, cmdVars,
                      compVars, daemonVars, kextVars
  <2>2. CASE QemuClear
    BY <2>2, ClearTyped DEF QemuClear
  <2>3. CASE QemuFill
    BY <2>3, RingsThere, FillTyped DEF QemuFill, QemuSlots
  <2>4. CASE Reset \/ SaveVM \/ LoadState \/ QemuExit
    <3>1. RingsTyped /\ UNCHANGED <<region, cmdVars, compVars>>
      BY <2>4, RingsThere DEF Reset, SaveVM, LoadState, QemuExit
    <3> QED BY <1>1, <3>1 DEF RegionInv, RingsTyped, region, cmdVars, compVars
  <2> QED BY <1>2, <2>1, <2>2, <2>3, <2>4 DEF Qemu
<1>3. CASE Daemon
  <2>1. CASE DaemonStart
    BY <1>1, <2>1 DEF DaemonStart, RegionInv, Untouched, RingsTyped, cmdVars,
                      compVars, qemuVars, kextVars
  <2>2. CASE DaemonClear
    BY <2>2, ClearTyped DEF DaemonClear
  <2>3. CASE DaemonFill
    BY <2>3, RingsThere, FillTyped DEF DaemonFill
  <2>4. CASE Skip \/ BlindSkip
    <3>1. /\ RingsTyped /\ cmd_head' = Mask(cmd_head + 1, CmdSize)
          /\ UNCHANGED <<region, cmd_ring, cmd_tail, compVars>>
      BY <2>4, SkipsOne
    <3>2. cmd_head' \in 0 .. CmdSize - 1
      BY <3>1, SizesFacts, NextIs DEF RingsTyped
    <3> QED BY <1>1, <3>1, <3>2 DEF RegionInv, RingsTyped, region, compVars
  <2>5. CASE Process
    <3>1. RingsTyped /\ dring \in Known /\ held.n \in Numbers
      BY <2>5, RingsThere, Bounds DEF Process, TypeInv, DaemonInv, Message,
                                      Numbers, Zero
    <3>2. Mask(comp_tail + 1, dring.comp) \in 0 .. CompSize - 1
      BY <3>1, SizesFacts, NextIs DEF RingsTyped
    <3> QED BY <1>1, <2>5, <3>1, <3>2 DEF Process, RegionInv, RingsTyped, region,
                                          cmdVars
  <2>6. CASE Consume
    <3>1. RingsTyped /\ dring \in Known
      BY <2>6, RingsThere DEF Consume, TypeInv, DaemonInv
    <3>2. cmd_head' \in 0 .. CmdSize - 1
      BY <2>6, <3>1, SizesFacts, NextIs DEF Consume, RingsTyped
    <3> QED BY <1>1, <2>6, <3>1, <3>2 DEF Consume, RegionInv, RingsTyped, region,
                                          compVars
  <2>7. CASE DaemonAttach \/ DaemonSizes \/ DaemonVulkan
      \/ Peek \/ DaemonExit
    <3>1. RingsTyped /\ UNCHANGED <<region, cmdVars, compVars>>
      BY <2>7, RingsThere DEF DaemonAttach, DaemonSizes, DaemonVulkan, Peek,
                              DaemonExit
    <3> QED BY <1>1, <3>1 DEF RegionInv, RingsTyped, region, cmdVars, compVars
  <2> QED BY <1>3, <2>1, <2>2, <2>3, <2>4, <2>5, <2>6, <2>7 DEF Daemon, DaemonLoop
<1>4. CASE Kext
  <2>1. RingsTyped
    BY <1>4, RingsThere DEF Kext, KextStarting, KextStart, AttachCheck,
                AttachSizes, SendHello, HelloFails, PollAnswer, PollEmpty, GiveUp,
                SendPing, KextStop
  <2>2. CASE UNCHANGED <<region, cmdVars, compVars>>
    BY <1>1, <2>1, <2>2 DEF RegionInv, RingsTyped, region, cmdVars, compVars
  <2>3. CASE \E op \in Ops : Accepts /\ sent < MaxSent /\ Submit(op)
    BY <2>1, <2>3, SubmitTyped
  <2>4. CASE PollAnswer
    <3>1. kring \in Known
      BY <2>4 DEF PollAnswer, TypeInv, KextInv, SizesKnown, Kext0
    <3>2. comp_head' \in 0 .. CompSize - 1
      BY <2>1, <2>4, <3>1, SizesFacts, NextIs DEF PollAnswer, RingsTyped
    <3> QED BY <1>1, <2>1, <2>4, <3>2 DEF PollAnswer, RegionInv, RingsTyped,
                                          region, cmdVars
  <2> QED BY <1>4, <2>2, <2>3, <2>4
          DEF Kext, KextStarting, KextStart, AttachCheck, AttachSizes, SendHello,
              HelloFails, PollEmpty, GiveUp, SendPing, KextStop, Ops
<1> QED BY <1>2, <1>3, <1>4 DEF Next

\* What an initialisation leaves in the rings.
LEMMA EmptyRings ==
    ASSUME cmd_head' = 0, cmd_tail' = 0, comp_head' = 0, comp_tail' = 0
    PROVE  Commands' = <<>> /\ Completions' = <<>>
<1>1. Commands' = InRing(CmdNumbers', 0, 0, CmdSize)
  BY DEF Commands
<1>2. Completions' = InRing(comp_ring', 0, 0, CompSize)
  BY DEF Completions
<1>3. 0 \in 0 .. CmdSize - 1 /\ 0 \in 0 .. CompSize - 1
  BY SizesFacts
<1> QED BY <1>1, <1>2, <1>3, SizesFacts, WindowEmpty

\* A reply is appended to the completions.
LEMMA ReplyAppended ==
    ASSUME TypeInv, Process, Answered, CompRoom
    PROVE  /\ Completions' = Append(Completions, held.n)
           /\ held.n \in 1 .. MaxSent
<1>1. RingsTyped /\ dring \in Known /\ held.n \in 1 .. MaxSent
  BY RingsThere DEF Process, TypeInv, DaemonInv, Message
<1>2. held.n \in Numbers
  BY <1>1, Bounds DEF Numbers
<1>3. dring.comp = CompSize
  BY <1>1, SizesFacts
<1>4. /\ comp_ring' = [comp_ring EXCEPT ![comp_tail] = held.n]
      /\ comp_head' = comp_head
      /\ comp_tail' = Mask(comp_tail + 1, CompSize)
  BY <1>3 DEF Process
<1>5. HasRoom(comp_head, comp_tail, CompSize)
  BY <1>3 DEF CompRoom
<1>6. /\ comp_ring \in [0 .. CompSize - 1 -> Numbers]
      /\ comp_head \in 0 .. CompSize - 1 /\ comp_tail \in 0 .. CompSize - 1
  BY <1>1 DEF RingsTyped
<1>7. InRing(comp_ring', comp_head, comp_tail', CompSize)
          = Append(InRing(comp_ring, comp_head, comp_tail, CompSize), held.n)
  <2>1. Ring(Numbers, CompSize, comp_ring, comp_head, comp_tail)
    BY <1>6, SizesFacts DEF Ring
  <2>2. Stored(Numbers, CompSize, comp_ring, comp_tail, held.n, comp_ring',
               comp_tail')
    BY <1>2, <1>4, <1>6 DEF Stored
  <2> QED BY <1>5, <2>1, <2>2, WindowGrows
<1>8. Completions' = InRing(comp_ring', comp_head', comp_tail', CompSize)
  BY DEF Completions
<1> QED BY <1>1, <1>4, <1>7, <1>8 DEF Completions

\* The completion that the kext reads was the first one.
LEMMA FirstReply ==
    ASSUME TypeInv, PollAnswer
    PROVE  /\ Completions = <<comp_ring[comp_head]>> \o Completions'
           /\ comp_ring[comp_head] \in 1 .. MaxSent
           /\ Completions' \in Seq(1 .. MaxSent)
<1>1. RingsTyped /\ kring \in Known
  BY RingsThere DEF PollAnswer, TypeInv, KextInv, SizesKnown, Kext0
<1>2. kring.comp = CompSize
  BY <1>1, SizesFacts
<1>3. /\ comp_ring' = comp_ring /\ comp_tail' = comp_tail
      /\ comp_head' = Mask(comp_head + 1, CompSize)
      /\ Avail(comp_head, comp_tail, CompSize) >= 1
  BY <1>2 DEF PollAnswer, CompAvail
<1>4. /\ comp_ring \in [0 .. CompSize - 1 -> Numbers]
      /\ comp_head \in 0 .. CompSize - 1 /\ comp_tail \in 0 .. CompSize - 1
      /\ CompSize \in Nat \ {0}
      /\ Ring(Numbers, CompSize, comp_ring, comp_head, comp_tail)
  BY <1>1, SizesFacts DEF RingsTyped, Ring
<1> DEFINE g == Mask(comp_head + 1, CompSize)
<1>5. /\ g \in 0 .. CompSize - 1
      /\ InRing(comp_ring, comp_head, comp_tail, CompSize)
            = <<comp_ring[comp_head]>> \o InRing(comp_ring, g, comp_tail, CompSize)
  <2>1. Filled(Numbers, CompSize, comp_ring, comp_head, comp_tail)
    BY <1>3, <1>4 DEF Filled
  <2>2. Shrunk(CompSize, comp_ring, comp_head, comp_tail)
    BY <2>1, WindowShrinks, Zenon
  <2> QED BY <2>2 DEF Shrunk
<1>6. Completions' = InRing(comp_ring', comp_head', comp_tail', CompSize)
  BY DEF Completions
<1>7. Completions' = InRing(comp_ring, g, comp_tail, CompSize)
  BY <1>3, <1>6
<1>8. Completions' \in Seq(Numbers)
  <2> HIDE DEF g
  <2>1. InRing(comp_ring, g, comp_tail, CompSize) \in Seq(Numbers)
    <3>1. Ring(Numbers, CompSize, comp_ring, g, comp_tail)
      BY <1>4, <1>5 DEF Ring
    <3> QED BY <3>1, WindowIs, Zenon
  <2> QED BY <1>7, <2>1
<1>9. Completions = <<comp_ring[comp_head]>> \o Completions'
  BY <1>5, <1>7 DEF Completions
<1>10. <<comp_ring[comp_head]>> \o Completions' \in Seq(1 .. MaxSent)
  BY <1>1, <1>9 DEF TypeInv, CompletionsInv
<1>11. comp_ring[comp_head] \in Numbers
  BY <1>4
<1> QED BY <1>8, <1>9, <1>10, <1>11, FirstAndRest

\* A command is appended to the commands; the first one stays where it is.
LEMMA CommandAppended ==
    ASSUME TypeInv, RingsTyped, Accepts, sent < MaxSent, NEW op \in Ops,
           Submit(op)
    PROVE  /\ Commands' = Append(Commands, sent + 1)
           /\ sent + 1 \in 1 .. MaxSent
           /\ Avail(cmd_head', cmd_tail', CmdSize)
                = Avail(cmd_head, cmd_tail, CmdSize) + 1
           /\ Avail(cmd_head, cmd_tail, CmdSize) >= 1 =>
                 cmd_ring'[cmd_head'] = cmd_ring[cmd_head]
<1> DEFINE msg == [op |-> op, n |-> sent + 1]
<1>1. sent + 1 \in 1 .. MaxSent /\ sent + 1 \in Numbers
  BY Bounds DEF TypeInv, HistoryInv, Numbers
<1>2. msg \in Message
  BY <1>1 DEF Message
<1>3. kring.cmd = CmdSize /\ HasRoom(cmd_head, cmd_tail, CmdSize)
  BY AcceptsKnown, SizesFacts
<1>4. /\ cmd_ring' = [cmd_ring EXCEPT ![cmd_tail] = msg]
      /\ cmd_head' = cmd_head
      /\ cmd_tail' = Mask(cmd_tail + 1, CmdSize)
  BY <1>3 DEF Submit
<1>5. /\ cmd_ring \in [0 .. CmdSize - 1 -> Message]
      /\ cmd_head \in 0 .. CmdSize - 1 /\ cmd_tail \in 0 .. CmdSize - 1
      /\ CmdSize \in Nat \ {0}
  BY SizesFacts DEF RingsTyped
<1>6. CmdNumbers \in [0 .. CmdSize - 1 -> Numbers]
  <2>1. \A i \in 0 .. CmdSize - 1 : cmd_ring[i].n \in Numbers
    <3>1. \A m \in Message : m.n \in Numbers
      BY Bounds DEF Message, Zero, Numbers
    <3> QED BY <1>5, <3>1
  <2> QED BY <2>1 DEF CmdNumbers
<1>7. CmdNumbers' = [CmdNumbers EXCEPT ![cmd_tail] = sent + 1]
  <2>1. \A i \in 0 .. CmdSize - 1 :
            cmd_ring'[i].n = IF i = cmd_tail THEN sent + 1 ELSE cmd_ring[i].n
    BY <1>4, <1>5
  <2>2. CmdNumbers' = [i \in 0 .. CmdSize - 1 |-> cmd_ring'[i].n]
    BY DEF CmdNumbers
  <2> QED BY <1>5, <2>1, <2>2 DEF CmdNumbers
<1>8. /\ Ring(Numbers, CmdSize, CmdNumbers, cmd_head, cmd_tail)
      /\ Ring(Message, CmdSize, cmd_ring, cmd_head, cmd_tail)
  BY <1>5, <1>6 DEF Ring
<1>9. /\ InRing(CmdNumbers', cmd_head, cmd_tail', CmdSize)
            = Append(InRing(CmdNumbers, cmd_head, cmd_tail, CmdSize), sent + 1)
      /\ Avail(cmd_head, cmd_tail', CmdSize)
            = Avail(cmd_head, cmd_tail, CmdSize) + 1
  <2>1. Stored(Numbers, CmdSize, CmdNumbers, cmd_tail, sent + 1, CmdNumbers',
               cmd_tail')
    BY <1>1, <1>4, <1>5, <1>6, <1>7 DEF Stored
  <2> QED BY <1>3, <1>8, <2>1, WindowGrows
<1>10. Avail(cmd_head, cmd_tail, CmdSize) >= 1 =>
           cmd_ring'[cmd_head] = cmd_ring[cmd_head]
  <2> HIDE DEF msg
  <2>1. Stored(Message, CmdSize, cmd_ring, cmd_tail, msg, cmd_ring', cmd_tail')
    BY <1>2, <1>4, <1>5 DEF Stored
  <2> QED BY <1>3, <1>8, <2>1, WindowGrows
<1>11. Commands' = InRing(CmdNumbers', cmd_head', cmd_tail', CmdSize)
  BY DEF Commands
<1> QED BY <1>1, <1>4, <1>9, <1>10, <1>11 DEF Commands

\* What is in the command ring after the first command.
RestOfCommands ==
    InRing(CmdNumbers, Mask(cmd_head + 1, CmdSize), cmd_tail, CmdSize)

\* The first command between head and tail, and the others.
LEMMA FirstPending ==
    ASSUME RingsTyped, Avail(cmd_head, cmd_tail, CmdSize) >= 1
    PROVE  /\ Commands = <<cmd_ring[cmd_head].n>> \o RestOfCommands
           /\ cmd_ring[cmd_head].n \in Numbers
           /\ RestOfCommands \in Seq(Numbers)
<1>1. /\ cmd_ring \in [0 .. CmdSize - 1 -> Message]
      /\ cmd_head \in 0 .. CmdSize - 1 /\ cmd_tail \in 0 .. CmdSize - 1
      /\ CmdSize \in Nat \ {0}
  BY SizesFacts DEF RingsTyped
<1>2. CmdNumbers \in [0 .. CmdSize - 1 -> Numbers]
  <2>1. \A i \in 0 .. CmdSize - 1 : cmd_ring[i].n \in Numbers
    <3>1. \A m \in Message : m.n \in Numbers
      BY Bounds DEF Message, Zero, Numbers
    <3> QED BY <1>1, <3>1
  <2> QED BY <2>1 DEF CmdNumbers
<1> DEFINE g == Mask(cmd_head + 1, CmdSize)
<1>3. /\ g \in 0 .. CmdSize - 1
      /\ InRing(CmdNumbers, cmd_head, cmd_tail, CmdSize)
            = <<CmdNumbers[cmd_head]>> \o InRing(CmdNumbers, g, cmd_tail, CmdSize)
  <2>1. Filled(Numbers, CmdSize, CmdNumbers, cmd_head, cmd_tail)
    BY <1>1, <1>2 DEF Ring, Filled
  <2>2. Shrunk(CmdSize, CmdNumbers, cmd_head, cmd_tail)
    BY <2>1, WindowShrinks, Zenon
  <2> QED BY <2>2 DEF Shrunk
<1>4. CmdNumbers[cmd_head] = cmd_ring[cmd_head].n
  BY <1>1 DEF CmdNumbers
<1>5. InRing(CmdNumbers, g, cmd_tail, CmdSize) \in Seq(Numbers)
  <2> HIDE DEF g
  <2>1. Ring(Numbers, CmdSize, CmdNumbers, g, cmd_tail)
    BY <1>1, <1>2, <1>3 DEF Ring
  <2> QED BY <2>1, WindowIs, Zenon
<1>6. cmd_ring[cmd_head].n \in Numbers
  BY <1>1, <1>2, <1>4
<1> QED BY <1>3, <1>4, <1>5, <1>6 DEF Commands, RestOfCommands

\* It is what remains when the daemon consumes the command, or skips zeros.
LEMMA FirstCommand ==
    ASSUME RingsTyped, Avail(cmd_head, cmd_tail, CmdSize) >= 1,
           UNCHANGED <<cmd_ring, cmd_tail>>,
           cmd_head' = Mask(cmd_head + 1, CmdSize)
    PROVE  /\ Commands = <<cmd_ring[cmd_head].n>> \o Commands'
           /\ cmd_ring[cmd_head].n \in Numbers
           /\ Commands' \in Seq(Numbers)
<1>1. CmdNumbers' = CmdNumbers
  BY DEF CmdNumbers
<1>2. Commands' = InRing(CmdNumbers', cmd_head', cmd_tail', CmdSize)
  BY DEF Commands
<1>3. Commands' = RestOfCommands
  BY <1>1, <1>2 DEF RestOfCommands
<1> QED BY <1>3, FirstPending

\* Every action that leaves the completion ring alone.
LEMMA CompletionsKept ==
    ASSUME TypeInv, UNCHANGED compVars, RingsTyped \/ UNCHANGED cmdVars
    PROVE  CompletionsInv' /\ Completions' = Completions
<1>1. Completions' = InRing(comp_ring', comp_head', comp_tail', CompSize)
  BY DEF Completions
<1>2. Completions' = Completions
  BY <1>1 DEF Completions, compVars
<1>3. RingsTyped' => RingsTyped
  BY DEF RingsTyped, compVars, cmdVars
<1> QED BY <1>2, <1>3 DEF TypeInv, CompletionsInv

\* Every step leaves only completions between head and tail.
LEMMA CompletionsStep ==
    ASSUME TypeInv, Next
    PROVE  CompletionsInv'
<1>1. CASE QemuClear \/ QemuFill \/ DaemonClear \/ DaemonFill
  <2>1. Completions' = <<>>
    BY <1>1, EmptyRings DEF QemuClear, QemuFill, DaemonClear, DaemonFill, Clear,
                            Fill
  <2> QED BY <2>1 DEF CompletionsInv
<1>2. CASE QemuLaunch \/ Reset \/ QemuExit \/ SaveVM \/ LoadState
  BY <1>2, CompletionsKept
  DEF QemuLaunch, Reset, QemuExit, SaveVM, LoadState
<1>3. CASE DaemonStart \/ DaemonAttach \/ DaemonSizes \/ DaemonVulkan
      \/ Peek \/ DaemonExit
  BY <1>3, CompletionsKept
  DEF DaemonStart, DaemonAttach, DaemonSizes, DaemonVulkan, Peek, DaemonExit
<1>4. CASE Skip \/ BlindSkip \/ Consume
  BY <1>4, CompletionsKept, RingsThere DEF Skip, BlindSkip, Consume
<1>5. CASE Process
  <2>1. CASE Answered /\ CompRoom
    <3>1. RingsTyped
      BY <1>5, RingsThere DEF Process
    <3>2. Completions \in Seq(1 .. MaxSent)
      BY <3>1 DEF TypeInv, CompletionsInv
    <3>3. Completions' = Append(Completions, held.n) /\ held.n \in 1 .. MaxSent
      BY <1>5, <2>1, ReplyAppended
    <3>4. Completions' \in Seq(1 .. MaxSent)
      <4> DEFINE c == Completions
                 d == Completions'
      <4>1. c \in Seq(1 .. MaxSent) /\ d = Append(c, held.n)
        BY <3>2, <3>3
      <4> HIDE DEF c, d
      <4>2. d \in Seq(1 .. MaxSent)
        BY <3>3, <4>1
      <4> QED BY <4>2 DEF d
    <3> QED BY <3>4 DEF CompletionsInv
  <2>2. CASE ~ (Answered /\ CompRoom)
    BY <1>5, <2>2, CompletionsKept DEF Process, compVars
  <2> QED BY <2>1, <2>2
<1>6. CASE PollAnswer
  BY <1>6, FirstReply DEF CompletionsInv
<1>7. CASE Kext /\ ~ PollAnswer
  <2>1. RingsTyped
    BY <1>7, RingsThere DEF Kext, KextStarting, KextStart, AttachCheck,
                AttachSizes, SendHello, HelloFails, PollEmpty, GiveUp,
                SendPing, KextStop
  <2>2. UNCHANGED compVars
    BY <1>7 DEF Kext, KextStarting, KextStart, AttachCheck,
                AttachSizes, SendHello, HelloFails, PollEmpty, GiveUp,
                SendPing, KextStop, Submit
  <2> QED BY <2>1, <2>2, CompletionsKept
<1> QED BY <1>1, <1>2, <1>3, <1>4, <1>5, <1>6, <1>7
        DEF Next, Qemu, Daemon, DaemonLoop

\* What the history records.
LEMMA HistoryStep ==
    ASSUME TypeInv, Next
    PROVE  HistoryInv'
<1> DEFINE Ns == Seq(1 .. MaxSent)
<1>1. /\ sent \in Numbers
      /\ submitted \in Ns /\ handled \in Ns /\ replied \in Ns /\ received \in Ns
      /\ disturbed \subseteq {"busy", "late", "blind", "reload"}
  BY DEF TypeInv, HistoryInv
<1>2. CASE QemuClear
  BY <1>1, <1>2 DEF QemuClear, Forget, HistoryInv
<1>3. CASE DaemonClear \/ DaemonFill
  <2>1. Late
    BY <1>3 DEF DaemonClear, DaemonFill
  <2>2. CASE qstate = "off"
    <3>1. Forget /\ UNCHANGED disturbed
      BY <2>1, <2>2 DEF Late
    <3>2. /\ submitted' = <<>> /\ handled' = <<>>
          /\ replied' = <<>> /\ received' = <<>> /\ sent' = sent
      BY <3>1 DEF Forget
    <3>3. <<>> \in Ns
      OBVIOUS
    <3> QED BY <1>1, <3>1, <3>2, <3>3 DEF HistoryInv
  <2>3. CASE qstate # "off"
    BY <1>1, <2>1, <2>3 DEF Late, HistoryInv
  <2> QED BY <2>2, <2>3
<1>4. CASE Process
  <2>1. CASE Answered /\ CompRoom
    <3>1. held.n \in 1 .. MaxSent
      BY <1>4, <2>1, ReplyAppended
    <3>2. replied' = Append(replied, held.n)
      BY <1>4, <2>1 DEF Process
    <3>3. replied' \in Ns
      BY <1>1, <3>1, <3>2
    <3> QED BY <1>1, <1>4, <3>3 DEF Process, HistoryInv
  <2>2. CASE ~ (Answered /\ CompRoom)
    BY <1>1, <1>4, <2>2 DEF Process, HistoryInv
  <2> QED BY <2>1, <2>2
<1>5. CASE Consume
  <2>1. held.n \in 1 .. MaxSent
    BY <1>5 DEF Consume, TypeInv, DaemonInv, Message
  <2>2. handled' \in Ns
    BY <1>1, <1>5, <2>1 DEF Consume
  <2> QED BY <1>1, <1>5, <2>2 DEF Consume, HistoryInv
<1>6. CASE PollAnswer
  <2>1. received' \in Ns
    BY <1>1, <1>6, FirstReply DEF PollAnswer
  <2> QED BY <1>1, <1>6, <2>1 DEF PollAnswer, HistoryInv
<1>7. CASE \E op \in Ops : sent < MaxSent /\ Submit(op)
  <2>1. sent + 1 \in 1 .. MaxSent /\ sent + 1 \in Numbers
    BY <1>1, <1>7, Bounds DEF Numbers
  <2>2. submitted' \in Ns
    BY <1>1, <1>7, <2>1 DEF Submit
  <2> QED BY <1>1, <1>7, <2>1, <2>2 DEF Submit, HistoryInv
<1>8. CASE KextStart
  BY <1>1, <1>8 DEF KextStart, HistoryInv
<1>9. CASE UNCHANGED history
  BY <1>1, <1>9 DEF HistoryInv, history
<1>11. CASE DaemonSizes
  BY <1>1, <1>11 DEF DaemonSizes, HistoryInv
<1>10. \/ QemuClear \/ DaemonClear \/ DaemonFill \/ Process \/ Consume
       \/ PollAnswer \/ KextStart \/ DaemonSizes \/ UNCHANGED history
       \/ \E op \in Ops : sent < MaxSent /\ Submit(op)
  <2>1. CASE Qemu
    BY <2>1 DEF Qemu, QemuLaunch, Reset, QemuFill, QemuExit, SaveVM, LoadState
  <2>2. CASE Daemon
    BY <2>2 DEF Daemon, DaemonLoop, DaemonStart, DaemonAttach, DaemonSizes,
                DaemonVulkan, Peek, Skip, BlindSkip, DaemonExit
  <2>3. CASE Kext
    BY <2>3 DEF Kext, KextStarting, AttachCheck, AttachSizes, SendHello,
                HelloFails, PollEmpty, GiveUp, SendPing, KextStop, Ops
  <2> QED BY <2>1, <2>2, <2>3 DEF Next
<1> QED BY <1>2, <1>3, <1>4, <1>5, <1>6, <1>7, <1>8, <1>9, <1>10, <1>11

\* Every step, and every stutter, keeps the types.
LEMMA NextType ==
    ASSUME TypeInv, [Next]_vars
    PROVE  TypeInv'
<1>1. CASE Next
  BY <1>1, RegionStep, QemuStep, KextStep, DaemonStep, HistoryStep,
     CompletionsStep
  DEF TypeInv
<1>2. CASE UNCHANGED vars
  <2>1. CompletionsInv'
    BY <1>2, CompletionsKept DEF vars
  <2>2. RegionInv' /\ QemuInv' /\ KextInv'
    BY <1>2 DEF TypeInv, vars, region, cmdVars, compVars, qemuVars, daemonVars,
       kextVars, RegionInv, Untouched, RingsTyped, QemuInv, KextInv, Kext0,
       SizesKnown
  <2>3. DaemonInv' /\ HistoryInv'
    BY <1>2 DEF TypeInv, vars, daemonVars, history, DaemonInv, HistoryInv
  <2> QED BY <2>1, <2>2, <2>3 DEF TypeInv
<1> QED BY <1>1, <1>2

\* Header, rings, positions and caches keep their types, whoever initialises
\* the region while the others work with it.
THEOREM TypeCorrect == Spec => []TypeOK
<1>1. TypeInv => TypeOK
  <2> SUFFICES ASSUME TypeInv PROVE TypeOK
    OBVIOUS
  <2>1. /\ shm_size \in {0, QemuMem, DaemonMem}
        /\ hdr.ready \in BOOLEAN
        /\ hdr.sizes \in {NoSizes, Sizes(RingSlots, QemuMem),
                          Sizes(RingSlots, DaemonMem)}
    BY DEF TypeInv, RegionInv, Known
  <2>2. cmd_head \in Nat /\ cmd_tail \in Nat /\ comp_head \in Nat /\ comp_tail \in Nat
    BY SizesFacts DEF TypeInv, RegionInv, Untouched, RingsTyped
  <2>3. hdr.ready =>
            /\ cmd_ring \in [0 .. hdr.sizes.cmd - 1 -> Message]
            /\ {cmd_head, cmd_tail} \subseteq 0 .. hdr.sizes.cmd - 1
            /\ comp_ring \in [0 .. hdr.sizes.comp - 1 -> 0 .. MaxSent]
            /\ {comp_head, comp_tail} \subseteq 0 .. hdr.sizes.comp - 1
    <3>1. hdr.ready => hdr.sizes.cmd = CmdSize /\ hdr.sizes.comp = CompSize
      BY SizesFacts DEF TypeInv, RegionInv
    <3> QED BY <3>1, RingsThere DEF RingsTyped, Numbers
  <2>4. /\ qstate \in {"off", "mapped", "cleared", "load", "on"}
        /\ qstate = "on" => saved = NotSaved
        /\ qstate = "load" => saved # NotSaved
        /\ boots \in 0 .. MaxBoots
    BY DEF TypeInv, QemuInv
  <2>5. /\ guest_status \in {"none", "INIT", "READY", "ERROR"}
        /\ kstate \in {"off", "attach", "sizes", "hello", "poll", "ready",
                       "stopped"}
        /\ polls \in 0 .. MaxPolls
        /\ hello \in Numbers /\ answer \in Numbers
    BY DEF TypeInv, KextInv, Kexts, Kext0
  <2>6. /\ dstate \in {"off", "mapped", "cleared", "attach", "sizes", "vulkan",
                       "poll", "process", "consume"}
        /\ held \in Message
        /\ starts \in 0 .. MaxStarts
    BY DEF TypeInv, DaemonInv
  <2>7. /\ sent \in Numbers
        /\ {submitted, handled, replied, received} \subseteq Seq(1 .. MaxSent)
        /\ disturbed \subseteq {"busy", "late", "blind", "reload"}
    BY DEF TypeInv, HistoryInv
  <2>8. {hello, answer, sent} \subseteq 0 .. MaxSent
    BY <2>5, <2>7 DEF Numbers
  <2> QED BY <2>1, <2>2, <2>3, <2>4, <2>5, <2>6, <2>7, <2>8 DEF TypeOK
<1>2. Init => TypeInv
  BY InitType
<1>3. TypeInv /\ [Next]_vars => TypeInv'
  BY NextType
<1> QED BY <1>1, <1>2, <1>3, PTL DEF Spec

\* A party attaches once and never looks at the header again: whatever memory
\* QEMU and the daemon give the region, and however often either has
\* initialised it since then, the sizes of the two rings that it has cached are
\* those of the header, unless the daemon has attached to zeros.
THEOREM CachedCorrect == Spec => []CachedFromHeader
<1>1. TypeInv => CachedFromHeader
  <2> SUFFICES ASSUME TypeInv, hdr.ready PROVE CachedFromHeader
    BY DEF CachedFromHeader
  <2>1. hdr.sizes \in Known
    BY DEF TypeInv, RegionInv
  <2>2. Attached /\ ~ Blind => dring \in Known
    BY DEF Attached, Blind, TypeInv, DaemonInv
  <2>3. kstate \in {"poll", "ready"} => kring \in Known
    BY DEF TypeInv, KextInv, SizesKnown, Kext0
  <2> QED BY <2>1, <2>2, <2>3, SizesFacts DEF CachedFromHeader, SameRings
<1>2. Init => TypeInv
  BY InitType
<1>3. TypeInv /\ [Next]_vars => TypeInv'
  BY NextType
<1> QED BY <1>1, <1>2, <1>3, PTL DEF Spec

-----------------------------------------------------------------------------
(* Delivery.                                                               *)

\* Elements move from one sequence to the next without changing the whole.
LEMMA AppendMoves ==
    ASSUME NEW S, NEW a \in Seq(S), NEW b \in Seq(S), NEW x \in S
    PROVE  /\ Append(a \o b, x) = a \o Append(b, x)
           /\ Append(a, x) \o b = a \o (<<x>> \o b)
<1> DEFINE one == <<x>>
<1>1. one \in Seq(S)
  OBVIOUS
<1>2. a \o b \in Seq(S)
  BY ConcatProperties
<1>3. /\ Append(a \o b, x) = (a \o b) \o one
      /\ Append(b, x) = b \o one
      /\ Append(a, x) = a \o one
  BY <1>2, AppendIsConcat
<1> HIDE DEF one
<1>4. /\ (a \o b) \o one = a \o (b \o one)
      /\ (a \o one) \o b = a \o (one \o b)
  <2>1. (a \o b) \o one = a \o (b \o one)
    BY <1>1, ConcatAssociative
  <2>2. (a \o one) \o b = a \o (one \o b)
    BY <1>1, ConcatAssociative
  <2> QED BY <2>1, <2>2
<1> QED BY <1>3, <1>4 DEF one

\* The sequence s has x between a and b.
Joined(s, a, x, b) == s = a \o (<<x>> \o b)

\* The element in the middle is one of the whole.
LEMMA InSecond ==
    ASSUME NEW S, NEW a \in Seq(S), NEW b \in Seq(S), NEW x \in S,
           NEW s, Joined(s, a, x, b)
    PROVE  \E j \in DOMAIN s : s[j] = x
<1> DEFINE one == <<x>>
           w == one \o b
<1>1. one \in Seq(S) /\ Len(one) = 1 /\ one[1] = x
  OBVIOUS
<1> HIDE DEF one
<1>2. w \in Seq(S) /\ Len(w) = 1 + Len(b) /\ w[1] = x
  <2>1. /\ one \o b \in Seq(S) /\ Len(one \o b) = Len(one) + Len(b)
        /\ \A i \in 1 .. Len(one) + Len(b) :
              (one \o b)[i] = IF i <= Len(one) THEN one[i] ELSE b[i - Len(one)]
    BY <1>1, ConcatProperties
  <2>2. 1 \in 1 .. Len(one) + Len(b) /\ 1 <= Len(one)
    BY <1>1
  <2> QED BY <1>1, <2>1, <2>2
<1> HIDE DEF w
<1>3. /\ a \o w \in Seq(S) /\ Len(a \o w) = Len(a) + Len(w)
      /\ \A i \in 1 .. Len(a) + Len(w) :
            (a \o w)[i] = IF i <= Len(a) THEN a[i] ELSE w[i - Len(a)]
  <2>1. w \in Seq(S)
    BY <1>2
  <2> QED BY <2>1, ConcatProperties
<1>4. /\ Len(a) + 1 \in 1 .. Len(a) + Len(w) /\ ~ (Len(a) + 1 <= Len(a))
      /\ (Len(a) + 1) - Len(a) = 1
  BY <1>2
<1>5. (a \o w)[Len(a) + 1] = x
  BY <1>2, <1>3, <1>4
<1>6. Len(a) + 1 \in DOMAIN (a \o w)
  BY <1>3, <1>4
<1>7. s = a \o w
  BY DEF w, one, Joined
<1> QED BY <1>5, <1>6, <1>7

\* The two windows are sequences.
LEMMA WindowsTyped ==
    ASSUME RingsTyped
    PROVE  Commands \in Seq(Numbers) /\ Completions \in Seq(Numbers)
<1>1. CmdNumbers \in [0 .. CmdSize - 1 -> Numbers]
  <2>1. \A m \in Message : m.n \in Numbers
    BY Bounds DEF Message, Zero, Numbers
  <2>2. \A i \in 0 .. CmdSize - 1 : cmd_ring[i] \in Message
    BY DEF RingsTyped
  <2> QED BY <2>1, <2>2 DEF CmdNumbers
<1>2. /\ Ring(Numbers, CmdSize, CmdNumbers, cmd_head, cmd_tail)
      /\ Ring(Numbers, CompSize, comp_ring, comp_head, comp_tail)
  BY <1>1, SizesFacts DEF Ring, RingsTyped
<1>3. InRing(CmdNumbers, cmd_head, cmd_tail, CmdSize) \in Seq(Numbers)
  BY <1>2, WindowIs, Zenon
<1>4. InRing(comp_ring, comp_head, comp_tail, CompSize) \in Seq(Numbers)
  BY <1>2, WindowIs, Zenon
<1> QED BY <1>3, <1>4 DEF Commands, Completions

\* The first element of a window that is not empty, and an empty window.
LEMMA EmptyWindows ==
    ASSUME RingsTyped
    PROVE  /\ cmd_head = cmd_tail => Avail(cmd_head, cmd_tail, CmdSize) = 0
           /\ comp_head = comp_tail => Avail(comp_head, comp_tail, CompSize) = 0
BY SizesFacts, AvailIs DEF RingsTyped

\* A daemon that initialises the region under no guest forgets everything.
LEMMA DaemonForgets ==
    ASSUME DaemonClear \/ DaemonFill, Calm'
    PROVE  /\ qstate = "off" /\ qstate' = "off"
           /\ submitted' = <<>> /\ handled' = <<>>
           /\ replied' = <<>> /\ received' = <<>>
           /\ Commands' = <<>> /\ Completions' = <<>>
           /\ dstate' \notin {"process", "consume"}
<1>1. qstate = "off" /\ Forget
  BY DEF DaemonClear, DaemonFill, Late, Calm
<1>2. Commands' = <<>> /\ Completions' = <<>>
  BY EmptyRings DEF DaemonClear, DaemonFill, Clear, Fill
<1> QED BY <1>1, <1>2 DEF DaemonClear, DaemonFill, Forget, qemuVars

\* A reset between two commands starts afresh.
LEMMA ClearDelivery ==
    ASSUME TypeInv, QemuClear
    PROVE  DeliveryInv'
<1> SUFFICES ASSUME Calm'
             PROVE  /\ CommandsInv' /\ RepliesInv' /\ HeldInv' /\ FreshInv'
                    /\ RepliedInv'
  BY DEF DeliveryInv
<1>1. dstate \notin {"process", "consume"} /\ dstate' = dstate
  BY DEF QemuClear, daemonVars, Calm
<1>2. /\ submitted' = <<>> /\ handled' = <<>>
      /\ replied' = <<>> /\ received' = <<>>
      /\ qstate' = "cleared"
      /\ cmd_head' = 0 /\ cmd_tail' = 0 /\ comp_head' = 0 /\ comp_tail' = 0
  BY DEF QemuClear, Forget, Clear
<1>3. Commands' = <<>> /\ Completions' = <<>>
  BY <1>2, EmptyRings
<1>4. CommandsInv' /\ RepliesInv'
  BY <1>2, <1>3 DEF CommandsInv, RepliesInv
<1>5. HeldInv' /\ FreshInv'
  BY <1>1, <1>2 DEF HeldInv, FreshInv
<1>6. RepliedInv'
  BY <1>2 DEF RepliedInv
<1> QED BY <1>4, <1>5, <1>6

\* Who submits.
Submits == \E op \in Ops : Accepts /\ sent < MaxSent /\ Submit(op)

\* The commands: what is submitted is appended at the end, what is handled
\* leaves at the beginning, and zeros are never skipped.
LEMMA CommandsStep ==
    ASSUME TypeInv, Next, ~ QemuClear, Calm', CommandsInv, HeldInv, FreshInv
    PROVE  CommandsInv'
<1>1. CASE DaemonClear \/ DaemonFill
  <2>1. submitted' = <<>> /\ handled' = <<>> /\ Commands' = <<>>
    BY <1>1, DaemonForgets
  <2> QED BY <2>1 DEF CommandsInv
<1>2. CASE QemuFill
  <2>1. submitted' = <<>> /\ handled' = <<>>
    BY <1>2 DEF QemuFill, FreshInv, history
  <2>2. Commands' = <<>>
    BY <1>2, EmptyRings DEF QemuFill, Fill
  <2> QED BY <2>1, <2>2 DEF CommandsInv
<1>3. CASE qstate = "on" /\ Submits
  <2>1. RingsTyped
    BY <1>3, RingsThere
  <2>2. PICK op \in Ops : Accepts /\ sent < MaxSent /\ Submit(op)
    BY <1>3 DEF Submits
  <2>3. Commands' = Append(Commands, sent + 1) /\ sent + 1 \in 1 .. MaxSent
    BY <2>1, <2>2, CommandAppended
  <2>4. submitted' = Append(submitted, sent + 1) /\ handled' = handled
    BY <2>2 DEF Submit
  <2>5. Commands \in Seq(Numbers) /\ handled \in Seq(Numbers) /\ sent + 1 \in Numbers
    BY <2>1, <2>3, WindowsTyped, Bounds DEF TypeInv, HistoryInv, Numbers
  <2>6. Append(handled \o Commands, sent + 1) = handled \o Append(Commands, sent + 1)
    BY <2>5, AppendMoves
  <2> QED BY <2>3, <2>4, <2>6 DEF CommandsInv
<1>4. CASE Consume
  <2>1. RingsTyped /\ dring \in Known
    BY <1>4, KnownToLoop
  <2>2. Avail(cmd_head, cmd_tail, CmdSize) >= 1 /\ held = cmd_ring[cmd_head]
    BY <1>4 DEF Consume, HeldInv
  <2>3. /\ UNCHANGED <<cmd_ring, cmd_tail>>
        /\ cmd_head' = Mask(cmd_head + 1, CmdSize)
        /\ submitted' = submitted /\ handled' = Append(handled, held.n)
    BY <1>4, <2>1, SizesFacts DEF Consume
  <2>4. /\ Commands = <<held.n>> \o Commands' /\ held.n \in Numbers
        /\ Commands' \in Seq(Numbers)
    BY <2>1, <2>2, <2>3, FirstCommand
  <2>5. handled \in Seq(Numbers)
    BY Bounds DEF TypeInv, HistoryInv, Numbers
  <2>6. Append(handled, held.n) \o Commands' = handled \o (<<held.n>> \o Commands')
    BY <2>4, <2>5, AppendMoves
  <2> QED BY <2>3, <2>4, <2>6 DEF CommandsInv
<1>5. CASE Skip
  <2>1. RingsTyped /\ dring \in Known
    BY <1>5, KnownToLoop
  <2>2. /\ Avail(cmd_head, cmd_tail, CmdSize) >= 1
        /\ cmd_ring[cmd_head].n = 0
        /\ UNCHANGED <<cmd_ring, cmd_tail>>
        /\ cmd_head' = Mask(cmd_head + 1, CmdSize)
    BY <1>5, <2>1, SizesFacts DEF Skip, HeadMessage, Zero
  <2>3. Commands = <<0>> \o Commands' /\ 0 \in Numbers /\ Commands' \in Seq(Numbers)
    BY <2>1, <2>2, FirstCommand
  <2>4. handled \in Seq(Numbers)
    BY Bounds DEF TypeInv, HistoryInv, Numbers
  <2>5. \E j \in DOMAIN submitted : submitted[j] = 0
    <3>1. Joined(submitted, handled, 0, Commands')
      BY <2>3 DEF CommandsInv, Joined
    <3> QED BY <2>3, <2>4, <3>1, InSecond
  <2>6. submitted \in Seq(1 .. MaxSent)
    BY DEF TypeInv, HistoryInv
  <2>7. \A j \in DOMAIN submitted : submitted[j] \in 1 .. MaxSent
    <3> SUFFICES ASSUME NEW j \in DOMAIN submitted
                 PROVE  submitted[j] \in 1 .. MaxSent
      OBVIOUS
    <3>1. j \in 1 .. Len(submitted)
      BY <2>6
    <3> QED BY <2>6, <3>1, ElementOfSeq
  <2> QED BY <2>5, <2>7
<1>6. CASE UNCHANGED <<cmdVars, submitted, handled>>
  <2>1. Commands' = InRing(CmdNumbers', cmd_head', cmd_tail', CmdSize)
    BY DEF Commands
  <2>2. CmdNumbers' = CmdNumbers
    BY <1>6 DEF CmdNumbers, cmdVars
  <2> QED BY <1>6, <2>1, <2>2 DEF CommandsInv, Commands, cmdVars
<1>8. ~ BlindSkip
  BY SizesFacts, DisturbedGrows DEF BlindSkip, Blind, Calm, TypeInv, DaemonInv
<1>7. \/ DaemonClear \/ DaemonFill \/ QemuFill \/ Consume \/ Skip
      \/ qstate = "on" /\ Submits
      \/ UNCHANGED <<cmdVars, submitted, handled>>
  <2>1. CASE Qemu
    BY <2>1 DEF Qemu, QemuLaunch, Reset, QemuExit, SaveVM, LoadState, history
  <2>2. CASE Daemon
    BY <1>8, <2>2
    DEF Daemon, DaemonLoop, DaemonStart, DaemonAttach, DaemonSizes,
        DaemonVulkan, Peek, Process, DaemonExit, history
  <2>3. CASE Kext
    BY <2>3 DEF Kext, KextStarting, KextStart, AttachCheck, AttachSizes,
                SendHello, HelloFails, PollAnswer, PollEmpty, GiveUp, SendPing,
                KextStop, Submits, Ops, history
  <2> QED BY <2>1, <2>2, <2>3 DEF Next
<1> QED BY <1>1, <1>2, <1>3, <1>4, <1>5, <1>6, <1>7

\* The replies: what the daemon replies is appended at the end, what the guest
\* receives leaves at the beginning.
LEMMA RepliesStep ==
    ASSUME TypeInv, Next, ~ QemuClear, Calm', RepliesInv, FreshInv
    PROVE  RepliesInv'
<1>1. CASE DaemonClear \/ DaemonFill
  <2>1. replied' = <<>> /\ received' = <<>> /\ Completions' = <<>>
    BY <1>1, DaemonForgets
  <2> QED BY <2>1 DEF RepliesInv
<1>2. CASE QemuFill
  <2>1. replied' = <<>> /\ received' = <<>>
    BY <1>2 DEF QemuFill, FreshInv, history
  <2>2. Completions' = <<>>
    BY <1>2, EmptyRings DEF QemuFill, Fill
  <2> QED BY <2>1, <2>2 DEF RepliesInv
<1>3. CASE Process /\ Answered /\ CompRoom
  <2>1. RingsTyped
    BY <1>3, RingsThere DEF Process
  <2>2. Completions' = Append(Completions, held.n) /\ held.n \in 1 .. MaxSent
    BY <1>3, ReplyAppended
  <2>3. replied' = Append(replied, held.n) /\ received' = received
    BY <1>3 DEF Process
  <2>4. /\ Completions \in Seq(Numbers) /\ received \in Seq(Numbers)
        /\ held.n \in Numbers
    BY <2>1, <2>2, WindowsTyped, Bounds DEF TypeInv, HistoryInv, Numbers
  <2>5. Append(received \o Completions, held.n)
            = received \o Append(Completions, held.n)
    BY <2>4, AppendMoves
  <2> QED BY <2>2, <2>3, <2>5 DEF RepliesInv
<1>4. CASE PollAnswer
  <2> DEFINE c == comp_ring[comp_head]
  <2>1. /\ Completions = <<c>> \o Completions'
        /\ c \in 1 .. MaxSent /\ Completions' \in Seq(1 .. MaxSent)
    BY <1>4, FirstReply
  <2>2. replied' = replied /\ received' = Append(received, c)
    BY <1>4 DEF PollAnswer
  <2>3. received \in Seq(1 .. MaxSent)
    BY DEF TypeInv, HistoryInv
  <2> HIDE DEF c
  <2>4. Append(received, c) \o Completions' = received \o (<<c>> \o Completions')
    BY <2>1, <2>3, AppendMoves
  <2> QED BY <2>1, <2>2, <2>4 DEF RepliesInv
<1>5. CASE UNCHANGED <<compVars, replied, received>>
  <2>1. Completions' = InRing(comp_ring', comp_head', comp_tail', CompSize)
    BY DEF Completions
  <2> QED BY <1>5, <2>1 DEF RepliesInv, Completions, compVars
<1>6. \/ DaemonClear \/ DaemonFill \/ QemuFill \/ PollAnswer
      \/ Process /\ Answered /\ CompRoom
      \/ UNCHANGED <<compVars, replied, received>>
  <2>1. CASE Qemu
    BY <2>1 DEF Qemu, QemuLaunch, Reset, QemuExit, SaveVM, LoadState, history
  <2>2. CASE Daemon
    BY <2>2 DEF Daemon, DaemonLoop, DaemonStart, DaemonAttach, DaemonSizes,
                DaemonVulkan, Peek, Skip, BlindSkip, Process, Consume,
                DaemonExit, history, compVars
  <2>3. CASE Kext
    BY <2>3 DEF Kext, KextStarting, KextStart, AttachCheck, AttachSizes,
                SendHello, HelloFails, PollEmpty, GiveUp, SendPing, KextStop,
                Submit, history
  <2> QED BY <2>1, <2>2, <2>3 DEF Next
<1> QED BY <1>1, <1>2, <1>3, <1>4, <1>5, <1>6

\* The command that the daemon works at stays where it is.
LEMMA HeldStep ==
    ASSUME TypeInv, Next, ~ QemuClear, HeldInv, QuietInv
    PROVE  HeldInv'
<1> SUFFICES ASSUME dstate' \in {"process", "consume"}
             PROVE  /\ Avail(cmd_head', cmd_tail', CmdSize) >= 1
                    /\ held' = cmd_ring'[cmd_head']
  BY DEF HeldInv
<1>1. CASE Peek
  BY <1>1, KnownToLoop, SizesFacts DEF Peek, HeadMessage, cmdVars
<1>2. CASE qstate = "on" /\ Submits
  <2>1. RingsTyped
    BY <1>2, RingsThere
  <2>2. PICK op \in Ops : Accepts /\ sent < MaxSent /\ Submit(op)
    BY <1>2 DEF Submits
  <2>3. /\ Avail(cmd_head', cmd_tail', CmdSize)
             = Avail(cmd_head, cmd_tail, CmdSize) + 1
        /\ Avail(cmd_head, cmd_tail, CmdSize) >= 1 =>
              cmd_ring'[cmd_head'] = cmd_ring[cmd_head]
    BY <2>1, <2>2, CommandAppended
  <2>4. dstate' = dstate /\ held' = held
    BY <2>2 DEF Submit, daemonVars
  <2>5. Avail(cmd_head, cmd_tail, CmdSize) \in 0 .. CmdSize - 1
    BY <2>1, SizesFacts, AvailIs DEF RingsTyped
  <2> QED BY <2>3, <2>4, <2>5, SizesFacts DEF HeldInv
<1>3. CASE UNCHANGED <<cmdVars, held>> /\ dstate \in {"process", "consume"}
  BY <1>3 DEF HeldInv, cmdVars
<1>4. \/ Peek
      \/ qstate = "on" /\ Submits
      \/ UNCHANGED <<cmdVars, held>> /\ dstate \in {"process", "consume"}
  <2>1. CASE Qemu
    BY <2>1 DEF Qemu, QemuLaunch, Reset, QemuFill, QemuExit, SaveVM, LoadState,
                daemonVars, QuietInv
  <2>2. CASE Process
    BY <2>2 DEF Process
  <2>3. CASE DaemonStart \/ DaemonClear \/ DaemonFill
             \/ DaemonAttach \/ DaemonSizes \/ DaemonVulkan
             \/ Skip \/ BlindSkip \/ Consume \/ DaemonExit
    <3>1. dstate' \in {"off", "mapped", "cleared", "attach", "sizes", "vulkan",
                       "poll"}
      BY <2>3 DEF DaemonStart, DaemonClear, DaemonFill, DaemonAttach,
                  DaemonSizes, DaemonVulkan, Skip, BlindSkip, Consume,
                  DaemonExit, daemonVars
    <3> QED BY <3>1
  <2>4. CASE Kext
    BY <2>4 DEF Kext, KextStarting, KextStart, AttachCheck, AttachSizes,
                SendHello, HelloFails, PollAnswer, PollEmpty, GiveUp, SendPing,
                KextStop, Submits, Ops, daemonVars
  <2>5. \/ Qemu \/ Kext \/ Process \/ Peek
        \/ DaemonStart \/ DaemonClear \/ DaemonFill
        \/ DaemonAttach \/ DaemonSizes \/ DaemonVulkan
        \/ Skip \/ BlindSkip \/ Consume \/ DaemonExit
    BY DEF Next, Daemon, DaemonLoop
  <2> QED BY <2>1, <2>2, <2>3, <2>4, <2>5
<1> QED BY <1>1, <1>2, <1>3, <1>4

\* Nothing gets into a region that QEMU is just initialising.
LEMMA FreshStep ==
    ASSUME TypeInv, Next, ~ QemuClear, Calm', FreshInv
    PROVE  FreshInv'
<1> SUFFICES ASSUME qstate' = "cleared"
             PROVE  FreshInv'
  BY DEF FreshInv
<1>1. qstate = "cleared" /\ Daemon
  BY DEF Next, Qemu, QemuLaunch, Reset, ResetPhase, QemuFill, QemuExit, SaveVM,
         LoadState, Kext, KextStarting, KextStart, AttachCheck, AttachSizes,
         SendHello, HelloFails, PollAnswer, PollEmpty, GiveUp, SendPing, KextStop,
         Daemon, DaemonLoop, DaemonStart, DaemonClear, DaemonFill,
         DaemonAttach, DaemonSizes, DaemonVulkan, Peek, Skip, BlindSkip,
         Process, Consume, DaemonExit, qemuVars
<1>2. /\ cmd_head = cmd_tail /\ comp_head = comp_tail
      /\ submitted = <<>> /\ handled = <<>>
      /\ replied = <<>> /\ received = <<>>
      /\ dstate \notin {"process", "consume"}
  BY <1>1 DEF FreshInv
<1>3. Avail(cmd_head, cmd_tail, CmdSize) = 0
  BY <1>1, <1>2, RingsThere, EmptyWindows
<1>4. ~ (Peek \/ Skip \/ BlindSkip)
  BY <1>2, <1>3, KnownToLoop, SizesFacts DEF Peek, Skip, BlindSkip
<1>5. ~ (DaemonClear \/ DaemonFill \/ Process \/ Consume)
  <2>1. ~ (DaemonClear \/ DaemonFill)
    BY <1>1, DaemonForgets
  <2> QED BY <1>2, <2>1 DEF Process, Consume
<1>6. CASE DaemonStart
  BY <1>2, <1>6 DEF DaemonStart, FreshInv, cmdVars, compVars, history
<1>7. CASE DaemonAttach \/ DaemonSizes \/ DaemonVulkan \/ DaemonExit
  BY <1>2, <1>7 DEF DaemonAttach, DaemonSizes, DaemonVulkan, DaemonExit,
                    FreshInv, cmdVars, compVars, history
<1> QED BY <1>1, <1>4, <1>5, <1>6, <1>7 DEF Daemon, DaemonLoop

\* Whatever is replied to has been submitted: the daemon replies to the first
\* of the commands that are still in the ring.
LEMMA RepliedStep ==
    ASSUME TypeInv, Next, ~ QemuClear, Calm', CommandsInv, HeldInv, RepliedInv
    PROVE  RepliedInv'
<1>1. /\ submitted \in Seq(1 .. MaxSent) /\ replied \in Seq(1 .. MaxSent)
      /\ handled \in Seq(Numbers)
  BY Bounds DEF TypeInv, HistoryInv, Numbers
<1>2. CASE DaemonClear \/ DaemonFill
  <2>1. replied' = <<>>
    BY <1>2, DaemonForgets
  <2> QED BY <2>1 DEF RepliedInv
<1>3. CASE Process /\ Answered /\ CompRoom
  <2>1. RingsTyped
    BY <1>3, RingsThere DEF Process
  <2>2. Avail(cmd_head, cmd_tail, CmdSize) >= 1 /\ held = cmd_ring[cmd_head]
    BY <1>3 DEF Process, HeldInv
  <2>3. /\ Commands = <<held.n>> \o RestOfCommands /\ held.n \in Numbers
        /\ RestOfCommands \in Seq(Numbers)
    BY <2>1, <2>2, FirstPending
  <2>4. Joined(submitted, handled, held.n, RestOfCommands)
    BY <2>3 DEF CommandsInv, Joined
  <2>5. \E j \in DOMAIN submitted : submitted[j] = held.n
    BY <1>1, <2>3, <2>4, InSecond
  <2>6. replied' = Append(replied, held.n) /\ submitted' = submitted
    BY <1>3 DEF Process
  <2>7. ASSUME NEW i \in DOMAIN replied'
        PROVE  replied'[i] = held.n \/ (i \in DOMAIN replied /\ replied'[i] = replied[i])
    BY <1>1, <2>6, <2>7
  <2> QED BY <2>5, <2>6, <2>7 DEF RepliedInv
<1>4. CASE \E op \in Ops : Submit(op)
  <2>1. replied' = replied /\ submitted' = Append(submitted, sent + 1)
    BY <1>4 DEF Submit
  <2>2. ASSUME NEW j \in DOMAIN submitted
        PROVE  j \in DOMAIN submitted' /\ submitted'[j] = submitted[j]
    BY <1>1, <2>1, <2>2
  <2> QED BY <2>1, <2>2 DEF RepliedInv
<1>5. CASE UNCHANGED <<submitted, replied>>
  BY <1>5 DEF RepliedInv
<1>6. \/ DaemonClear \/ DaemonFill
      \/ Process /\ Answered /\ CompRoom
      \/ \E op \in Ops : Submit(op)
      \/ UNCHANGED <<submitted, replied>>
  <2>1. CASE Qemu
    BY <2>1 DEF Qemu, QemuLaunch, Reset, QemuFill, QemuExit, SaveVM, LoadState,
                history
  <2>2. CASE Daemon
    BY <2>2 DEF Daemon, DaemonLoop, DaemonStart, DaemonAttach, DaemonSizes,
                DaemonVulkan, Peek, Skip, BlindSkip, Process, Consume,
                DaemonExit, history
  <2>3. CASE Kext
    BY <2>3 DEF Kext, KextStarting, KextStart, AttachCheck, AttachSizes,
                SendHello, HelloFails, PollAnswer, PollEmpty, GiveUp, SendPing,
                KextStop, Ops, history
  <2> QED BY <2>1, <2>2, <2>3 DEF Next
<1> QED BY <1>2, <1>3, <1>4, <1>5, <1>6

\* Nothing has been sent.
LEMMA InitDelivery == Init => DeliveryInv
<1> SUFFICES ASSUME Init PROVE DeliveryInv
  OBVIOUS
<1>1. /\ submitted = <<>> /\ handled = <<>> /\ replied = <<>> /\ received = <<>>
      /\ cmd_head = 0 /\ cmd_tail = 0 /\ comp_head = 0 /\ comp_tail = 0
      /\ qstate = "off" /\ dstate = "off"
  BY DEF Init
<1>2. Commands = <<>> /\ Completions = <<>>
  <2>1. 0 \in 0 .. CmdSize - 1 /\ 0 \in 0 .. CompSize - 1
    BY SizesFacts
  <2> QED BY <1>1, <2>1, SizesFacts, WindowEmpty DEF Commands, Completions
<1>3. CommandsInv /\ RepliesInv
  BY <1>1, <1>2 DEF CommandsInv, RepliesInv
<1>4. HeldInv /\ FreshInv /\ RepliedInv
  BY <1>1 DEF HeldInv, FreshInv, RepliedInv
<1> QED BY <1>3, <1>4 DEF DeliveryInv

\* Every step, and every stutter, keeps the account of the messages.
LEMMA NextDelivery ==
    ASSUME IInv, [Next]_vars
    PROVE  DeliveryInv'
<1>1. TypeInv /\ DeliveryInv
  BY DEF IInv
<1>2. CASE QemuClear
  BY <1>1, <1>2, ClearDelivery
<1>3. CASE Next /\ ~ QemuClear
  <2> SUFFICES ASSUME Calm'
               PROVE  /\ CommandsInv' /\ RepliesInv' /\ HeldInv' /\ FreshInv'
                      /\ RepliedInv'
    BY DEF DeliveryInv
  <2>1. Calm
    BY <1>3, DisturbedGrows DEF Calm
  <2>2. CommandsInv /\ RepliesInv /\ HeldInv /\ FreshInv /\ RepliedInv
    BY <1>1, <2>1 DEF DeliveryInv
  <2>3. CommandsInv' /\ RepliesInv'
    BY <1>1, <1>3, <2>2, CommandsStep, RepliesStep
  <2>4. HeldInv' /\ FreshInv'
    <3>1. QuietInv
      BY <2>2 DEF FreshInv, QuietInv
    <3> QED BY <1>1, <1>3, <2>2, <3>1, HeldStep, FreshStep
  <2>5. RepliedInv'
    BY <1>1, <1>3, <2>2, RepliedStep
  <2> QED BY <2>3, <2>4, <2>5
<1>4. CASE UNCHANGED vars
  <2> USE <1>4 DEF vars, region, cmdVars, compVars, qemuVars, daemonVars,
                   kextVars, history
  <2>1. Commands' = Commands
    <3>1. Commands' = InRing(CmdNumbers', cmd_head', cmd_tail', CmdSize)
      BY DEF Commands
    <3>2. CmdNumbers' = CmdNumbers
      BY DEF CmdNumbers
    <3> QED BY <3>1, <3>2 DEF Commands
  <2>2. Completions' = Completions
    <3>1. Completions' = InRing(comp_ring', comp_head', comp_tail', CompSize)
      BY DEF Completions
    <3> QED BY <3>1 DEF Completions
  <2>3. Calm' = Calm /\ CommandsInv' = CommandsInv /\ RepliesInv' = RepliesInv
    BY <2>1, <2>2 DEF Calm, CommandsInv, RepliesInv
  <2>4. (HeldInv => HeldInv') /\ (FreshInv => FreshInv')
    BY DEF HeldInv, FreshInv
  <2>5. RepliedInv => RepliedInv'
    BY DEF RepliedInv
  <2> QED BY <1>1, <2>3, <2>4, <2>5 DEF DeliveryInv
<1> QED BY <1>2, <1>3, <1>4

\* The inductive invariant holds of every session.
THEOREM InvariantHolds == Spec => []IInv
<1>1. Init => IInv
  BY InitType, InitDelivery DEF IInv
<1>2. IInv /\ [Next]_vars => IInv'
  BY NextType, NextDelivery DEF IInv
<1> QED BY <1>1, <1>2, PTL DEF Spec

\* With the sizes of a ready header the windows are those of the properties.
LEMMA PendingIs ==
    ASSUME TypeInv, hdr.ready
    PROVE  PendingCommands = Commands /\ PendingReplies = Completions
<1>1. hdr.sizes.cmd = CmdSize /\ hdr.sizes.comp = CompSize
  BY SizesFacts DEF TypeInv, RegionInv
<1>2. RingsTyped
  BY RingsThere
<1>3. PendingReplies = Completions
  BY <1>1 DEF PendingReplies, Completions
<1> DEFINE n == Avail(cmd_head, cmd_tail, CmdSize)
           slot(i) == Mask(cmd_head + i - 1, CmdSize)
           ms == InRing(cmd_ring, cmd_head, cmd_tail, CmdSize)
<1>4. Ring(Message, CmdSize, cmd_ring, cmd_head, cmd_tail)
  BY <1>2, SizesFacts DEF Ring, RingsTyped
<1>5. \A i \in 1 .. n : slot(i) \in 0 .. CmdSize - 1
  BY <1>4, WindowIs
<1>6. ms = [i \in 1 .. n |-> cmd_ring[slot(i)]]
  BY DEF InRing
<1>7. Commands = [i \in 1 .. n |-> CmdNumbers[slot(i)]]
  BY DEF Commands, InRing
<1>8. PendingCommands = [i \in DOMAIN ms |-> ms[i].n]
  BY <1>1 DEF PendingCommands
<1> HIDE DEF n, slot, ms
<1>9. \A i \in 1 .. n : ms[i].n = CmdNumbers[slot(i)]
  BY <1>5, <1>6 DEF CmdNumbers
<1>10. DOMAIN ms = 1 .. n
  BY <1>6
<1>11. PendingCommands = Commands
  BY <1>7, <1>8, <1>9, <1>10
<1> QED BY <1>3, <1>11

\* Commands of a boot are handled once, in order and without loss, and the
\* replies that found room reach the guest in the same way, through any number
\* of resets, restarts of VM and daemon, reloads, saves and restores that do
\* not strike inside a command or inside the daemon's attach, or start the
\* daemon under a running guest.
THEOREM DeliveryCorrect == Spec => [](SessionDelivered /\ RepliesDelivered)
<1>1. IInv => SessionDelivered /\ RepliesDelivered
  BY PendingIs DEF IInv, DeliveryInv, Calm, CommandsInv, RepliesInv,
     SessionDelivered, RepliesDelivered
<1>2. Spec => []IInv
  BY InvariantHolds
<1> QED BY <1>1, <1>2, PTL

-----------------------------------------------------------------------------
(* Order.                                                                  *)

\* The sequence w is x followed by b.
Cons(w, x, b) ==
    /\ DOMAIN w = 1 .. Len(b) + 1
    /\ w[1] = x
    /\ \A i \in 1 .. Len(b) : w[i + 1] = b[i]

\* What an element put in front is.
LEMMA ConsIs ==
    ASSUME NEW S, NEW x \in S, NEW b \in Seq(S)
    PROVE  Cons(<<x>> \o b, x, b)
<1> DEFINE one == <<x>>
           w == one \o b
<1>1. one \in Seq(S) /\ Len(one) = 1 /\ one[1] = x
  OBVIOUS
<1> HIDE DEF one
<1>2. /\ w \in Seq(S) /\ Len(w) = Len(one) + Len(b)
      /\ \A i \in 1 .. Len(one) + Len(b) :
            w[i] = IF i <= Len(one) THEN one[i] ELSE b[i - Len(one)]
  BY <1>1, ConcatProperties
<1> HIDE DEF w
<1>3. Len(b) \in Nat
  OBVIOUS
<1>4. DOMAIN w = 1 .. Len(b) + 1
  BY <1>1, <1>2, <1>3
<1>5. w[1] = x
  <2>1. 1 \in 1 .. Len(one) + Len(b) /\ 1 <= Len(one)
    BY <1>1, <1>3
  <2> QED BY <1>1, <1>2, <2>1
<1>6. ASSUME NEW i \in 1 .. Len(b) PROVE w[i + 1] = b[i]
  <2>1. /\ i + 1 \in 1 .. Len(one) + Len(b) /\ ~ (i + 1 <= Len(one))
        /\ (i + 1) - Len(one) = i
    BY <1>1, <1>3
  <2> QED BY <1>2, <2>1
<1> QED BY <1>4, <1>5, <1>6 DEF Cons, w, one

\* The sequence c is a followed by x; in it only elements of a come before
\* others.
AppendOf(c, a, x) ==
    /\ \A j \in DOMAIN c : c[j] = x \/ (j \in DOMAIN a /\ c[j] = a[j])
    /\ \A i, j \in DOMAIN c : i < j => i \in DOMAIN a /\ c[i] = a[i]

\* What an element put at the end is.
LEMMA AppendIs ==
    ASSUME NEW S, NEW a \in Seq(S), NEW x \in S
    PROVE  AppendOf(Append(a, x), a, x)
<1> DEFINE c == Append(a, x)
           n == Len(a)
<1>1. /\ DOMAIN c = 1 .. n + 1 /\ c[n + 1] = x
      /\ \A i \in 1 .. n : c[i] = a[i]
      /\ DOMAIN a = 1 .. n /\ n \in Nat
  OBVIOUS
<1> HIDE DEF c, n
<1>2. ASSUME NEW j \in DOMAIN c
      PROVE  c[j] = x \/ (j \in DOMAIN a /\ c[j] = a[j])
  <2>1. j = n + 1 \/ j \in 1 .. n
    BY <1>1
  <2> QED BY <1>1, <2>1
<1>3. ASSUME NEW i \in DOMAIN c, NEW j \in DOMAIN c, i < j
      PROVE  i \in DOMAIN a /\ c[i] = a[i]
  <2>1. i \in 1 .. n
    BY <1>1, <1>3
  <2> QED BY <1>1, <2>1
<1> QED BY <1>2, <1>3 DEF AppendOf, c

\* The first of the waiting elements may join those before it, or go.
LEMMA FirstInLine ==
    ASSUME NEW a \in Seq(Nat), NEW x \in Nat, NEW b \in Seq(Nat),
           InLine(a, <<x>> \o b)
    PROVE  InLine(Append(a, x), b) /\ InLine(a, b)
<1> DEFINE w == <<x>> \o b
           c == Append(a, x)
<1>1. Cons(w, x, b)
  BY ConsIs
<1>2. InLine(a, w)
  OBVIOUS
<1> HIDE DEF w
<1>3. AppendOf(c, a, x)
  BY AppendIs
<1> HIDE DEF c
<1>4. DOMAIN b = 1 .. Len(b) /\ Len(b) \in Nat
  OBVIOUS
<1>5. 1 \in DOMAIN w /\ w[1] = x
  BY <1>1, <1>4 DEF Cons
<1>6. ASSUME NEW j \in DOMAIN b
      PROVE  j + 1 \in DOMAIN w /\ w[j + 1] = b[j] /\ 1 < j + 1
  BY <1>1, <1>4 DEF Cons
<1>7. Rising(b)
  <2> SUFFICES ASSUME NEW i \in DOMAIN b, NEW j \in DOMAIN b, i < j, b[j] # 0
               PROVE  b[i] < b[j]
    BY DEF Rising
  <2>1. i + 1 \in DOMAIN w /\ j + 1 \in DOMAIN w /\ i + 1 < j + 1
    BY <1>4, <1>6
  <2>2. w[i + 1] < w[j + 1]
    BY <1>2, <1>6, <2>1 DEF InLine, Rising
  <2> QED BY <1>6, <2>2
<1>8. ASSUME NEW j \in DOMAIN b, b[j] # 0
      PROVE  x < b[j] /\ \A i \in DOMAIN a : a[i] < b[j]
  <2>1. w[1] < w[j + 1]
    BY <1>2, <1>5, <1>6, <1>8 DEF InLine, Rising
  <2> QED BY <1>2, <1>5, <1>6, <1>8, <2>1 DEF InLine
<1>9. Rising(c)
  <2> SUFFICES ASSUME NEW i \in DOMAIN c, NEW j \in DOMAIN c, i < j, c[j] # 0
               PROVE  c[i] < c[j]
    BY DEF Rising
  <2>1. i \in DOMAIN a /\ c[i] = a[i] /\ (c[j] = x \/ (j \in DOMAIN a /\ c[j] = a[j]))
    BY <1>3 DEF AppendOf
  <2> QED BY <1>2, <1>5, <2>1 DEF InLine, Rising
<1>10. ASSUME NEW i \in DOMAIN c, NEW j \in DOMAIN b, b[j] # 0
       PROVE  c[i] < b[j]
  <2>1. c[i] = x \/ (i \in DOMAIN a /\ c[i] = a[i])
    BY <1>3 DEF AppendOf
  <2> QED BY <1>8, <1>10, <2>1
<1>11. InLine(c, b)
  BY <1>7, <1>9, <1>10 DEF InLine
<1>12. InLine(a, b)
  BY <1>2, <1>7, <1>8 DEF InLine
<1> QED BY <1>11, <1>12 DEF c

\* A new number beyond all others joins the waiting ones.
LEMMA LastInLine ==
    ASSUME NEW a \in Seq(Nat), NEW b \in Seq(Nat), NEW n \in Nat,
           InLine(a, b), UpTo(a, n), UpTo(b, n)
    PROVE  InLine(a, Append(b, n + 1)) /\ UpTo(Append(b, n + 1), n + 1)
<1> DEFINE c == Append(b, n + 1)
<1>1. AppendOf(c, b, n + 1)
  BY AppendIs
<1> HIDE DEF c
<1>2. /\ \A i \in DOMAIN a : a[i] \in Nat
      /\ \A i \in DOMAIN b : b[i] \in Nat
  OBVIOUS
<1>3. /\ \A i \in DOMAIN a : a[i] < n + 1
      /\ \A i \in DOMAIN b : b[i] < n + 1
  BY <1>2 DEF UpTo
<1>4. ASSUME NEW j \in DOMAIN c
      PROVE  c[j] = n + 1 \/ (j \in DOMAIN b /\ c[j] = b[j])
  BY <1>1 DEF AppendOf
<1>5. Rising(c)
  <2> SUFFICES ASSUME NEW i \in DOMAIN c, NEW j \in DOMAIN c, i < j, c[j] # 0
               PROVE  c[i] < c[j]
    BY DEF Rising
  <2>1. i \in DOMAIN b /\ c[i] = b[i]
    BY <1>1 DEF AppendOf
  <2> QED BY <1>3, <1>4, <2>1 DEF InLine, Rising
<1>6. ASSUME NEW i \in DOMAIN a, NEW j \in DOMAIN c, c[j] # 0
      PROVE  a[i] < c[j]
  BY <1>3, <1>4, <1>6 DEF InLine
<1>7. InLine(a, c)
  BY <1>5, <1>6 DEF InLine
<1>8. UpTo(c, n + 1)
  <2> SUFFICES ASSUME NEW j \in DOMAIN c PROVE c[j] <= n + 1
    BY DEF UpTo
  <2> QED BY <1>2, <1>3, <1>4
<1> QED BY <1>7, <1>8 DEF c

\* Nothing but zeros may wait behind a rising sequence.
LEMMA ZerosInLine ==
    ASSUME NEW a, NEW b, Rising(a), \A j \in DOMAIN b : b[j] = 0
    PROVE  InLine(a, b)
BY DEF InLine, Rising

\* A number at the end of a sequence of numbers up to a bound.
LEMMA UpToAppend ==
    ASSUME NEW a \in Seq(Nat), NEW x \in Nat, NEW n \in Nat, UpTo(a, n), x <= n
    PROVE  UpTo(Append(a, x), n)
<1>1. \A i \in 1 .. Len(a) : a[i] <= n
  BY DEF UpTo
<1> QED BY <1>1 DEF UpTo

\* Numbers up to a bound are so up to a higher one.
LEMMA UpToMore ==
    ASSUME NEW a \in Seq(Nat), NEW n \in Nat, UpTo(a, n)
    PROVE  UpTo(a, n + 1)
<1>1. \A i \in DOMAIN a : a[i] \in Nat
  OBVIOUS
<1> QED BY <1>1 DEF UpTo

\* A sequence of elements of a set is one of those of a larger set.
LEMMA SeqLarger ==
    ASSUME NEW S, NEW T, S \subseteq T, NEW s \in Seq(S)
    PROVE  s \in Seq(T)
<1>1. \A i \in 1 .. Len(s) : s[i] \in T
  BY ElementOfSeq
<1> QED BY <1>1

\* The numbers of the model are natural numbers.
LEMMA NumbersAre ==
    ASSUME TypeInv
    PROVE  /\ handled \in Seq(Nat) /\ sent \in Nat /\ held.n \in Nat
           /\ RingsTyped => Commands \in Seq(Nat)
<1>1. Numbers \subseteq Nat /\ 1 .. MaxSent \subseteq Nat
  BY Bounds DEF Numbers
<1>2. \A m \in Message : m.n \in Nat
  BY Bounds DEF Message, Zero
<1>3. handled \in Seq(Nat) /\ sent \in Nat
  <2>1. handled \in Seq(1 .. MaxSent)
    BY DEF TypeInv, HistoryInv
  <2>2. handled \in Seq(Nat)
    BY <1>1, <2>1, SeqLarger
  <2> QED BY <1>1, <2>2 DEF TypeInv, HistoryInv
<1>4. held.n \in Nat
  BY <1>2 DEF TypeInv, DaemonInv
<1>5. ASSUME RingsTyped PROVE Commands \in Seq(Nat)
  <2> DEFINE c == Commands
  <2>1. c \in Seq(Numbers)
    BY <1>5, WindowsTyped
  <2> HIDE DEF c
  <2>2. c \in Seq(Nat)
    BY <1>1, <2>1, SeqLarger
  <2> QED BY <2>2 DEF c
<1> QED BY <1>3, <1>4, <1>5

\* An empty ring behind a rising sequence, and a single number.
LEMMA NoneInLine ==
    /\ \A a : Rising(a) => InLine(a, <<>>)
    /\ \A x \in Nat : InLine(Append(<<>>, x), <<>>)
    /\ \A n : UpTo(<<>>, n)
<1>1. \A a : Rising(a) => InLine(a, <<>>)
  BY ZerosInLine
<1>2. ASSUME NEW x \in Nat PROVE Rising(Append(<<>>, x))
  <2>1. DOMAIN Append(<<>>, x) = 1 .. 1
    OBVIOUS
  <2> QED BY <2>1 DEF Rising
<1> QED BY <1>1, <1>2 DEF UpTo

\* A clearing leaves a ring of zeros and nothing in it.
LEMMA ClearOrder ==
    ASSUME TypeInv, OrderInv, QemuClear \/ DaemonClear
    PROVE  OrderInv'
<1>1. /\ cmd_ring' = Wiped
      /\ cmd_head' = 0 /\ cmd_tail' = 0 /\ comp_head' = 0 /\ comp_tail' = 0
  BY DEF QemuClear, DaemonClear, Clear
<1>2. Commands' = <<>>
  BY <1>1, EmptyRings
<1>3. WipedFrom(0)' /\ WipedFrom(cmd_tail)'
  BY <1>1 DEF WipedFrom, Wiped, CmdSize
<1>4. sent' = sent /\ (handled' = handled \/ handled' = <<>>)
  BY DEF QemuClear, DaemonClear, Forget, Late
<1>5. Rising(handled') /\ UpTo(handled', sent')
  BY <1>4 DEF OrderInv, Rising, UpTo
<1>6. InLine(handled', Commands') /\ UpTo(Commands', sent')
  BY <1>2, <1>5, NoneInLine
<1>7. ASSUME dstate' \in {"process", "consume"}
      PROVE  held'.n <= sent' /\ Swept'
  <2>1. /\ QemuClear /\ dstate \in {"process", "consume"} /\ held' = held
        /\ handled' = <<>>
    BY <1>7 DEF QemuClear, DaemonClear, daemonVars, Forget
  <2>2. held.n <= sent
    BY <2>1, RingsThere DEF OrderInv, WaitingInv
  <2>3. InLine(Append(handled', held'.n), Commands')
    BY <1>2, <2>1, NumbersAre, NoneInLine
  <2> QED BY <1>1, <1>3, <1>4, <2>1, <2>2, <2>3 DEF Swept
<1> QED BY <1>3, <1>5, <1>6, <1>7 DEF OrderInv, WaitingInv

\* A filling leaves nothing in the ring either.  A command that the daemon has
\* in hand meanwhile has been wiped by QEMU's clearing.
LEMMA FillOrder ==
    ASSUME TypeInv, OrderInv, QemuFill \/ DaemonFill
    PROVE  OrderInv'
<1>1. /\ UNCHANGED cmd_ring
      /\ cmd_head' = 0 /\ cmd_tail' = 0 /\ comp_head' = 0 /\ comp_tail' = 0
  BY DEF QemuFill, DaemonFill, Fill
<1>2. Commands' = <<>>
  BY <1>1, EmptyRings
<1>3. sent' = sent /\ (handled' = handled \/ handled' = <<>>)
  BY DEF QemuFill, DaemonFill, Forget, Late, history
<1>4. Rising(handled') /\ UpTo(handled', sent')
  BY <1>3 DEF OrderInv, Rising, UpTo
<1>5. InLine(handled', Commands') /\ UpTo(Commands', sent')
  BY <1>2, <1>4, NoneInLine
<1>6. RingsTyped /\ WaitingInv
  BY RingsThere DEF QemuFill, DaemonFill, OrderInv
<1>7. ASSUME dstate' \in {"process", "consume"}
      PROVE  held'.n <= sent' /\ Swept'
  <2>1. /\ QemuFill /\ dstate \in {"process", "consume"} /\ held' = held
        /\ handled' = handled /\ qstate = "cleared"
    BY <1>7 DEF QemuFill, DaemonFill, daemonVars, history
  <2>2. held.n <= sent /\ WipedFrom(0) /\ (Kept \/ Swept)
    BY <1>6, <2>1 DEF WaitingInv
  <2>3. ~ Kept
    <3>1. held # Zero
      BY <2>1 DEF TypeInv, DaemonInv
    <3>2. cmd_ring[cmd_head] = Zero
      BY <1>6, <2>2 DEF WipedFrom, RingsTyped
    <3> QED BY <3>1, <3>2 DEF Kept
  <2>4. Rising(Append(handled, held.n))
    BY <2>2, <2>3 DEF Swept, InLine
  <2>5. InLine(Append(handled', held'.n), Commands')
    BY <1>2, <2>1, <2>4, NoneInLine
  <2>6. WipedFrom(cmd_tail)'
    BY <1>1, <2>2 DEF WipedFrom
  <2> QED BY <1>1, <1>3, <2>1, <2>2, <2>5, <2>6 DEF Swept
<1>8. (qstate = "cleared")' => WipedFrom(0)'
  BY <1>1, <1>6 DEF QemuFill, DaemonFill, qemuVars, WaitingInv, WipedFrom
<1> QED BY <1>4, <1>5, <1>7, <1>8 DEF OrderInv, WaitingInv

\* A new command comes after all others, and leaves the slots behind the tail
\* alone; as one slot stays free the tail does not come round to the head.
LEMMA SubmitOrder ==
    ASSUME TypeInv, OrderInv, RingsTyped, Submits,
           UNCHANGED <<dstate, held, qstate>>, qstate = "on"
    PROVE  OrderInv'
<1>1. PICK op \in Ops : Accepts /\ sent < MaxSent /\ Submit(op)
  BY DEF Submits
<1>2. /\ Commands' = Append(Commands, sent + 1)
      /\ Avail(cmd_head', cmd_tail', CmdSize)
            = Avail(cmd_head, cmd_tail, CmdSize) + 1
      /\ Avail(cmd_head, cmd_tail, CmdSize) >= 1 =>
             cmd_ring'[cmd_head'] = cmd_ring[cmd_head]
  BY <1>1, CommandAppended
<1>3. /\ sent' = sent + 1 /\ handled' = handled /\ cmd_head' = cmd_head
      /\ cmd_ring' = [cmd_ring EXCEPT ![cmd_tail] = [op |-> op, n |-> sent + 1]]
  BY <1>1 DEF Submit
<1>4. /\ handled \in Seq(Nat) /\ sent \in Nat /\ held.n \in Nat
      /\ Commands \in Seq(Nat)
  BY NumbersAre
<1>5. WaitingInv /\ Rising(handled) /\ UpTo(handled, sent)
  BY DEF OrderInv
<1>6. Rising(handled') /\ UpTo(handled', sent')
  BY <1>3, <1>4, <1>5, UpToMore
<1>7. InLine(handled', Commands') /\ UpTo(Commands', sent')
  <2> DEFINE c == Commands
             d == Commands'
  <2>1. c \in Seq(Nat) /\ d = Append(c, sent + 1) /\ InLine(handled, c) /\ UpTo(c, sent)
    BY <1>2, <1>4, <1>5 DEF WaitingInv
  <2> HIDE DEF c, d
  <2>2. InLine(handled, d) /\ UpTo(d, sent + 1)
    BY <1>4, <1>5, <2>1, LastInLine
  <2> QED BY <1>3, <2>2 DEF d
<1>8. ASSUME dstate' \in {"process", "consume"}
      PROVE  held'.n <= sent' /\ (Kept' \/ Swept')
  <2>1. held.n <= sent /\ (Kept \/ Swept)
    BY <1>5, <1>8 DEF WaitingInv
  <2>2. held'.n <= sent'
    BY <1>3, <1>4, <2>1
  <2>3. CASE Kept
    <3>1. Avail(cmd_head, cmd_tail, CmdSize) \in Nat
      BY SizesFacts, AvailIs DEF RingsTyped
    <3> QED BY <1>2, <2>2, <2>3, <3>1 DEF Kept
  <2>4. CASE Swept
    <3>1. cmd_tail' = cmd_tail + 1
      <4>1. kring.cmd = CmdSize /\ HasRoom(cmd_head, cmd_tail, CmdSize)
        BY <1>1, AcceptsKnown, SizesFacts
      <4>2. /\ cmd_head = 0 /\ cmd_tail \in 0 .. CmdSize - 1
            /\ CmdSize \in Nat \ {0}
        BY <2>4, SizesFacts DEF Swept, RingsTyped
      <4>3. 0 \in 0 .. CmdSize - 1
        BY <4>2
      <4>4. Avail(0, cmd_tail, CmdSize) = cmd_tail
        BY <4>2, <4>3, AvailIs
      <4>5. cmd_tail + 1 < CmdSize
        BY <4>1, <4>2, <4>4 DEF HasRoom
      <4>6. Mask(cmd_tail + 1, CmdSize) = cmd_tail + 1
        BY <4>2, <4>5, NextIs
      <4> QED BY <1>1, <4>1, <4>6 DEF Submit
    <3>2. WipedFrom(cmd_tail)'
      <4> SUFFICES ASSUME NEW i \in cmd_tail + 1 .. CmdSize - 1
                   PROVE  cmd_ring'[i] = Zero
        BY <3>1 DEF WipedFrom
      <4>1. /\ i \in cmd_tail .. CmdSize - 1 /\ i # cmd_tail
            /\ i \in 0 .. CmdSize - 1
        BY SizesFacts DEF RingsTyped
      <4>2. cmd_ring[i] = Zero
        BY <2>4, <4>1 DEF Swept, WipedFrom
      <4> QED BY <1>3, <4>1, <4>2 DEF RingsTyped
    <3>3. InLine(Append(handled', held'.n), Commands')
      <4> DEFINE a == Append(handled, held.n)
                 c == Commands
                 d == Commands'
      <4>1. a \in Seq(Nat)
        BY <1>4
      <4>2. InLine(a, c)
        BY <2>4 DEF Swept
      <4>3. UpTo(a, sent)
        BY <1>4, <1>5, <2>1, UpToAppend
      <4>4. c \in Seq(Nat) /\ d = Append(c, sent + 1) /\ UpTo(c, sent)
        BY <1>2, <1>4, <1>5 DEF WaitingInv
      <4> HIDE DEF a, c, d
      <4>5. InLine(a, d)
        BY <1>4, <4>1, <4>2, <4>3, <4>4, LastInLine
      <4> QED BY <1>3, <4>5 DEF a, d
    <3> QED BY <1>3, <2>2, <2>4, <3>2, <3>3 DEF Swept
  <2> QED BY <2>1, <2>2, <2>3, <2>4
<1> QED BY <1>6, <1>7, <1>8 DEF OrderInv, WaitingInv

\* What is skipped is never handled; what is consumed is the first of the ring or,
\* after a reset that has wiped it, comes before whatever has come since.  The
\* head then passes over one slot more, but finds nothing old behind the tail.
LEMMA HeadOrder ==
    ASSUME TypeInv, OrderInv, Skip \/ BlindSkip \/ Consume
    PROVE  OrderInv'
<1>1. RingsTyped /\ (Consume => dring \in Known)
  BY KnownToLoop, SkipsOne
<1>2. /\ WaitingInv /\ Rising(handled) /\ UpTo(handled, sent)
      /\ cmd_head \in 0 .. CmdSize - 1 /\ cmd_tail \in 0 .. CmdSize - 1
      /\ cmd_ring \in [0 .. CmdSize - 1 -> Message]
      /\ CmdSize \in Nat \ {0}
  BY <1>1, SizesFacts DEF OrderInv, RingsTyped
<1>3. /\ UNCHANGED <<cmd_ring, cmd_tail, sent, held, qstate>>
      /\ cmd_head' = Mask(cmd_head + 1, CmdSize)
      /\ dstate' = "poll"
  <2>1. CASE Skip \/ BlindSkip
    BY <2>1, SkipsOne DEF history, qemuVars, daemonVars
  <2>2. CASE Consume
    BY <1>1, <2>2, SizesFacts DEF Consume, history, qemuVars, daemonVars
  <2> QED BY <2>1, <2>2
<1>4. /\ handled \in Seq(Nat) /\ sent \in Nat /\ held.n \in Nat
      /\ Commands \in Seq(Nat)
  BY <1>1, NumbersAre
<1>5. (qstate = "cleared")' => WipedFrom(0)'
  BY <1>2, <1>3 DEF WaitingInv, WipedFrom
<1>6. Avail(cmd_head, cmd_tail, CmdSize) \in Nat
  BY <1>2, AvailIs
<1> DEFINE x == cmd_ring[cmd_head].n
           d == Commands'
<1>7. ASSUME Avail(cmd_head, cmd_tail, CmdSize) >= 1
      PROVE  /\ x \in Nat /\ d \in Seq(Nat)
             /\ Cons(Commands, x, d)
             /\ Commands = <<x>> \o d
  <2>1. Commands = <<x>> \o d /\ x \in Numbers /\ d \in Seq(Numbers)
    BY <1>1, <1>3, <1>7, FirstCommand
  <2>2. Numbers \subseteq Nat
    BY Bounds DEF Numbers
  <2> HIDE DEF x, d
  <2>3. d \in Seq(Nat) /\ x \in Nat
    BY <2>1, <2>2, SeqLarger
  <2> QED BY <2>1, <2>3, ConsIs
<1>8. ASSUME Avail(cmd_head, cmd_tail, CmdSize) >= 1
      PROVE  UpTo(d, sent)
  <2> SUFFICES ASSUME NEW j \in DOMAIN d PROVE d[j] <= sent
    BY DEF UpTo
  <2>1. Cons(Commands, x, d) /\ d \in Seq(Nat)
    BY <1>7, <1>8
  <2> HIDE DEF x, d
  <2>2. j \in 1 .. Len(d) /\ Len(d) \in Nat
    BY <2>1
  <2>3. j + 1 \in DOMAIN Commands /\ Commands[j + 1] = d[j]
    BY <2>1, <2>2 DEF Cons
  <2> QED BY <1>2, <2>3 DEF WaitingInv, UpTo
<1>9. CASE Skip \/ BlindSkip
  <2>1. Avail(cmd_head, cmd_tail, CmdSize) >= 1 /\ handled' = handled
    BY <1>9, SkipsOne DEF history
  <2>2. InLine(handled, <<x>> \o d)
    BY <1>2, <1>7, <2>1 DEF WaitingInv
  <2>3. x \in Nat /\ d \in Seq(Nat)
    BY <1>7, <2>1
  <2>4. InLine(handled, d)
    <3> HIDE DEF x, d
    <3> QED BY <1>4, <2>2, <2>3, FirstInLine
  <2> QED BY <1>2, <1>3, <1>5, <1>8, <2>1, <2>4 DEF OrderInv, WaitingInv
<1>10. CASE Consume
  <2>1. handled' = Append(handled, held.n) /\ held.n <= sent /\ (Kept \/ Swept)
    BY <1>2, <1>10 DEF Consume, WaitingInv
  <2>2. UpTo(handled', sent')
    BY <1>2, <1>3, <1>4, <2>1, UpToAppend
  <2>3. ASSUME InLine(handled', d), UpTo(d, sent)
        PROVE  OrderInv'
    BY <1>3, <1>5, <2>2, <2>3 DEF OrderInv, WaitingInv, InLine
  <2>4. CASE Kept
    <3>1. Avail(cmd_head, cmd_tail, CmdSize) >= 1 /\ held.n = x
      BY <2>4 DEF Kept
    <3>2. InLine(handled, <<x>> \o d) /\ x \in Nat /\ d \in Seq(Nat)
      BY <1>2, <1>7, <3>1 DEF WaitingInv
    <3>3. InLine(Append(handled, x), d)
      <4> HIDE DEF x, d
      <4> QED BY <1>4, <3>2, FirstInLine
    <3> QED BY <1>8, <2>1, <2>3, <3>1, <3>3
  <2>5. CASE Swept /\ Avail(cmd_head, cmd_tail, CmdSize) >= 1
    <3> DEFINE a == Append(handled, held.n)
    <3>1. /\ InLine(a, <<x>> \o d) /\ x \in Nat /\ d \in Seq(Nat)
          /\ a \in Seq(Nat)
      <4>1. a \in Seq(Nat)
        BY <1>4
      <4>2. InLine(a, Commands)
        BY <2>5 DEF Swept
      <4>3. Commands = <<x>> \o d /\ x \in Nat /\ d \in Seq(Nat)
        BY <1>7, <2>5
      <4> HIDE DEF a, x, d
      <4> QED BY <4>1, <4>2, <4>3
    <3>2. InLine(a, d)
      <4> HIDE DEF a, x, d
      <4> QED BY <3>1, FirstInLine
    <3> QED BY <1>8, <2>1, <2>3, <2>5, <3>2
  <2>6. CASE Swept /\ ~ (Avail(cmd_head, cmd_tail, CmdSize) >= 1)
    <3>1. cmd_head = 0 /\ cmd_tail = 0 /\ WipedFrom(0)
      <4>1. cmd_head = 0 /\ Avail(cmd_head, cmd_tail, CmdSize) = cmd_tail
        BY <1>2, <2>6, AvailIs DEF Swept
      <4> QED BY <1>2, <1>6, <2>6, <4>1 DEF Swept
    <3>2. \A j \in DOMAIN d : d[j] = 0
      <4>1. \A i \in 0 .. CmdSize - 1 : CmdNumbers'[i] = 0
        BY <1>3, <3>1 DEF CmdNumbers, WipedFrom, Zero
      <4> DEFINE ring == CmdNumbers'
                 h == cmd_head'
                 n == Avail(h, cmd_tail, CmdSize)
      <4>2. Ring({0}, CmdSize, ring, h, cmd_tail)
        <5>1. ring \in [0 .. CmdSize - 1 -> {0}]
          BY <4>1 DEF CmdNumbers
        <5>2. h \in 0 .. CmdSize - 1
          BY <1>2, <1>3, NextIs
        <5> QED BY <1>2, <5>1, <5>2 DEF Ring
      <4>3. d = InRing(ring, h, cmd_tail, CmdSize)
        BY <1>3 DEF Commands
      <4> HIDE DEF ring, h, d
      <4>4. d \in Seq({0})
        BY <4>2, <4>3, WindowIs, Zenon
      <4>5. ASSUME NEW j \in DOMAIN d PROVE d[j] \in {0}
        <5>1. j \in 1 .. Len(d)
          BY <4>4
        <5> QED BY <4>4, <5>1, ElementOfSeq
      <4> QED BY <4>5
    <3>3. Rising(handled')
      BY <2>1, <2>6 DEF Swept, InLine
    <3>4. InLine(handled', d)
      BY <3>2, <3>3, ZerosInLine
    <3>5. UpTo(d, sent)
      BY <1>4, <3>2 DEF UpTo
    <3> QED BY <2>3, <3>4, <3>5
  <2> QED BY <2>1, <2>4, <2>5, <2>6
<1> QED BY <1>9, <1>10

\* The daemon takes up the first command of the ring.
LEMMA PeekOrder ==
    ASSUME TypeInv, OrderInv, Peek
    PROVE  OrderInv'
<1>1. RingsTyped /\ dring.cmd = CmdSize
  BY KnownToLoop, SizesFacts
<1>2. /\ UNCHANGED <<cmd_ring, cmd_head, cmd_tail, handled, sent, qstate>>
      /\ Avail(cmd_head, cmd_tail, CmdSize) >= 1 /\ held' = cmd_ring[cmd_head]
  BY <1>1 DEF Peek, HeadMessage, cmdVars, history, qemuVars
<1>3. Commands' = Commands
  <2>1. Commands' = InRing(CmdNumbers', cmd_head', cmd_tail', CmdSize)
    BY DEF Commands
  <2>2. CmdNumbers' = CmdNumbers
    BY <1>2 DEF CmdNumbers
  <2> QED BY <1>2, <2>1, <2>2 DEF Commands
<1>4. WaitingInv
  BY <1>1 DEF OrderInv
<1>5. held'.n <= sent
  <2> DEFINE x == cmd_ring[cmd_head].n
  <2>1. /\ Commands = <<x>> \o RestOfCommands /\ x \in Numbers
        /\ RestOfCommands \in Seq(Numbers)
    BY <1>1, <1>2, FirstPending
  <2>2. Cons(Commands, x, RestOfCommands) /\ Len(RestOfCommands) \in Nat
    BY <2>1, ConsIs
  <2>3. 1 \in DOMAIN Commands /\ Commands[1] = x
    BY <2>2 DEF Cons
  <2> QED BY <1>2, <1>4, <2>3 DEF WaitingInv, UpTo
<1>6. Kept'
  BY <1>2 DEF Kept
<1>7. (qstate = "cleared")' => WipedFrom(0)'
  BY <1>2, <1>4 DEF WaitingInv, WipedFrom
<1> QED BY <1>2, <1>3, <1>4, <1>5, <1>6, <1>7 DEF OrderInv, WaitingInv

\* What changes neither the ring nor what the daemon has in hand.
LEMMA OtherOrder ==
    ASSUME OrderInv, UNCHANGED <<cmdVars, handled, sent>>,
           RingsTyped \/ UNCHANGED compVars,
           qstate' = "cleared" => qstate = "cleared",
           dstate' \in {"process", "consume"} =>
               dstate \in {"process", "consume"} /\ held' = held
    PROVE  OrderInv'
<1>1. Commands' = Commands
  <2>1. Commands' = InRing(CmdNumbers', cmd_head', cmd_tail', CmdSize)
    BY DEF Commands
  <2>2. CmdNumbers' = CmdNumbers
    BY DEF CmdNumbers, cmdVars
  <2> QED BY <2>1, <2>2 DEF Commands, cmdVars
<1>2. RingsTyped' => RingsTyped
  BY DEF RingsTyped, cmdVars, compVars
<1>3. ASSUME RingsTyped PROVE WaitingInv'
  <2>1. WaitingInv
    BY <1>3 DEF OrderInv
  <2>2. ASSUME dstate' \in {"process", "consume"}
        PROVE  held'.n <= sent' /\ (Kept' \/ Swept')
    <3>1. held' = held /\ held.n <= sent /\ (Kept \/ Swept)
      BY <2>1, <2>2 DEF WaitingInv
    <3>2. Kept' = Kept /\ Swept' = Swept
      BY <1>1, <3>1 DEF Kept, Swept, WipedFrom, cmdVars
    <3> QED BY <3>1, <3>2
  <2>3. WipedFrom(0)' = WipedFrom(0)
    BY DEF WipedFrom, cmdVars
  <2> QED BY <1>1, <2>1, <2>2, <2>3 DEF WaitingInv
<1> QED BY <1>2, <1>3 DEF OrderInv

\* Every step keeps the order.
LEMMA OrderStep ==
    ASSUME TypeInv, OrderInv, Next
    PROVE  OrderInv'
<1>1. CASE Qemu
  <2>1. CASE QemuClear
    BY <2>1, ClearOrder
  <2>2. CASE QemuFill
    BY <2>2, FillOrder
  <2>3. CASE QemuLaunch \/ Reset \/ QemuExit \/ SaveVM \/ LoadState
    <3>1. /\ UNCHANGED <<cmdVars, compVars, daemonVars, history>>
          /\ qstate' # "cleared"
      BY <2>3 DEF QemuLaunch, Reset, ResetPhase, QemuExit, SaveVM, LoadState
    <3> QED BY <3>1, OtherOrder DEF daemonVars, history
  <2> QED BY <1>1, <2>1, <2>2, <2>3 DEF Qemu
<1>2. CASE Daemon
  <2>1. CASE DaemonClear
    BY <2>1, ClearOrder
  <2>2. CASE DaemonFill
    BY <2>2, FillOrder
  <2>3. CASE Skip \/ BlindSkip \/ Consume
    BY <2>3, HeadOrder
  <2>4. CASE Peek
    BY <2>4, PeekOrder
  <2>5. CASE Process
    <3>1. RingsTyped
      BY <2>5, RingsThere DEF Process
    <3>2. /\ UNCHANGED <<cmdVars, handled, sent, held, qstate>>
          /\ dstate = "process"
      BY <2>5 DEF Process, cmdVars, qemuVars
    <3> QED BY <3>1, <3>2, OtherOrder
  <2>6. CASE DaemonStart \/ DaemonExit
             \/ DaemonAttach \/ DaemonSizes \/ DaemonVulkan
    <3>1. /\ UNCHANGED <<cmdVars, compVars, handled, sent, qstate>>
          /\ dstate' \notin {"process", "consume"}
      BY <2>6 DEF DaemonStart, DaemonAttach, DaemonSizes, DaemonVulkan,
                  DaemonExit, qemuVars, history
    <3> QED BY <3>1, OtherOrder
  <2> QED BY <1>2, <2>1, <2>2, <2>3, <2>4, <2>5, <2>6 DEF Daemon, DaemonLoop
<1>3. CASE Kext
  <2>1. RingsTyped /\ qstate = "on" /\ UNCHANGED <<daemonVars, qstate>>
    BY <1>3, RingsThere
    DEF Kext, KextStarting, KextStart, AttachCheck, AttachSizes, SendHello,
        HelloFails, PollAnswer, PollEmpty, GiveUp, SendPing, KextStop, Submit,
        qemuVars
  <2>2. CASE Submits
    BY <2>1, <2>2, SubmitOrder DEF daemonVars
  <2>3. CASE UNCHANGED <<cmdVars, handled, sent>>
    BY <2>1, <2>3, OtherOrder DEF daemonVars
  <2>4. Submits \/ UNCHANGED <<cmdVars, handled, sent>>
    BY <1>3
    DEF Kext, KextStarting, KextStart, AttachCheck, AttachSizes, SendHello,
        HelloFails, PollAnswer, PollEmpty, GiveUp, SendPing, KextStop, Submits,
        Ops, history
  <2> QED BY <2>2, <2>3, <2>4
<1> QED BY <1>1, <1>2, <1>3 DEF Next

\* In the beginning nothing is handled, and there is no ring.
LEMMA OrderInit == Init => OrderInv
<1> SUFFICES ASSUME Init PROVE OrderInv
  OBVIOUS
<1>1. handled = <<>> /\ DOMAIN comp_ring = {}
  BY DEF Init
<1>2. ~ RingsTyped
  <2>1. 0 \in 0 .. CompSize - 1
    BY SizesFacts
  <2> QED BY <1>1, <2>1 DEF RingsTyped
<1> QED BY <1>1, <1>2 DEF OrderInv, Rising, UpTo

\* The order holds after every step, stuttering or not.
LEMMA OrderKept ==
    ASSUME TypeInv, OrderInv, [Next]_vars
    PROVE  OrderInv'
<1>1. CASE UNCHANGED vars
  <2>1. UNCHANGED <<cmdVars, compVars, daemonVars, history, qstate>>
    BY <1>1 DEF vars, qemuVars
  <2> QED BY <2>1, OtherOrder DEF daemonVars, history
<1> QED BY <1>1, OrderStep

\* Whatever strikes, no command of a boot is handled twice or after a later
\* one: not when the daemon starts under a running guest, and not when a reset
\* takes the command away that it is working on.
THEOREM OrderCorrect == Spec => []HandledInOrder
<1>1. Init => TypeInv /\ OrderInv
  BY InitType, OrderInit
<1>2. TypeInv /\ OrderInv /\ [Next]_vars => (TypeInv /\ OrderInv)'
  BY NextType, OrderKept
<1>3. TypeInv /\ OrderInv => HandledInOrder
  <2> SUFFICES ASSUME TypeInv, Rising(handled), NEW i \in DOMAIN handled,
                      NEW j \in DOMAIN handled, i < j
               PROVE  handled[i] < handled[j]
    BY DEF OrderInv, HandledInOrder
  <2>1. handled \in Seq(1 .. MaxSent)
    BY DEF TypeInv, HistoryInv
  <2>2. handled[j] \in 1 .. MaxSent
    <3>1. j \in 1 .. Len(handled)
      BY <2>1
    <3> QED BY <2>1, <3>1, ElementOfSeq
  <2>3. handled[j] # 0
    BY <2>2, Bounds
  <2> QED BY <2>3 DEF Rising
<1> QED BY <1>1, <1>2, <1>3, PTL DEF Spec

(* Replies.                                                                *)

\* A number moves from the beginning of what waits to the end of what is read:
\* the bounds of both still hold, and so does their place before other numbers.
LEMMA FirstMoves ==
    ASSUME NEW a \in Seq(Nat), NEW x \in Nat, NEW b \in Seq(Nat),
           InLine(a, <<x>> \o b)
    PROVE  /\ \A n \in Int : UpTo(a, n) /\ UpTo(<<x>> \o b, n) =>
                  UpTo(Append(a, x), n) /\ UpTo(b, n)
           /\ \A w : InLine(a, w) /\ InLine(<<x>> \o b, w) =>
                  InLine(Append(a, x), w) /\ InLine(b, w)
<1> DEFINE v == <<x>> \o b
           c == Append(a, x)
<1>1. Cons(v, x, b) /\ AppendOf(c, a, x)
  BY ConsIs, AppendIs
<1>2. InLine(c, b)
  BY FirstInLine
<1> HIDE DEF v, c
<1>3. DOMAIN b = 1 .. Len(b) /\ Len(b) \in Nat
  OBVIOUS
<1>4. 1 \in DOMAIN v /\ v[1] = x
  BY <1>1, <1>3 DEF Cons
<1>5. ASSUME NEW i \in DOMAIN b
      PROVE  i + 1 \in DOMAIN v /\ v[i + 1] = b[i]
  BY <1>1, <1>3 DEF Cons
<1>6. ASSUME NEW j \in DOMAIN c
      PROVE  c[j] = v[1] \/ (j \in DOMAIN a /\ c[j] = a[j])
  BY <1>1, <1>4 DEF AppendOf
<1>7. ASSUME NEW n \in Int, UpTo(a, n), UpTo(v, n)
      PROVE  UpTo(c, n) /\ UpTo(b, n)
  BY <1>4, <1>5, <1>6, <1>7 DEF UpTo
<1>8. ASSUME NEW w, InLine(a, w), InLine(v, w)
      PROVE  InLine(c, w) /\ InLine(b, w)
  <2>1. Rising(c) /\ Rising(b) /\ Rising(w)
    BY <1>2, <1>8 DEF InLine
  <2>2. ASSUME NEW j \in DOMAIN w, w[j] # 0
        PROVE  /\ \A i \in DOMAIN a : a[i] < w[j]
               /\ \A i \in DOMAIN v : v[i] < w[j]
    BY <1>8, <2>2 DEF InLine
  <2>3. ASSUME NEW j \in DOMAIN w, w[j] # 0
        PROVE  /\ \A i \in DOMAIN c : c[i] < w[j]
               /\ \A i \in DOMAIN b : b[i] < w[j]
    BY <1>4, <1>5, <1>6, <2>2, <2>3
  <2> QED BY <2>1, <2>3 DEF InLine
<1> QED BY <1>7, <1>8 DEF v, c

\* Numbers up to one that all waiting numbers exceed are before these.
LEMMA BeforeInLine ==
    ASSUME NEW a \in Seq(Nat), NEW s \in Seq(Nat), NEW x \in Nat,
           NEW b \in Seq(Nat), InLine(Append(s, x), b), Rising(a), UpTo(a, x)
    PROVE  InLine(a, b)
<1> DEFINE c == Append(s, x)
<1>1. Len(s) + 1 \in DOMAIN c /\ c[Len(s) + 1] = x
  OBVIOUS
<1>2. InLine(c, b)
  OBVIOUS
<1> HIDE DEF c
<1>3. /\ \A i \in DOMAIN a : a[i] \in Nat
      /\ \A j \in DOMAIN b : b[j] \in Nat
  OBVIOUS
<1>4. ASSUME NEW i \in DOMAIN a, NEW j \in DOMAIN b, b[j] # 0
      PROVE  a[i] < b[j]
  <2>1. x < b[j]
    BY <1>1, <1>2, <1>4 DEF InLine
  <2>2. a[i] <= x
    BY DEF UpTo
  <2> QED BY <1>3, <2>1, <2>2
<1> QED BY <1>2, <1>4 DEF InLine

\* Numbers before all of a sequence that begins with x, not zero, are below x.
LEMMA BelowFirst ==
    ASSUME NEW a \in Seq(Nat), NEW x \in Nat \ {0}, NEW b \in Seq(Nat),
           InLine(a, <<x>> \o b)
    PROVE  UpTo(a, x - 1)
<1> DEFINE v == <<x>> \o b
<1>1. Cons(v, x, b)
  BY ConsIs
<1>2. InLine(a, v)
  OBVIOUS
<1> HIDE DEF v
<1>3. 1 \in DOMAIN v /\ v[1] = x
  <2>1. Len(b) \in Nat
    OBVIOUS
  <2> QED BY <1>1, <2>1 DEF Cons
<1>4. \A i \in DOMAIN a : a[i] \in Nat
  OBVIOUS
<1>5. ASSUME NEW i \in DOMAIN a PROVE a[i] <= x - 1
  <2>1. a[i] < x
    BY <1>2, <1>3 DEF InLine
  <2> QED BY <1>4, <2>1
<1> QED BY <1>5 DEF UpTo

\* The replies are natural numbers too.
LEMMA RepliesAre ==
    ASSUME TypeInv
    PROVE  received \in Seq(Nat) /\ (RingsTyped => Completions \in Seq(Nat))
<1>1. 1 .. MaxSent \subseteq Nat
  BY Bounds
<1>2. received \in Seq(Nat)
  BY <1>1, SeqLarger DEF TypeInv, HistoryInv
<1>3. ASSUME RingsTyped PROVE Completions \in Seq(Nat)
  <2> DEFINE r == Completions
  <2>1. r \in Seq(1 .. MaxSent)
    BY <1>3 DEF TypeInv, CompletionsInv
  <2> HIDE DEF r
  <2>2. r \in Seq(Nat)
    BY <1>1, <2>1, SeqLarger
  <2> QED BY <2>2 DEF r
<1> QED BY <1>2, <1>3

\* An initialisation leaves no reply and no command waiting.
LEMMA ReplyInit ==
    ASSUME TypeInv, ReplyOrderInv,
           QemuClear \/ DaemonClear \/ QemuFill \/ DaemonFill
    PROVE  ReplyOrderInv'
<1>1. Commands' = <<>> /\ Completions' = <<>>
  BY EmptyRings DEF QemuClear, DaemonClear, QemuFill, DaemonFill, Clear, Fill
<1>2. sent' = sent /\ (received' = received \/ received' = <<>>)
  BY DEF QemuClear, DaemonClear, QemuFill, DaemonFill, Forget, Late, history
<1>3. Rising(received') /\ UpTo(received', sent')
  BY <1>2 DEF ReplyOrderInv, Rising, UpTo
<1>4. /\ InLine(received', Completions') /\ UpTo(Completions', sent')
      /\ InLine(received', Commands') /\ InLine(Completions', Commands')
  <2>1. Rising(<<>>)
    BY DEF Rising
  <2> QED BY <1>1, <1>3, <2>1, NoneInLine
<1>5. ASSUME dstate' \in {"process", "consume"}
      PROVE  /\ dstate' = dstate /\ held' = held
             /\ received' = <<>> \/ (received' = received /\ AnsweringInv)
  <2>1. CASE QemuClear
    BY <2>1 DEF QemuClear, Forget, daemonVars
  <2>2. CASE QemuFill
    BY <2>2, RingsThere DEF QemuFill, daemonVars, history, ReplyOrderInv
  <2>3. ~ DaemonClear /\ ~ DaemonFill
    BY <1>5 DEF DaemonClear, DaemonFill
  <2> QED BY <2>1, <2>2, <2>3
<1>6. /\ dstate' = "process" => RepliesUpTo(held.n - 1)'
      /\ dstate' = "consume" => RepliesUpTo(held.n)'
  <2>1. UpTo(Completions', held'.n - 1) /\ UpTo(Completions', held'.n)
    BY <1>1, NoneInLine
  <2>2. dstate' = "process" => UpTo(received', held'.n - 1)
    BY <1>5, NoneInLine DEF AnsweringInv, RepliesUpTo
  <2>3. dstate' = "consume" => UpTo(received', held'.n)
    BY <1>5, NoneInLine DEF AnsweringInv, RepliesUpTo
  <2> QED BY <2>1, <2>2, <2>3 DEF RepliesUpTo
<1> QED BY <1>3, <1>4, <1>6 DEF ReplyOrderInv, AnsweringInv

\* A new command comes after all replies.
LEMMA ReplySubmit ==
    ASSUME TypeInv, OrderInv, ReplyOrderInv, RingsTyped, Submits
    PROVE  ReplyOrderInv'
<1>1. PICK op \in Ops : Accepts /\ sent < MaxSent /\ Submit(op)
  BY DEF Submits
<1>2. Commands' = Append(Commands, sent + 1)
  BY <1>1, CommandAppended
<1>3. /\ sent' = sent + 1
      /\ UNCHANGED <<compVars, received, dstate, held>>
  BY <1>1 DEF Submit, daemonVars
<1>4. Completions' = Completions
  BY <1>3 DEF Completions, compVars
<1>5. /\ received \in Seq(Nat) /\ Completions \in Seq(Nat)
      /\ Commands \in Seq(Nat) /\ sent \in Nat
  BY NumbersAre, RepliesAre
<1>6. /\ AnsweringInv /\ Rising(received) /\ UpTo(received, sent)
      /\ UpTo(Completions, sent) /\ UpTo(Commands, sent)
  BY DEF ReplyOrderInv, AnsweringInv, OrderInv, WaitingInv
<1>7. UpTo(received', sent') /\ UpTo(Completions', sent')
  <2> DEFINE r == Completions
  <2>1. r \in Seq(Nat) /\ UpTo(r, sent)
    BY <1>5, <1>6
  <2> HIDE DEF r
  <2>2. UpTo(received, sent + 1) /\ UpTo(r, sent + 1)
    BY <1>5, <1>6, <2>1, UpToMore
  <2> QED BY <1>3, <1>4, <2>2 DEF r
<1>8. ASSUME dstate' \notin {"process", "consume"}
      PROVE  InLine(received', Commands') /\ InLine(Completions', Commands')
  <2> DEFINE c == Commands
             r == Completions
             d == Commands'
  <2>1. InLine(received, c) /\ InLine(r, c)
    BY <1>3, <1>6, <1>8 DEF AnsweringInv
  <2>2. /\ c \in Seq(Nat) /\ r \in Seq(Nat) /\ d = Append(c, sent + 1)
        /\ UpTo(c, sent) /\ UpTo(r, sent)
    BY <1>2, <1>5, <1>6
  <2> HIDE DEF c, d, r
  <2>3. InLine(received, d)
    BY <1>5, <1>6, <2>1, <2>2, LastInLine
  <2>4. InLine(r, d)
    BY <1>5, <2>1, <2>2, LastInLine
  <2> QED BY <1>3, <1>4, <2>3, <2>4 DEF d, r
<1>9. /\ dstate' = "process" => RepliesUpTo(held.n - 1)'
      /\ dstate' = "consume" => RepliesUpTo(held.n)'
  BY <1>3, <1>4, <1>6 DEF AnsweringInv, RepliesUpTo
<1>10. InLine(received', Completions')
  BY <1>3, <1>4, <1>6 DEF AnsweringInv
<1> QED BY <1>3, <1>6, <1>7, <1>8, <1>9, <1>10 DEF ReplyOrderInv, AnsweringInv

\* The first command in the ring, taken up or skipped, and those after it.
LEMMA FirstWaits ==
    ASSUME TypeInv, RingsTyped, Avail(cmd_head, cmd_tail, CmdSize) >= 1
    PROVE  /\ Commands = <<HeadMessage.n>> \o RestOfCommands
           /\ HeadMessage.n \in Nat /\ RestOfCommands \in Seq(Nat)
<1> DEFINE d == RestOfCommands
<1>1. /\ Commands = <<HeadMessage.n>> \o d
      /\ HeadMessage.n \in Numbers /\ d \in Seq(Numbers)
  BY FirstPending DEF HeadMessage
<1>2. Numbers \subseteq Nat
  BY Bounds DEF Numbers
<1> HIDE DEF d
<1>3. d \in Seq(Nat)
  BY <1>1, <1>2, SeqLarger
<1> QED BY <1>1, <1>2, <1>3 DEF d

\* The command in hand is beyond all that has been replied to; what is skipped
\* gets no reply.
LEMMA ReplyHead ==
    ASSUME TypeInv, ReplyOrderInv, Peek \/ Skip \/ BlindSkip
    PROVE  ReplyOrderInv'
<1>1. RingsTyped /\ (Peek => dring.cmd = CmdSize)
  BY KnownToLoop, SkipsOne, SizesFacts
<1>2. /\ Avail(cmd_head, cmd_tail, CmdSize) >= 1 /\ dstate = "poll"
      /\ UNCHANGED <<compVars, received, sent>>
  <2>1. CASE Peek
    BY <1>1, <2>1 DEF Peek, history
  <2>2. CASE Skip \/ BlindSkip
    BY <2>2, SkipsOne DEF history
  <2> QED BY <2>1, <2>2
<1>3. Completions' = Completions
  BY <1>2 DEF Completions, compVars
<1>4. /\ Rising(received) /\ UpTo(received, sent)
      /\ InLine(received, Completions) /\ UpTo(Completions, sent)
      /\ InLine(received, Commands) /\ InLine(Completions, Commands)
  BY <1>1, <1>2 DEF ReplyOrderInv, AnsweringInv
<1>5. received \in Seq(Nat) /\ Completions \in Seq(Nat)
  BY <1>1, RepliesAre
<1> DEFINE x == HeadMessage.n
           d == RestOfCommands
           r == Completions
<1>6. /\ InLine(received, <<x>> \o d) /\ InLine(r, <<x>> \o d)
      /\ x \in Nat /\ d \in Seq(Nat) /\ r \in Seq(Nat)
  BY <1>1, <1>2, <1>4, <1>5, FirstWaits
<1>7. CASE Peek
  <2>1. dstate' = "process" /\ held' = HeadMessage /\ x # 0
    <3>1. HeadMessage \in Message /\ HeadMessage # Zero
      BY <1>1, <1>7 DEF Peek, HeadMessage, RingsTyped
    <3> QED BY <1>7, <3>1, Bounds DEF Peek, Message
  <2>2. UpTo(received, x - 1) /\ UpTo(r, x - 1)
    <3>1. x \in Nat \ {0}
      BY <1>6, <2>1
    <3> HIDE DEF x, d, r
    <3> QED BY <1>5, <1>6, <3>1, BelowFirst
  <2>3. RepliesUpTo(held.n - 1)'
    BY <1>2, <1>3, <2>1, <2>2 DEF RepliesUpTo
  <2> QED BY <1>2, <1>3, <1>4, <2>1, <2>3 DEF ReplyOrderInv, AnsweringInv
<1>8. CASE Skip \/ BlindSkip
  <2>1. dstate' = "poll"
    BY <1>8, SkipsOne DEF daemonVars
  <2>2. Commands' = d
    <3>1. /\ UNCHANGED <<cmd_ring, cmd_tail>>
          /\ cmd_head' = Mask(cmd_head + 1, CmdSize)
      BY <1>8, SkipsOne
    <3> QED BY <3>1 DEF RestOfCommands, Commands, CmdNumbers
  <2>3. InLine(received, d) /\ InLine(r, d)
    <3> HIDE DEF x, d, r
    <3> QED BY <1>5, <1>6, FirstInLine
  <2>4. InLine(received', Commands') /\ InLine(Completions', Commands')
    BY <1>2, <1>3, <2>2, <2>3
  <2> QED BY <1>2, <1>3, <1>4, <2>1, <2>4 DEF ReplyOrderInv, AnsweringInv
<1> QED BY <1>7, <1>8

\* A reply is to the command in hand, and so the last of all.
LEMMA ReplyProcess ==
    ASSUME TypeInv, OrderInv, ReplyOrderInv, Process
    PROVE  ReplyOrderInv'
<1>1. /\ RingsTyped /\ dstate = "process" /\ dstate' = "consume"
      /\ UNCHANGED <<received, sent, held>>
  BY RingsThere DEF Process
<1>2. /\ Rising(received) /\ UpTo(received, sent)
      /\ InLine(received, Completions) /\ UpTo(Completions, sent)
      /\ UpTo(received, held.n - 1) /\ UpTo(Completions, held.n - 1)
  BY <1>1 DEF ReplyOrderInv, AnsweringInv, RepliesUpTo
<1>3. held.n <= sent
  BY <1>1 DEF OrderInv, WaitingInv
<1> DEFINE r == Completions
           q == Completions'
           n == held.n - 1
<1>4. /\ held.n \in Nat \ {0} /\ sent \in Nat
      /\ received \in Seq(Nat) /\ r \in Seq(Nat)
  <2>1. held \in Message /\ held # Zero
    BY <1>1 DEF TypeInv, DaemonInv
  <2>2. held.n \in Nat \ {0}
    BY <2>1, Bounds DEF Message
  <2> QED BY <1>1, <2>2, NumbersAre, RepliesAre
<1>5. n \in Nat /\ n + 1 = held.n
  <2>1. held.n \in Nat \ {0}
    BY <1>4
  <2>2. \A k \in Nat \ {0} : k - 1 \in Nat /\ (k - 1) + 1 = k
    OBVIOUS
  <2> QED BY <2>1, <2>2
<1>6. InLine(received, r) /\ UpTo(received, n) /\ UpTo(r, n) /\ UpTo(r, sent)
  BY <1>2
<1>7. q = Append(r, held.n) \/ q = r
  <2>1. CASE Answered /\ CompRoom
    BY <2>1, ReplyAppended
  <2>2. CASE ~ (Answered /\ CompRoom)
    <3>1. UNCHANGED compVars
      BY <2>2 DEF Process, compVars
    <3> QED BY <3>1 DEF Completions, compVars
  <2> QED BY <2>1, <2>2
<1> HIDE DEF r, q, n
<1>8. InLine(received, q) /\ UpTo(q, held.n)
  <2>1. InLine(received, Append(r, n + 1)) /\ UpTo(Append(r, n + 1), n + 1)
    BY <1>4, <1>5, <1>6, LastInLine
  <2>2. UpTo(r, n + 1)
    BY <1>4, <1>5, <1>6, UpToMore
  <2> QED BY <1>5, <1>6, <1>7, <2>1, <2>2
<1>9. UpTo(received, held.n)
  <2>1. UpTo(received, n + 1)
    BY <1>4, <1>5, <1>6, UpToMore
  <2> QED BY <1>5, <2>1
<1>10. UpTo(q, sent)
  <2>1. q \in Seq(Nat)
    <3>1. held.n \in Nat /\ r \in Seq(Nat)
      BY <1>4
    <3>2. \A k \in Nat : Append(r, k) \in Seq(Nat)
      BY <3>1
    <3> QED BY <1>7, <3>1, <3>2
  <2>2. \A i \in DOMAIN q : q[i] \in Nat
    BY <2>1
  <2> QED BY <1>3, <1>4, <1>8, <2>2 DEF UpTo
<1>11. RepliesUpTo(held.n)'
  BY <1>1, <1>8, <1>9 DEF RepliesUpTo, q
<1>12. InLine(received', Completions') /\ UpTo(Completions', sent')
  BY <1>1, <1>8, <1>10 DEF q
<1> QED BY <1>1, <1>2, <1>11, <1>12 DEF ReplyOrderInv, AnsweringInv

\* What waits when a command has been consumed comes after it, wiped or not.
LEMMA ReplyConsume ==
    ASSUME TypeInv, TypeInv', OrderInv', ReplyOrderInv, Consume
    PROVE  ReplyOrderInv'
<1>1. /\ RingsTyped /\ dstate = "consume" /\ dstate' = "poll"
      /\ UNCHANGED <<compVars, received, sent>>
      /\ handled' = Append(handled, held.n)
  BY RingsThere DEF Consume
<1>2. Completions' = Completions
  BY <1>1 DEF Completions, compVars
<1>3. /\ Rising(received) /\ UpTo(received, sent)
      /\ InLine(received, Completions) /\ UpTo(Completions, sent)
      /\ UpTo(received, held.n) /\ UpTo(Completions, held.n)
  BY <1>1 DEF ReplyOrderInv, AnsweringInv, RepliesUpTo
<1>4. RingsTyped'
  BY <1>1 DEF TypeInv, RegionInv, Untouched
<1> DEFINE r == Completions
           d == Commands'
           x == held.n
<1>5. InLine(Append(handled, x), d)
  BY <1>1, <1>4 DEF OrderInv, WaitingInv
<1>6. /\ handled \in Seq(Nat) /\ x \in Nat /\ received \in Seq(Nat)
      /\ r \in Seq(Nat)
  BY <1>1, NumbersAre, RepliesAre
<1>7. d \in Seq(Nat)
  <2> DEFINE ring == CmdNumbers'
             h == cmd_head'
             t == cmd_tail'
  <2>1. Ring(Numbers, CmdSize, ring, h, t)
    <3>1. \A m \in Message : m.n \in Numbers
      BY Bounds DEF Message, Zero, Numbers
    <3>2. ring \in [0 .. CmdSize - 1 -> Numbers]
      BY <1>4, <3>1 DEF CmdNumbers, RingsTyped
    <3> QED BY <1>4, <3>2, SizesFacts DEF Ring, RingsTyped
  <2>2. d = InRing(ring, h, t, CmdSize)
    BY DEF Commands
  <2>3. Numbers \subseteq Nat
    BY Bounds DEF Numbers
  <2> HIDE DEF ring, h, t, d
  <2>4. d \in Seq(Numbers)
    BY <2>1, <2>2, WindowIs, Zenon
  <2> QED BY <2>3, <2>4, SeqLarger
<1>8. /\ Rising(received) /\ UpTo(received, x)
      /\ Rising(r) /\ UpTo(r, x)
  BY <1>3 DEF InLine
<1>9. InLine(received, d) /\ InLine(r, d)
  <2> HIDE DEF d, r, x
  <2> QED BY <1>5, <1>6, <1>7, <1>8, BeforeInLine
<1>10. InLine(received', Commands') /\ InLine(Completions', Commands')
  BY <1>1, <1>2, <1>9
<1> QED BY <1>1, <1>2, <1>3, <1>10 DEF ReplyOrderInv, AnsweringInv

\* What the guest reads was the first of the replies that wait.
LEMMA ReplyRead ==
    ASSUME TypeInv, ReplyOrderInv, PollAnswer
    PROVE  ReplyOrderInv'
<1>1. /\ RingsTyped /\ UNCHANGED <<cmdVars, sent, dstate, held>>
      /\ received' = Append(received, comp_ring[comp_head])
  BY RingsThere DEF PollAnswer, daemonVars
<1>2. Commands' = Commands
  BY <1>1 DEF Commands, CmdNumbers, cmdVars
<1>3. /\ AnsweringInv /\ UpTo(received, sent)
  BY <1>1 DEF ReplyOrderInv
<1> DEFINE x == comp_ring[comp_head]
           q == Completions'
           r == Completions
<1>4. /\ r = <<x>> \o q /\ x \in Nat /\ q \in Seq(Nat)
      /\ received \in Seq(Nat)
  <2>1. r = <<x>> \o q /\ x \in 1 .. MaxSent /\ q \in Seq(1 .. MaxSent)
    BY FirstReply
  <2>2. 1 .. MaxSent \subseteq Nat
    BY Bounds
  <2> HIDE DEF x, q, r
  <2>3. q \in Seq(Nat) /\ x \in Nat
    BY <2>1, <2>2, SeqLarger
  <2> QED BY <2>1, <2>3, RepliesAre
<1>5. /\ InLine(received, r) /\ UpTo(r, sent)
      /\ dstate = "process" => UpTo(received, held.n - 1) /\ UpTo(r, held.n - 1)
      /\ dstate = "consume" => UpTo(received, held.n) /\ UpTo(r, held.n)
      /\ dstate \notin {"process", "consume"} =>
            InLine(received, Commands) /\ InLine(r, Commands)
  BY <1>3 DEF AnsweringInv, RepliesUpTo
<1>6. sent \in Int /\ held.n \in Int /\ held.n - 1 \in Int
  BY NumbersAre
<1> HIDE DEF x, q, r
<1>7. InLine(Append(received, x), q) /\ Rising(Append(received, x))
  <2>1. InLine(Append(received, x), q)
    BY <1>4, <1>5, FirstInLine
  <2> QED BY <2>1 DEF InLine
<1>8. /\ \A n \in Int : UpTo(received, n) /\ UpTo(r, n) =>
              UpTo(Append(received, x), n) /\ UpTo(q, n)
      /\ \A w : InLine(received, w) /\ InLine(r, w) =>
              InLine(Append(received, x), w) /\ InLine(q, w)
  BY <1>4, <1>5, FirstMoves
<1>9. received' = Append(received, x) /\ Completions' = q
  BY <1>1 DEF x, q
<1>10. UpTo(received', sent') /\ UpTo(Completions', sent')
  BY <1>1, <1>3, <1>5, <1>6, <1>8, <1>9
<1>11. /\ dstate' = "process" => RepliesUpTo(held.n - 1)'
       /\ dstate' = "consume" => RepliesUpTo(held.n)'
  BY <1>1, <1>5, <1>6, <1>8, <1>9 DEF RepliesUpTo
<1>12. dstate' \notin {"process", "consume"} =>
           InLine(received', Commands') /\ InLine(Completions', Commands')
  BY <1>1, <1>2, <1>5, <1>8, <1>9
<1> QED BY <1>7, <1>9, <1>10, <1>11, <1>12 DEF ReplyOrderInv, AnsweringInv

\* What touches neither ring, nor what is read, nor the command in hand.
LEMMA ReplyOther ==
    ASSUME ReplyOrderInv, UNCHANGED <<cmdVars, compVars, received, sent>>,
           \/ UNCHANGED <<dstate, held>>
           \/ /\ dstate \notin {"process", "consume"}
              /\ dstate' \notin {"process", "consume"}
    PROVE  ReplyOrderInv'
<1>1. Commands' = Commands
  BY DEF Commands, CmdNumbers, cmdVars
<1>2. Completions' = Completions
  BY DEF Completions, compVars
<1>3. RingsTyped' => RingsTyped
  BY DEF RingsTyped, cmdVars, compVars
<1>4. ASSUME AnsweringInv PROVE AnsweringInv'
  <2>1. CASE UNCHANGED <<dstate, held>>
    BY <1>1, <1>2, <1>4, <2>1 DEF AnsweringInv, RepliesUpTo
  <2>2. CASE /\ dstate \notin {"process", "consume"}
             /\ dstate' \notin {"process", "consume"}
    BY <1>1, <1>2, <1>4, <2>2 DEF AnsweringInv
  <2> QED BY <2>1, <2>2
<1> QED BY <1>3, <1>4 DEF ReplyOrderInv

\* Every step keeps the replies in order.
LEMMA ReplyOrderStep ==
    ASSUME TypeInv, OrderInv, ReplyOrderInv, Next, TypeInv', OrderInv'
    PROVE  ReplyOrderInv'
<1>1. CASE QemuClear \/ DaemonClear \/ QemuFill \/ DaemonFill
  BY <1>1, ReplyInit
<1>2. CASE Peek \/ Skip \/ BlindSkip
  BY <1>2, ReplyHead
<1>3. CASE Process
  BY <1>3, ReplyProcess
<1>4. CASE Consume
  BY <1>4, ReplyConsume
<1>5. CASE QemuLaunch \/ Reset \/ QemuExit \/ SaveVM \/ LoadState
  <2>1. UNCHANGED <<cmdVars, compVars, received, sent, dstate, held>>
    BY <1>5 DEF QemuLaunch, Reset, QemuExit, SaveVM, LoadState, history,
                daemonVars
  <2> QED BY <2>1, ReplyOther
<1>6. CASE DaemonStart \/ DaemonExit
             \/ DaemonAttach \/ DaemonSizes \/ DaemonVulkan
  <2>1. /\ UNCHANGED <<cmdVars, compVars, received, sent>>
        /\ dstate \notin {"process", "consume"}
        /\ dstate' \notin {"process", "consume"}
    BY <1>6 DEF DaemonStart, DaemonAttach, DaemonSizes, DaemonVulkan,
                DaemonExit, history
  <2> QED BY <2>1, ReplyOther
<1>7. CASE Kext
  <2>1. RingsTyped
    BY <1>7, RingsThere
    DEF Kext, KextStarting, KextStart, AttachCheck, AttachSizes, SendHello,
        HelloFails, PollAnswer, PollEmpty, GiveUp, SendPing, KextStop
  <2>2. CASE PollAnswer
    BY <2>2, ReplyRead
  <2>3. CASE Submits
    BY <2>1, <2>3, ReplySubmit
  <2>4. CASE UNCHANGED <<cmdVars, compVars, received, sent, dstate, held>>
    BY <2>4, ReplyOther
  <2>5. \/ PollAnswer \/ Submits
        \/ UNCHANGED <<cmdVars, compVars, received, sent, dstate, held>>
    BY <1>7
    DEF Kext, KextStarting, KextStart, AttachCheck, AttachSizes, SendHello,
        HelloFails, PollEmpty, GiveUp, SendPing, KextStop, Submits, Ops,
        history, daemonVars
  <2> QED BY <2>2, <2>3, <2>4, <2>5
<1>8. \/ QemuClear \/ DaemonClear \/ QemuFill \/ DaemonFill
      \/ Peek \/ Skip \/ BlindSkip \/ Process \/ Consume \/ Kext
      \/ QemuLaunch \/ Reset \/ QemuExit \/ SaveVM \/ LoadState
      \/ DaemonStart \/ DaemonExit
      \/ DaemonAttach \/ DaemonSizes \/ DaemonVulkan
  BY DEF Next, Qemu, Daemon, DaemonLoop
<1> QED BY <1>1, <1>2, <1>3, <1>4, <1>5, <1>6, <1>7, <1>8

\* In the beginning nothing has been read, and there is no ring.
LEMMA ReplyOrderInit == Init => ReplyOrderInv
<1> SUFFICES ASSUME Init PROVE ReplyOrderInv
  OBVIOUS
<1>1. received = <<>> /\ DOMAIN comp_ring = {}
  BY DEF Init
<1>2. ~ RingsTyped
  <2>1. 0 \in 0 .. CompSize - 1
    BY SizesFacts
  <2> QED BY <1>1, <2>1 DEF RingsTyped
<1> QED BY <1>1, <1>2 DEF ReplyOrderInv, Rising, UpTo

\* Whatever strikes, the guest never reads a reply twice, nor one to a command
\* after the reply to a later one: a daemon that starts under a running guest
\* empties the completion ring, and a daemon whose command a reset has wiped
\* replies to it before all commands of the next boot.
THEOREM ReplyOrderCorrect == Spec => []ReceivedInOrder
<1>1. Init => OrderInv /\ ReplyOrderInv
  BY ReplyOrderInit, OrderInit
<1>2. /\ TypeInv /\ TypeInv' /\ OrderInv /\ ReplyOrderInv /\ [Next]_vars
      => (OrderInv /\ ReplyOrderInv)'
  <2> SUFFICES ASSUME TypeInv, TypeInv', OrderInv, ReplyOrderInv, [Next]_vars
               PROVE  OrderInv' /\ ReplyOrderInv'
    OBVIOUS
  <2>1. OrderInv'
    BY OrderKept
  <2>2. CASE UNCHANGED vars
    <3>1. UNCHANGED <<cmdVars, compVars, received, sent, dstate, held>>
      BY <2>2 DEF vars, history, daemonVars
    <3>2. ReplyOrderInv'
      BY <3>1, ReplyOther
    <3> QED BY <2>1, <3>2
  <2>3. CASE Next
    BY <2>1, <2>3, ReplyOrderStep
  <2> QED BY <2>2, <2>3
<1>3. TypeInv /\ ReplyOrderInv => ReceivedInOrder
  <2> SUFFICES ASSUME TypeInv, Rising(received), NEW i \in DOMAIN received,
                      NEW j \in DOMAIN received, i < j
               PROVE  received[i] < received[j]
    BY DEF ReplyOrderInv, ReceivedInOrder
  <2>1. received \in Seq(1 .. MaxSent)
    BY DEF TypeInv, HistoryInv
  <2>2. received[j] \in 1 .. MaxSent
    <3>1. j \in 1 .. Len(received)
      BY <2>1
    <3> QED BY <2>1, <3>1, ElementOfSeq
  <2>3. received[j] # 0
    BY <2>2, Bounds
  <2> QED BY <2>3 DEF Rising
<1>4. Spec => []TypeInv
  BY InitType, NextType, PTL DEF Spec
<1> QED BY <1>1, <1>2, <1>3, <1>4, PTL DEF Spec

(* Membership.                                                             *)

\* What is sent stays so while the boot lasts.
LEMMA SentStays ==
    ASSUME submitted \in Seq(Nat),
           \/ submitted' = submitted
           \/ \E n \in Nat : submitted' = Append(submitted, n)
    PROVE  /\ \A x : Sent(x) => Sent(x)'
           /\ \A s : AllSent(s) => AllSent(s)'
<1>1. ASSUME NEW j \in DOMAIN submitted
      PROVE  j \in DOMAIN submitted' /\ submitted'[j] = submitted[j]
  <2>1. CASE submitted' = submitted
    BY <2>1
  <2>2. ASSUME NEW n \in Nat, submitted' = Append(submitted, n)
        PROVE  j \in DOMAIN submitted' /\ submitted'[j] = submitted[j]
    <3>1. j \in 1 .. Len(submitted)
      OBVIOUS
    <3> QED BY <2>2, <3>1
  <2> QED BY <2>1, <2>2
<1>2. ASSUME NEW x, Sent(x) PROVE Sent(x)'
  BY <1>1, <1>2 DEF Sent
<1> QED BY <1>2 DEF AllSent

\* The end of a sequence of what is sent, and its beginning.
LEMMA MembersMove ==
    /\ AllSent(<<>>)
    /\ \A a \in Seq(Nat), x \in Nat :
          AllSent(a) /\ (x # 0 => Sent(x)) => AllSent(Append(a, x))
    /\ \A x \in Nat, b \in Seq(Nat) :
          AllSent(<<x>> \o b) => AllSent(b) /\ (x # 0 => Sent(x))
<1>1. AllSent(<<>>)
  BY DEF AllSent
<1>2. ASSUME NEW a \in Seq(Nat), NEW x \in Nat, AllSent(a), x # 0 => Sent(x)
      PROVE  AllSent(Append(a, x))
  <2> DEFINE c == Append(a, x)
  <2>1. AppendOf(c, a, x)
    BY AppendIs
  <2> HIDE DEF c
  <2>2. AllSent(c)
    BY <1>2, <2>1 DEF AppendOf, AllSent
  <2> QED BY <2>2 DEF c
<1>3. ASSUME NEW x \in Nat, NEW b \in Seq(Nat), AllSent(<<x>> \o b)
      PROVE  AllSent(b) /\ (x # 0 => Sent(x))
  <2> DEFINE v == <<x>> \o b
  <2>1. Cons(v, x, b) /\ AllSent(v)
    BY <1>3, ConsIs
  <2> HIDE DEF v
  <2>2. DOMAIN b = 1 .. Len(b) /\ Len(b) \in Nat
    OBVIOUS
  <2>3. 1 \in DOMAIN v /\ \A i \in DOMAIN b : i + 1 \in DOMAIN v
    BY <2>1, <2>2 DEF Cons
  <2> QED BY <2>1, <2>2, <2>3 DEF Cons, AllSent
<1> QED BY <1>1, <1>2, <1>3

\* Histories and windows are sequences of natural numbers.
LEMMA AllNumbers ==
    ASSUME TypeInv
    PROVE  /\ submitted \in Seq(Nat) /\ handled \in Seq(Nat)
           /\ received \in Seq(Nat) /\ sent \in Nat /\ held.n \in Nat
           /\ RingsTyped => Commands \in Seq(Nat) /\ Completions \in Seq(Nat)
<1>1. submitted \in Seq(Nat)
  <2>1. 1 .. MaxSent \subseteq Nat
    BY Bounds
  <2> QED BY <2>1, SeqLarger DEF TypeInv, HistoryInv
<1> QED BY <1>1, NumbersAre, RepliesAre

\* An initialisation leaves nothing waiting, and adds nothing.
LEMMA MembersInit ==
    ASSUME TypeInv, MembersInv, QemuFill \/ DaemonClear \/ DaemonFill
    PROVE  MembersInv'
<1>1. Commands' = <<>> /\ Completions' = <<>>
  BY EmptyRings DEF DaemonClear, QemuFill, DaemonFill, Clear, Fill
<1>2. \/ UNCHANGED <<submitted, handled, received>>
      \/ handled' = <<>> /\ received' = <<>>
  BY DEF DaemonClear, QemuFill, DaemonFill, Forget, Late, history
<1>3. AllSent(handled)' /\ AllSent(received)'
  <2>1. CASE UNCHANGED <<submitted, handled, received>>
    BY <2>1 DEF MembersInv, AllSent, Sent
  <2>2. CASE handled' = <<>> /\ received' = <<>>
    BY <2>2 DEF AllSent
  <2> QED BY <1>2, <2>1, <2>2
<1>4. AllSent(Commands)' /\ AllSent(Completions)'
  BY <1>1 DEF AllSent
<1> QED BY <1>3, <1>4 DEF MembersInv

\* A new command is sent.
LEMMA MembersSubmit ==
    ASSUME TypeInv, MembersInv, RingsTyped, Submits
    PROVE  MembersInv'
<1>1. PICK op \in Ops : Accepts /\ sent < MaxSent /\ Submit(op)
  BY DEF Submits
<1> DEFINE n == sent + 1
           c == Commands
           d == Commands'
           r == Completions
<1>2. d = Append(c, n) /\ submitted' = Append(submitted, n)
  BY <1>1, CommandAppended DEF Submit
<1>3. /\ UNCHANGED <<handled, received>> /\ Completions' = r
  BY <1>1 DEF Submit, Completions, compVars
<1>4. /\ submitted \in Seq(Nat) /\ c \in Seq(Nat) /\ n \in Nat
      /\ AllSent(handled) /\ AllSent(received) /\ AllSent(c) /\ AllSent(r)
  BY AllNumbers DEF MembersInv
<1> HIDE DEF n, c, d, r
<1>5. /\ \A x : Sent(x) => Sent(x)'
      /\ \A s : AllSent(s) => AllSent(s)'
  BY <1>2, <1>4, SentStays
<1>6. \E j \in DOMAIN submitted' : submitted'[j] = n
  <2>1. Len(submitted) + 1 \in DOMAIN submitted'
    BY <1>2, <1>4
  <2>2. submitted'[Len(submitted) + 1] = n
    BY <1>2, <1>4
  <2> QED BY <2>1, <2>2
<1>7. ASSUME NEW j \in DOMAIN d, d[j] # 0
      PROVE  \E k \in DOMAIN submitted' : submitted'[k] = d[j]
  <2>1. d[j] = n \/ (j \in DOMAIN c /\ d[j] = c[j])
    <3>1. AppendOf(d, c, n)
      BY <1>2, <1>4, AppendIs
    <3> QED BY <3>1 DEF AppendOf
  <2>2. CASE d[j] = n
    BY <1>6, <2>2
  <2>3. CASE j \in DOMAIN c /\ d[j] = c[j]
    <3>1. Sent(d[j])
      BY <1>4, <1>7, <2>3 DEF AllSent
    <3>2. \A x : Sent(x) => \E k \in DOMAIN submitted' : submitted'[k] = x
      BY <1>5 DEF Sent
    <3> QED BY <3>1, <3>2
  <2> QED BY <2>1, <2>2, <2>3
<1>8. AllSent(Commands)'
  BY <1>7 DEF AllSent, Sent, d
<1>9. AllSent(handled)' /\ AllSent(received)' /\ AllSent(Completions)'
  <2>1. \A s : AllSent(s) => \A i \in DOMAIN s :
            s[i] # 0 => \E k \in DOMAIN submitted' : submitted'[k] = s[i]
    BY <1>5 DEF AllSent, Sent
  <2> QED BY <1>3, <1>4, <2>1 DEF AllSent, Sent
<1> QED BY <1>8, <1>9 DEF MembersInv

\* What the daemon has in hand is sent, while it is still in the ring.
LEMMA HeldSent ==
    ASSUME TypeInv, MembersInv, HeldInv, dstate \in {"process", "consume"}
    PROVE  Sent(held.n)
<1>1. RingsTyped
  BY RingsThere
<1>2. /\ Avail(cmd_head, cmd_tail, CmdSize) >= 1 /\ held = HeadMessage
      /\ held \in Message /\ held # Zero
  BY DEF HeldInv, HeadMessage, TypeInv, DaemonInv
<1>3. /\ AllSent(<<HeadMessage.n>> \o RestOfCommands)
      /\ HeadMessage.n \in Nat /\ RestOfCommands \in Seq(Nat)
  <2>1. AllSent(Commands)
    BY <1>1 DEF MembersInv
  <2> QED BY <1>1, <1>2, <2>1, FirstWaits
<1>4. HeadMessage.n # 0
  BY <1>2, Bounds DEF Message
<1> QED BY <1>2, <1>3, <1>4, MembersMove

\* What leaves the command ring was sent.
LEMMA MembersHead ==
    ASSUME TypeInv, MembersInv, HeldInv, Skip \/ BlindSkip \/ Consume
    PROVE  MembersInv'
<1>1. RingsTyped /\ (Consume => dring.cmd = CmdSize)
  BY KnownToLoop, SkipsOne, SizesFacts
<1>2. /\ Avail(cmd_head, cmd_tail, CmdSize) >= 1
      /\ UNCHANGED <<cmd_ring, cmd_tail, compVars, received, submitted>>
      /\ cmd_head' = Mask(cmd_head + 1, CmdSize)
  <2>1. CASE Skip \/ BlindSkip
    BY <2>1, SkipsOne DEF history
  <2>2. CASE Consume
    BY <1>1, <2>2 DEF Consume, HeldInv
  <2> QED BY <2>1, <2>2
<1>3. Completions' = Completions
  BY <1>2 DEF Completions, compVars
<1>4. Commands' = RestOfCommands
  BY <1>2 DEF RestOfCommands, Commands, CmdNumbers
<1>5. /\ AllSent(handled) /\ AllSent(received)
      /\ AllSent(Commands) /\ AllSent(Completions)
  BY <1>1 DEF MembersInv
<1>6. AllSent(RestOfCommands)
  BY <1>1, <1>2, <1>5, FirstWaits, MembersMove
<1>7. AllSent(handled')
  <2>1. CASE Skip \/ BlindSkip
    BY <1>5, <2>1, SkipsOne DEF history
  <2>2. CASE Consume
    <3>1. handled' = Append(handled, held.n) /\ dstate = "consume"
      BY <2>2 DEF Consume
    <3>2. Sent(held.n)
      BY <3>1, HeldSent
    <3>3. handled \in Seq(Nat) /\ held.n \in Nat
      BY AllNumbers
    <3> QED BY <1>5, <3>1, <3>2, <3>3, MembersMove
  <2> QED BY <2>1, <2>2
<1>8. \A s : AllSent(s) => \A i \in DOMAIN s :
          s[i] # 0 => \E k \in DOMAIN submitted' : submitted'[k] = s[i]
  BY <1>2 DEF AllSent, Sent
<1>9. /\ AllSent(handled)' /\ AllSent(received)'
      /\ AllSent(Commands)' /\ AllSent(Completions)'
  BY <1>2, <1>3, <1>4, <1>5, <1>6, <1>7, <1>8 DEF AllSent, Sent
<1> QED BY <1>9 DEF MembersInv

\* A reply is to a command that was sent.
LEMMA MembersReply ==
    ASSUME TypeInv, MembersInv, HeldInv, Process \/ PollAnswer
    PROVE  MembersInv'
<1>1. RingsTyped /\ UNCHANGED <<cmdVars, submitted, handled>>
  BY RingsThere DEF Process, PollAnswer
<1>2. Commands' = Commands
  BY <1>1 DEF Commands, CmdNumbers, cmdVars
<1>3. /\ AllSent(handled) /\ AllSent(received)
      /\ AllSent(Commands) /\ AllSent(Completions)
  BY <1>1 DEF MembersInv
<1> DEFINE r == Completions
           q == Completions'
<1>4. r \in Seq(Nat) /\ received \in Seq(Nat) /\ held.n \in Nat
  BY <1>1, AllNumbers
<1>5. AllSent(q) /\ AllSent(received')
  <2>1. CASE Process
    <3>1. received' = received /\ dstate = "process"
      BY <2>1 DEF Process
    <3>2. q = Append(r, held.n) \/ q = r
      <4>1. CASE Answered /\ CompRoom
        BY <2>1, <4>1, ReplyAppended
      <4>2. CASE ~ (Answered /\ CompRoom)
        <5>1. UNCHANGED compVars
          BY <2>1, <4>2 DEF Process, compVars
        <5> QED BY <5>1 DEF Completions, compVars
      <4> QED BY <4>1, <4>2
    <3>3. Sent(held.n)
      BY <3>1, HeldSent
    <3>4. AllSent(r)
      BY <1>3
    <3> HIDE DEF q, r
    <3> QED BY <1>3, <1>4, <3>1, <3>2, <3>3, <3>4, MembersMove
  <2>2. CASE PollAnswer
    <3> DEFINE x == comp_ring[comp_head]
    <3>1. r = <<x>> \o q /\ x \in 1 .. MaxSent /\ q \in Seq(1 .. MaxSent)
      BY <2>2, FirstReply
    <3>2. received' = Append(received, x) /\ AllSent(r)
      BY <1>3, <2>2 DEF PollAnswer
    <3>3. 1 .. MaxSent \subseteq Nat
      BY Bounds
    <3> HIDE DEF q, r, x
    <3>4. q \in Seq(Nat) /\ x \in Nat
      BY <3>1, <3>3, SeqLarger
    <3>5. AllSent(q) /\ (x # 0 => Sent(x))
      BY <3>1, <3>2, <3>4, MembersMove
    <3> QED BY <1>3, <1>4, <3>2, <3>4, <3>5, MembersMove
  <2> QED BY <2>1, <2>2
<1> HIDE DEF q, r
<1>6. \A s : AllSent(s) => \A i \in DOMAIN s :
          s[i] # 0 => \E k \in DOMAIN submitted' : submitted'[k] = s[i]
  BY <1>1 DEF AllSent, Sent
<1>7. AllSent(handled)' /\ AllSent(received)' /\ AllSent(Commands)'
  BY <1>1, <1>2, <1>3, <1>5, <1>6 DEF AllSent, Sent
<1>8. AllSent(Completions)'
  BY <1>5, <1>6 DEF AllSent, Sent, q
<1> QED BY <1>7, <1>8 DEF MembersInv

\* What touches neither ring nor history.
LEMMA MembersOther ==
    ASSUME MembersInv,
           UNCHANGED <<cmdVars, compVars, submitted, handled, received>>
    PROVE  MembersInv'
<1>1. Commands' = Commands
  BY DEF Commands, CmdNumbers, cmdVars
<1>2. Completions' = Completions
  BY DEF Completions, compVars
<1>3. RingsTyped' => RingsTyped
  BY DEF RingsTyped, cmdVars, compVars
<1>4. \A s : AllSent(s) => \A i \in DOMAIN s :
          s[i] # 0 => \E k \in DOMAIN submitted' : submitted'[k] = s[i]
  BY DEF AllSent, Sent
<1>5. AllSent(handled)' /\ AllSent(received)'
  BY <1>4 DEF MembersInv, AllSent, Sent
<1>6. ASSUME RingsTyped PROVE AllSent(Commands)' /\ AllSent(Completions)'
  <2>1. AllSent(Commands) /\ AllSent(Completions)
    BY <1>6 DEF MembersInv
  <2> QED BY <1>1, <1>2, <1>4, <2>1 DEF AllSent, Sent
<1> QED BY <1>3, <1>5, <1>6 DEF MembersInv

\* A daemon that finds nothing in the ring takes nothing up, and no other step
\* puts anything there between QEMU's two stores.
LEMMA QuietStep ==
    ASSUME TypeInv, Next, ~ QemuClear, QuietInv, QuietRingInv
    PROVE  QuietInv' /\ QuietRingInv'
<1> SUFFICES ASSUME qstate' = "cleared"
             PROVE  /\ dstate' \notin {"process", "consume"}
                    /\ cmd_head' = cmd_tail'
  BY DEF QuietInv, QuietRingInv
<1>1. qstate = "cleared" /\ Daemon
  BY DEF Next, Qemu, QemuLaunch, Reset, ResetPhase, QemuFill, QemuExit, SaveVM,
         LoadState, Kext, KextStarting, KextStart, AttachCheck, AttachSizes,
         SendHello, HelloFails, PollAnswer, PollEmpty, GiveUp, SendPing, KextStop,
         Daemon, DaemonLoop, DaemonStart, DaemonClear, DaemonFill,
         DaemonAttach, DaemonSizes, DaemonVulkan, Peek, Skip, BlindSkip,
         Process, Consume, DaemonExit, qemuVars
<1>2. cmd_head = cmd_tail /\ dstate \notin {"process", "consume"}
  BY <1>1 DEF QuietInv, QuietRingInv
<1>3. Avail(cmd_head, cmd_tail, CmdSize) = 0
  BY <1>1, <1>2, RingsThere, EmptyWindows
<1>4. ~ (Peek \/ Skip \/ BlindSkip \/ Process \/ Consume)
  BY <1>2, <1>3, KnownToLoop, SizesFacts
  DEF Peek, Skip, BlindSkip, Process, Consume
<1>5. CASE DaemonClear \/ DaemonFill
  BY <1>5 DEF DaemonClear, DaemonFill, Clear, Fill
<1>6. CASE DaemonStart \/ DaemonExit
             \/ DaemonAttach \/ DaemonSizes \/ DaemonVulkan
  BY <1>2, <1>6 DEF DaemonStart, DaemonAttach, DaemonSizes, DaemonVulkan,
                    DaemonExit, cmdVars
<1> QED BY <1>1, <1>4, <1>5, <1>6 DEF Daemon, DaemonLoop

\* Every step but QEMU's clearing keeps the account of the members.
LEMMA MembersStep ==
    ASSUME TypeInv, MembersInv, HeldInv, Next, ~ QemuClear
    PROVE  MembersInv'
<1>1. CASE DaemonClear \/ QemuFill \/ DaemonFill
  BY <1>1, MembersInit
<1>2. CASE Skip \/ BlindSkip \/ Consume
  BY <1>2, MembersHead
<1>3. CASE Process \/ PollAnswer
  BY <1>3, MembersReply
<1>4. CASE Kext /\ Submits
  <2>1. RingsTyped
    BY <1>4, RingsThere
    DEF Kext, KextStarting, KextStart, AttachCheck, AttachSizes, SendHello,
        HelloFails, PollAnswer, PollEmpty, GiveUp, SendPing, KextStop
  <2> QED BY <1>4, <2>1, MembersSubmit
<1>5. CASE UNCHANGED <<cmdVars, compVars, submitted, handled, received>>
  BY <1>5, MembersOther
<1>6. \/ DaemonClear \/ QemuFill \/ DaemonFill
      \/ Skip \/ BlindSkip \/ Consume
      \/ Process \/ PollAnswer
      \/ Kext /\ Submits
      \/ UNCHANGED <<cmdVars, compVars, submitted, handled, received>>
  <2>1. CASE Qemu
    BY <2>1 DEF Qemu, QemuLaunch, Reset, QemuExit, SaveVM, LoadState, history
  <2>2. CASE DaemonStart \/ DaemonAttach \/ DaemonSizes \/ DaemonVulkan
      \/ Peek \/ DaemonExit
    <3>1. UNCHANGED <<cmdVars, compVars, submitted, handled, received>>
      BY <2>2 DEF DaemonStart, DaemonAttach, DaemonSizes, DaemonVulkan, Peek,
                  DaemonExit, history
    <3> QED BY <3>1
  <2>3. CASE Kext
    <3>1. \/ PollAnswer \/ Submits
          \/ UNCHANGED <<cmdVars, compVars, submitted, handled, received>>
      BY <2>3 DEF Kext, KextStarting, KextStart, AttachCheck, AttachSizes,
                  SendHello, HelloFails, PollEmpty, GiveUp, SendPing, KextStop,
                  Submits, Ops, history
    <3> QED BY <2>3, <3>1
  <2>4. Next => \/ Qemu \/ Kext
                \/ DaemonClear \/ DaemonFill \/ Skip \/ BlindSkip \/ Consume
                \/ Process
                \/ DaemonStart \/ Peek
                \/ DaemonAttach \/ DaemonSizes \/ DaemonVulkan
                \/ DaemonExit
    BY DEF Next, Daemon, DaemonLoop
  <2> QED BY <2>1, <2>2, <2>3, <2>4
<1> QED BY <1>1, <1>2, <1>3, <1>4, <1>5, <1>6

\* A reset that finds no command in hand starts afresh.
LEMMA ClearMembers ==
    ASSUME QemuClear, "busy" \notin disturbed'
    PROVE  MembersInv' /\ HeldInv' /\ QuietInv' /\ QuietRingInv'
<1>1. /\ dstate' \notin {"process", "consume"} /\ cmd_head' = 0 /\ cmd_tail' = 0
      /\ comp_head' = 0 /\ comp_tail' = 0
      /\ handled' = <<>> /\ received' = <<>>
  BY DEF QemuClear, Clear, Forget, daemonVars
<1>2. Commands' = <<>> /\ Completions' = <<>>
  BY <1>1, EmptyRings
<1>3. MembersInv'
  BY <1>1, <1>2 DEF MembersInv, AllSent
<1> QED BY <1>1, <1>3 DEF HeldInv, QuietInv, QuietRingInv

\* Steps and stutters keep the account.
LEMMA ThisBootStep ==
    ASSUME TypeInv, ThisBootInv, [Next]_vars
    PROVE  ThisBootInv'
<1> SUFFICES ASSUME "busy" \notin disturbed'
             PROVE  MembersInv' /\ HeldInv' /\ QuietInv' /\ QuietRingInv'
  BY DEF ThisBootInv
<1>1. CASE QemuClear
  BY <1>1, ClearMembers
<1>2. CASE Next /\ ~ QemuClear
  <2>1. MembersInv /\ HeldInv /\ QuietInv /\ QuietRingInv
    BY <1>2, DisturbedGrows DEF ThisBootInv
  <2> QED BY <1>2, <2>1, MembersStep, HeldStep, QuietStep
<1>3. CASE UNCHANGED vars
  <2>1. /\ UNCHANGED <<cmdVars, compVars, submitted, handled, received>>
        /\ UNCHANGED <<dstate, held, qstate, disturbed>>
    BY <1>3 DEF vars, history, daemonVars, qemuVars
  <2>2. MembersInv /\ HeldInv /\ QuietInv /\ QuietRingInv
    BY <2>1 DEF ThisBootInv
  <2>3. MembersInv'
    BY <2>1, <2>2, MembersOther
  <2>4. HeldInv' /\ QuietInv' /\ QuietRingInv'
    BY <2>1, <2>2 DEF HeldInv, QuietInv, QuietRingInv, cmdVars
  <2> QED BY <2>3, <2>4
<1> QED BY <1>1, <1>2, <1>3

\* Nothing is there in the beginning.
LEMMA ThisBootInit == Init => ThisBootInv
<1> SUFFICES ASSUME Init PROVE ThisBootInv
  OBVIOUS
<1>1. /\ handled = <<>> /\ received = <<>> /\ DOMAIN comp_ring = {}
      /\ dstate = "off" /\ qstate = "off"
  BY DEF Init
<1>2. ~ RingsTyped
  <2>1. 0 \in 0 .. CompSize - 1
    BY SizesFacts
  <2> QED BY <1>1, <2>1 DEF RingsTyped
<1>3. MembersInv
  BY <1>1, <1>2 DEF MembersInv, AllSent
<1> QED BY <1>1, <1>3 DEF ThisBootInv, HeldInv, QuietInv, QuietRingInv

\* A daemon that starts under a running guest may lose commands and replies but
\* adds none: what it handles, and what the guest reads replies to, are commands
\* of this boot, unless a reset strikes inside a command.
THEOREM LateDaemonOnlyLoses == Spec => []OnlyThisBoot
<1>1. TypeInv /\ ThisBootInv /\ [Next]_vars => TypeInv' /\ ThisBootInv'
  BY NextType, ThisBootStep
<1>2. TypeInv /\ ThisBootInv => OnlyThisBoot
  <2> SUFFICES ASSUME TypeInv, MembersInv
               PROVE  Elements(handled) \cup Elements(received)
                          \subseteq Elements(submitted)
    BY DEF ThisBootInv, OnlyThisBoot
  <2>1. ASSUME NEW s \in Seq(1 .. MaxSent), AllSent(s), NEW i \in DOMAIN s
        PROVE  s[i] \in Elements(submitted)
    <3>1. i \in 1 .. Len(s)
      OBVIOUS
    <3>2. s[i] \in 1 .. MaxSent
      BY <3>1, ElementOfSeq
    <3>3. s[i] # 0
      BY <3>2, Bounds
    <3> QED BY <2>1, <3>3 DEF AllSent, Sent, Elements
  <2>2. /\ handled \in Seq(1 .. MaxSent) /\ received \in Seq(1 .. MaxSent)
        /\ AllSent(handled) /\ AllSent(received)
    BY DEF TypeInv, HistoryInv, MembersInv
  <2> QED BY <2>1, <2>2 DEF Elements
<1> QED BY <1>1, <1>2, InitType, ThisBootInit, PTL DEF Spec

\* A kext that waits for its answer has sent only its HELLO.
LEMMA HelloStep ==
    ASSUME TypeInv, HelloInv, Next
    PROVE  HelloInv'
<1> SUFFICES ASSUME "reload" \notin disturbed'
             PROVE  HelloInv'
  BY DEF HelloInv
<1>2. CASE qstate' \notin {"cleared", "load", "on"} \/ submitted' = <<>>
  BY <1>2 DEF HelloInv
<1>6. CASE QemuClear
  BY <1>2, <1>6 DEF QemuClear, Forget
<1> SUFFICES ASSUME ~ QemuClear
             PROVE  HelloInv'
  BY <1>6
<1>1. /\ "reload" \notin disturbed
      /\ qstate \in {"cleared", "load"} => submitted = <<>>
      /\ qstate = "on" /\ kstate \in {"off", "attach", "sizes", "hello"} =>
            submitted = <<>>
      /\ qstate = "on" /\ kstate = "poll" =>
            \A j \in DOMAIN submitted : submitted[j] = hello
  <2>1. "reload" \notin disturbed
    BY DisturbedGrows
  <2> QED BY <2>1 DEF HelloInv
<1>3. CASE Qemu
  <2>1. CASE QemuFill
    <3>1. submitted' = <<>>
      BY <1>1, <2>1 DEF QemuFill, history
    <3> QED BY <1>2, <3>1
  <2>2. CASE LoadState
    <3>1. submitted' = <<>>
      BY <1>1, <2>2 DEF LoadState, history
    <3> QED BY <1>2, <3>1
  <2>3. CASE QemuLaunch \/ Reset \/ QemuExit \/ SaveVM
    <3>1. qstate' \in {"mapped", "off"}
      BY <2>3 DEF QemuLaunch, Reset, ResetPhase, QemuExit, SaveVM
    <3> QED BY <1>2, <3>1
  <2> QED BY <1>3, <2>1, <2>2, <2>3 DEF Qemu
<1>4. CASE Daemon
  <2>1. CASE (DaemonClear \/ DaemonFill) /\ qstate = "off"
    BY <1>2, <2>1 DEF DaemonClear, DaemonFill, Late, Forget
  <2>2. CASE ~ ((DaemonClear \/ DaemonFill) /\ qstate = "off")
    <3>1. UNCHANGED <<qstate, kstate, hello, submitted>>
      BY <1>4, <2>2
      DEF Daemon, DaemonLoop, DaemonStart, DaemonClear, DaemonFill, Late,
          DaemonAttach, DaemonSizes, DaemonVulkan, Peek, Skip, BlindSkip,
          Process, Consume, DaemonExit, qemuVars, kextVars, history
    <3> QED BY <1>1, <3>1 DEF HelloInv
  <2> QED BY <2>1, <2>2
<1>5. CASE Kext
  <2>1. CASE KextStart
    <3>1. kstate = "off" /\ qstate = "on"
      BY <2>1 DEF KextStart
    <3> QED BY <1>1, <1>2, <2>1, <3>1 DEF KextStart
  <2>2. CASE AttachCheck \/ AttachSizes \/ HelloFails
    <3>1. submitted' = <<>>
      BY <1>1, <2>2 DEF AttachCheck, AttachSizes, HelloFails, history
    <3> QED BY <1>2, <3>1
  <2>3. CASE SendHello
    <3>1. /\ submitted = <<>> /\ submitted' = Append(submitted, sent + 1)
          /\ hello' = sent + 1 /\ qstate' = "on" /\ kstate' = "poll"
      BY <1>1, <2>3 DEF SendHello, Submit, qemuVars
    <3>2. \A j \in DOMAIN submitted' : submitted'[j] = hello'
      BY <3>1
    <3> QED BY <3>1, <3>2 DEF HelloInv
  <2>4. CASE PollEmpty
    <3>1. UNCHANGED <<qstate, kstate, hello, submitted>>
      BY <2>4 DEF PollEmpty, qemuVars, history
    <3> QED BY <1>1, <3>1 DEF HelloInv
  <2>5. CASE PollAnswer \/ GiveUp \/ SendPing \/ KextStop
    <3>1. qstate' = "on" /\ kstate' \in {"ready", "stopped"}
      BY <2>5 DEF PollAnswer, GiveUp, SendPing, KextStop, qemuVars, kextVars
    <3> QED BY <3>1 DEF HelloInv
  <2> QED BY <1>5, <2>1, <2>2, <2>3, <2>4, <2>5 DEF Kext, KextStarting
<1> QED BY <1>3, <1>4, <1>5 DEF Next

\* A kext takes the first completion it finds for the answer to its HELLO, and
\* it is: whatever is in the completion ring answers a command of this boot, and
\* its HELLO is the only one, also when a daemon starts under it; not, though,
\* when a reset has struck inside a command or the kext has been loaded again.
THEOREM AnswerCorrect == Spec => AnswerMatches
<1> DEFINE Inv == TypeInv /\ ThisBootInv /\ HelloInv
<1>1. Init => Inv
  <2>1. Init => HelloInv
    BY DEF Init, HelloInv
  <2> QED BY <2>1, InitType, ThisBootInit
<1>2. Inv /\ [Next]_vars => Inv'
  <2>1. ASSUME HelloInv, UNCHANGED vars PROVE HelloInv'
    BY <2>1 DEF HelloInv, vars, qemuVars, kextVars, history
  <2> QED BY <2>1, NextType, ThisBootStep, HelloStep
<1>3. Inv /\ [Next]_vars =>
          [PollAnswer /\ disturbed \cap {"busy", "reload"} = {} =>
               answer' = hello]_vars
  <2> SUFFICES ASSUME Inv, PollAnswer, disturbed \cap {"busy", "reload"} = {}
               PROVE  answer' = hello
    OBVIOUS
  <2> DEFINE c == comp_ring[comp_head]
             r == Completions
             q == Completions'
  <2>1. r = <<c>> \o q /\ c \in 1 .. MaxSent /\ q \in Seq(1 .. MaxSent)
    BY FirstReply
  <2>2. RingsTyped
    BY RingsThere DEF PollAnswer
  <2>3. AllSent(r)
    BY <2>2 DEF ThisBootInv, MembersInv
  <2>4. 1 .. MaxSent \subseteq Nat /\ c # 0
    BY <2>1, Bounds
  <2>5. \A j \in DOMAIN submitted : submitted[j] = hello
    BY DEF HelloInv, PollAnswer
  <2>6. answer' = c
    BY DEF PollAnswer
  <2> HIDE DEF c, r, q
  <2>7. q \in Seq(Nat) /\ c \in Nat
    BY <2>1, <2>4, SeqLarger
  <2>8. Sent(c)
    BY <2>1, <2>3, <2>4, <2>7, MembersMove
  <2> QED BY <2>5, <2>6, <2>8 DEF Sent
<1> QED BY <1>1, <1>2, <1>3, PTL DEF Spec, AnswerMatches
=============================================================================
