------------------------- MODULE GravityRing_proofs -------------------------
(***************************************************************************)
(* Proofs about GravityRing, in three layers:                              *)
(*   TypeInv      any clients, any commands; and CopyInv, that the         *)
(*                daemon's copy stays inside its buffer;                   *)
(*   PositionInv  one client, any commands: the masked indices are the     *)
(*                positions of the stream, and nothing is overrun;         *)
(*   StreamInv    one client, well-formed commands: the words between the  *)
(*                positions are the accepted commands.                     *)
(***************************************************************************)
EXTENDS GravityRing, ModArith, SequenceTheorems

USE DEF HasSpace, Copied, NewTail, HeaderAvailable, BodyCopied, SkipSize,
        CommandSize

-----------------------------------------------------------------------------
(* Layer 1: types. *)

\* TypeOK is inductive once it is known that a client inside cmd_write has a
\* command, and that the declared size was checked before the body is read.
TypeInv ==
    /\ TypeOK
    /\ \A cl \in Clients : wpc[cl] # "idle" => src[cl] \in Commands
    /\ dpc \in {"body", "consume"} =>
          HdrDeclared <= BufSize /\ HdrDeclared <= avail /\ ri >= HdrSize

\* Masking a position yields a slot of the ring.
LEMMA MaskSlot ==
    ASSUME NEW x \in Int
    PROVE  Mask(x) \in Slot
BY RingAssumption, ModRange DEF Mask, Slot

\* The initial state is well typed.
LEMMA TypeInit == Init => TypeInv
BY RingAssumption, CommandsAssumption
   DEF Init, TypeInv, TypeOK, Slot, HdrDeclared

\* A step of a client keeps the types.
LEMMA TypeClient ==
    ASSUME TypeInv, NEW cl \in Clients, Client(cl)
    PROVE  TypeInv'
<1> USE RingAssumption, CommandsAssumption DEF TypeInv, TypeOK, HdrDeclared
<1>1. ASSUME NEW c \in Commands, BeginWrite(cl, c) PROVE TypeInv'
  BY <1>1 DEF BeginWrite, daemonVars
<1>2. CASE LoadTail(cl)
  BY <1>2 DEF LoadTail, daemonVars
<1>3. CASE WriteWord(cl)
  <2>1. src[cl] \in Commands
    BY <1>3 DEF WriteWord
  <2>2. src[cl][wi[cl] + 1] \in Nat
    <3>1. wi[cl] + 1 \in 1 .. Len(src[cl]) /\ src[cl] \in Seq(Nat)
      BY <2>1, <1>3 DEF WriteWord
    <3> QED BY <3>1
  <2>3. Mask(tail[cl] + wi[cl]) \in Slot
    <3>1. tail[cl] + wi[cl] \in Int
      BY DEF Slot
    <3> QED BY <3>1, MaskSlot
  <2>5. wi' \in [Clients -> Nat]
    BY <1>3 DEF WriteWord
  <2>4. cmd_ring' \in [Slot -> Nat]
    BY <1>3, <2>2, <2>3 DEF WriteWord
  <2> QED BY <1>3, <2>4, <2>5 DEF WriteWord, daemonVars
<1>4. CASE PublishTail(cl)
  <2>1. src[cl] \in Commands /\ src[cl] \in Seq(Nat)
    BY <1>4 DEF PublishTail
  <2>2. Mask(tail[cl] + Len(src[cl])) \in Slot
    <3>1. tail[cl] + Len(src[cl]) \in Int
      BY <2>1 DEF Slot
    <3> QED BY <3>1, MaskSlot
  <2>4. wpc' \in [Clients -> {"idle", "load", "copy"}] /\ written' \in Nat
    BY <1>4, <2>1 DEF PublishTail
  <2>3. accepted' \in Seq(Commands) /\ starts' \in Seq(Nat)
        /\ Len(starts') = Len(accepted')
    BY <1>4, <2>1 DEF PublishTail
  <2> QED BY <1>4, <2>1, <2>2, <2>3, <2>4 DEF PublishTail, daemonVars
<1> QED BY <1>1, <1>2, <1>3, <1>4 DEF Client

\* A step of the daemon keeps the types.
LEMMA TypeDaemon ==
    ASSUME TypeInv, Daemon
    PROVE  TypeInv'
<1> USE RingAssumption DEF TypeInv, TypeOK, HdrDeclared, clientVars
<1>0. CmdAvailable \in Slot
  <2>1. cmd_tail - cmd_head \in Int
    BY DEF Slot
  <2> QED BY <2>1, MaskSlot DEF CmdAvailable
<1>1. CASE PeekAvailable
  BY <1>0, <1>1 DEF PeekAvailable
<1>2. ASSUME ReadWord, ri < BufSize PROVE cmd_buf' \in [0 .. BufSize - 1 -> Nat]
  <2>1. cmd_head + ri \in Int
    BY DEF Slot
  <2>2. cmd_ring[Mask(cmd_head + ri)] \in Nat
    BY <2>1, MaskSlot
  <2> QED BY <1>2, <2>2 DEF ReadWord
<1>3. CASE PeekHeader
  <2>1. ReadWord /\ ri < BufSize /\ dpc = "header" /\ ri < HdrSize
    BY <1>3 DEF PeekHeader
  <2> QED BY <2>1, <1>2 DEF ReadWord
<1>4. CASE PeekAccept
  BY <1>4 DEF PeekAccept, SizeFits
<1>5. CASE PeekGiveUp
  BY <1>5 DEF PeekGiveUp
<1>6. CASE PeekBody
  <2>1. ReadWord /\ dpc = "body" /\ ri < HdrDeclared /\ ri < BufSize
    BY <1>6 DEF PeekBody
  <2>2. HdrDeclared' = HdrDeclared
    BY <2>1 DEF ReadWord
  <2> QED BY <2>1, <2>2, <1>2 DEF ReadWord
<1>7. CASE ProcessCommand
  <2>1. PeekedCommand \in Seq(Nat)
    <3>1. HdrDeclared \in Nat /\ HdrDeclared <= BufSize
      BY <1>7 DEF ProcessCommand
    <3>2. \A i \in 1 .. HdrDeclared : cmd_buf[i - 1] \in Nat
      BY <3>1
    <3>3. PeekedCommand \in [1 .. HdrDeclared -> Nat]
      BY <3>2 DEF PeekedCommand
    <3>4. PeekedCommand \in UNION {[1 .. n -> Nat] : n \in Nat}
      BY <3>1, <3>3
    <3> QED BY <3>4, SeqDef, Zenon
  <2> QED BY <1>7, <2>1 DEF ProcessCommand
<1>8. ASSUME NEW n \in Nat, Consume(n) PROVE TypeInv'
  <2>1. cmd_head + n \in Int
    BY DEF Slot
  <2>2. Mask(cmd_head + n) \in Slot
    BY <2>1, MaskSlot
  <2> QED BY <1>8, <2>2 DEF Consume
<1>9. CASE SkipInvalid
  BY <1>8, <1>9 DEF SkipInvalid
<1>10. CASE ConsumeCommand
  <2>1. HdrDeclared \in Nat
    OBVIOUS
  <2> QED BY <1>8, <1>10, <2>1 DEF ConsumeCommand
<1> QED BY <1>1, <1>3, <1>4, <1>5, <1>6, <1>7, <1>9, <1>10 DEF Daemon

\* Every reachable state of the ring, its clients and the daemon is well typed.
THEOREM TypeCorrect == Spec => []TypeOK
<1>1. Init => TypeInv
  BY TypeInit
<1>2. TypeInv /\ [Next]_vars => TypeInv'
  <2> SUFFICES ASSUME TypeInv, [Next]_vars PROVE TypeInv'
    OBVIOUS
  <2>1. CASE UNCHANGED vars
    BY <2>1 DEF vars, clientVars, daemonVars, TypeInv, TypeOK, HdrDeclared
  <2> QED BY <2>1, TypeClient, TypeDaemon DEF Next
<1>3. TypeInv => TypeOK
  BY DEF TypeInv
<1> QED BY <1>1, <1>2, <1>3, PTL DEF Spec

-----------------------------------------------------------------------------
(* Any number of clients. *)

\* What the daemon checks for itself: it has found a header's worth of words,
\* copies no more than it has found and no more than its buffer holds.
CopyInv ==
    /\ TypeInv
    /\ dpc # "poll" => HdrSize <= avail
    /\ dpc = "header" => ri <= HdrSize
    /\ dpc \in {"header", "body"} => ri <= avail /\ ri <= BufSize

\* The daemon's own steps keep it, whatever it finds in the ring.
LEMMA CopyDaemon ==
    ASSUME CopyInv, Daemon
    PROVE  CopyInv'
<1> USE RingAssumption DEF HdrDeclared
<1>0. TypeInv /\ TypeInv'
  BY TypeDaemon DEF CopyInv
<1>1. avail \in Nat /\ ri \in Nat /\ CmdAvailable \in Int /\ HdrDeclared \in Nat
  <2>1. cmd_buf \in [0 .. BufSize - 1 -> Nat] /\ 1 \in 0 .. BufSize - 1
        /\ cmd_tail - cmd_head \in Int
    <3>1. cmd_tail \in Slot /\ cmd_head \in Slot
          /\ cmd_buf \in [0 .. BufSize - 1 -> Nat]
      BY <1>0 DEF TypeInv, TypeOK
    <3>2. cmd_tail \in Int /\ cmd_head \in Int
      BY <3>1 DEF Slot
    <3>3. 1 \in 0 .. BufSize - 1
      OBVIOUS
    <3> QED BY <3>1, <3>2, <3>3
  <2>2. CmdAvailable \in Slot
    BY <2>1, MaskSlot DEF CmdAvailable
  <2> QED BY <1>0, <2>1, <2>2 DEF TypeInv, TypeOK, Slot
<1>2. CASE PeekAvailable
  BY <1>0, <1>1, <1>2 DEF PeekAvailable, HeaderAvailable, CopyInv
<1>3. CASE PeekHeader
  BY <1>0, <1>1, <1>3 DEF PeekHeader, ReadWord, CopyInv
<1>4. CASE PeekAccept \/ PeekGiveUp
  BY <1>0, <1>4 DEF PeekAccept, PeekGiveUp, CopyInv
<1>5. CASE PeekBody
  <2>1. ri < avail /\ ri < BufSize
    BY <1>0, <1>1, <1>5 DEF PeekBody, TypeInv
  <2> QED BY <1>0, <1>1, <1>5, <2>1 DEF PeekBody, ReadWord, CopyInv
<1>6. CASE ProcessCommand
  BY <1>0, <1>6 DEF ProcessCommand, CopyInv
<1>7. CASE SkipInvalid \/ ConsumeCommand
  BY <1>0, <1>7 DEF SkipInvalid, ConsumeCommand, Consume, CopyInv
<1> QED BY <1>2, <1>3, <1>4, <1>5, <1>6, <1>7 DEF Daemon

\* However many clients write, whatever they write and however their calls
\* overlap, the daemon copies no word behind the end of its buffer and none
\* behind what it found available, and it never consumes more than that
\* (cmd_peek, command_loop, cmd_consume).
THEOREM CopyBounded ==
    Spec => /\ [](dpc \in {"header", "body"} => ri <= avail /\ ri <= BufSize)
            /\ [][consumed' <= consumed + avail]_vars
<1>1. Init => CopyInv
  BY TypeInit DEF Init, CopyInv
<1>2. CopyInv /\ [Next]_vars => CopyInv'
  <2> SUFFICES ASSUME CopyInv, [Next]_vars PROVE CopyInv'
    OBVIOUS
  <2>1. ASSUME NEW cl \in Clients, Client(cl) PROVE CopyInv'
    <3>1. TypeInv' /\ UNCHANGED daemonVars
      BY <2>1, TypeClient
         DEF CopyInv, Client, BeginWrite, LoadTail, WriteWord, PublishTail
    <3> QED BY <3>1 DEF CopyInv, daemonVars
  <2>2. CASE UNCHANGED vars
    <3>1. TypeInv'
      BY <2>2 DEF vars, clientVars, daemonVars, CopyInv, TypeInv, TypeOK, HdrDeclared
    <3> QED BY <2>2, <3>1 DEF vars, daemonVars, CopyInv
  <2> QED BY <2>1, <2>2, CopyDaemon DEF Next
<1>3. CopyInv => (dpc \in {"header", "body"} => ri <= avail /\ ri <= BufSize)
  BY DEF CopyInv
<1>4. CopyInv /\ [Next]_vars => [consumed' <= consumed + avail]_vars
  <2> SUFFICES ASSUME CopyInv, Next PROVE consumed' <= consumed + avail
    OBVIOUS
  <2>1. consumed \in Nat /\ avail \in Nat /\ HdrSize \in Nat
    BY RingAssumption DEF CopyInv, TypeInv, TypeOK, Slot
  <2>2. CASE SkipInvalid
    BY <2>1, <2>2 DEF SkipInvalid, SkipSize, Consume, CopyInv
  <2>3. CASE ConsumeCommand
    <3>1. consumed' = consumed + HdrDeclared /\ HdrDeclared <= avail
      BY <2>3 DEF ConsumeCommand, CommandSize, Consume, CopyInv, TypeInv
    <3>2. HdrDeclared \in Nat
      <4>1. cmd_buf \in [0 .. BufSize - 1 -> Nat]
        BY DEF CopyInv, TypeInv, TypeOK
      <4>2. 1 \in 0 .. BufSize - 1
        BY RingAssumption
      <4> QED BY <4>1, <4>2 DEF HdrDeclared
    <3> QED BY <2>1, <3>1, <3>2
  <2>4. consumed' = consumed \/ SkipInvalid \/ ConsumeCommand
    BY DEF Next, Client, Daemon, BeginWrite, LoadTail, WriteWord, PublishTail,
           daemonVars, PeekAvailable, PeekHeader, ReadWord, PeekAccept,
           PeekGiveUp, PeekBody, ProcessCommand
  <2> QED BY <2>1, <2>2, <2>3, <2>4
<1> QED BY <1>1, <1>2, <1>3, <1>4, PTL DEF Spec

-----------------------------------------------------------------------------
(* Layer 2: positions, for one client. *)

\* The guest submits from one place at a time, as a single-producer ring asks.
SingleClient == \A p, q \in Clients : p = q

\* The indices are the stream positions, masked; a writer has reserved its
\* room and starts at the end of the stream; the daemon stays inside what was
\* published.
PositionInv ==
    /\ TypeInv
    /\ cmd_tail = Mask(written)
    /\ cmd_head = Mask(consumed)
    /\ consumed <= written
    /\ written - consumed <= RingSize - 1
    /\ \A cl \in Clients :
          /\ wpc[cl] # "idle" =>
                written - consumed + Len(src[cl]) <= RingSize - 1
          /\ wpc[cl] = "copy" => tail[cl] = cmd_tail /\ wi[cl] <= Len(src[cl])
    /\ dpc # "poll" => HdrSize <= avail /\ avail <= written - consumed
    /\ dpc \in {"header", "body"} => ri <= avail /\ ri <= BufSize
    /\ dpc = "header" => ri <= HdrSize

\* Advancing a masked position masks the advanced position.
LEMMA MaskAdd ==
    ASSUME NEW x \in Int, NEW n \in Int
    PROVE  Mask(Mask(x) + n) = Mask(x + n)
BY RingAssumption, ModAdd DEF Mask

\* The masked distance of two positions less than a ring apart is exact.
LEMMA MaskDistance ==
    ASSUME NEW x \in Int, NEW y \in Int, x <= y, y <= x + (RingSize - 1)
    PROVE  Mask(Mask(y) - Mask(x)) = y - x
<1>1. RingSize \in Nat \ {0} /\ y < x + RingSize
  BY RingAssumption
<1> QED BY <1>1, ModDistance DEF Mask

\* Positions less than a ring apart share no slot.
LEMMA MaskInjective ==
    ASSUME NEW x \in Int, NEW y \in Int, x < y, y < x + RingSize
    PROVE  Mask(x) # Mask(y)
<1>1. RingSize \in Nat \ {0} /\ x <= y /\ x # y
  BY RingAssumption
<1>2. ASSUME x % RingSize = y % RingSize PROVE x = y
  BY <1>1, <1>2, ModInjective
<1> QED BY <1>1, <1>2 DEF Mask

\* The invariant gives what the daemon sees as available and what a client sees
\* as space.
LEMMA AvailableIsExact ==
    ASSUME PositionInv
    PROVE  /\ CmdAvailable = written - consumed
           /\ CmdSpace = (RingSize - 1) - (written - consumed)
<1>1. consumed \in Int /\ written \in Int /\ RingSize \in Nat
      /\ consumed <= written /\ written <= consumed + (RingSize - 1)
      /\ cmd_tail = Mask(written) /\ cmd_head = Mask(consumed)
  BY RingAssumption DEF PositionInv, TypeInv, TypeOK
<1>2. Mask(cmd_tail - cmd_head) = written - consumed
  BY <1>1, MaskDistance
<1> QED BY <1>2 DEF CmdAvailable, CmdSpace

\* The initial state.
LEMMA PositionInit == Init => PositionInv
<1> SUFFICES ASSUME Init PROVE PositionInv
  OBVIOUS
<1>1. TypeInv
  BY TypeInit
<1>2. Mask(0) = 0
  BY RingAssumption DEF Mask
<1> QED BY <1>1, <1>2, RingAssumption DEF Init, PositionInv

\* A step of the only client keeps the positions.
LEMMA PositionClient ==
    ASSUME SingleClient, PositionInv, NEW cl \in Clients, Client(cl)
    PROVE  PositionInv'
<1> USE RingAssumption DEF HdrDeclared
<1>0. TypeInv /\ TypeInv'
  BY TypeClient DEF PositionInv
<1>a. \A p \in Clients : p = cl
  BY DEF SingleClient
<1>1. ASSUME NEW c \in Commands, BeginWrite(cl, c) PROVE PositionInv'
  <2>1. Len(c) <= (RingSize - 1) - (written - consumed) /\ Len(c) \in Nat
    BY <1>1, AvailableIsExact, CommandsAssumption DEF BeginWrite
  <2>2. src'[cl] = c /\ wpc'[cl] = "load"
    BY <1>0, <1>1 DEF BeginWrite, TypeInv, TypeOK
  <2>3. written - consumed + Len(c) <= RingSize - 1
    BY <2>1, <1>0 DEF TypeInv, TypeOK
  <2> QED BY <1>0, <1>a, <1>1, <2>2, <2>3
          DEF BeginWrite, daemonVars, PositionInv
<1>2. CASE LoadTail(cl)
  <2>1. wi'[cl] = 0 /\ tail'[cl] = cmd_tail /\ Len(src[cl]) \in Nat
    BY <1>0, <1>2, CommandsAssumption DEF LoadTail, TypeInv, TypeOK
  <2>2. wpc[cl] = "load"
    BY <1>2 DEF LoadTail
  <2> QED BY <1>0, <1>a, <1>2, <2>1, <2>2
          DEF LoadTail, daemonVars, PositionInv
<1>3. CASE WriteWord(cl)
  <2>1. wi'[cl] = wi[cl] + 1 /\ wi[cl] < Len(src[cl]) /\ wi[cl] \in Nat
        /\ Len(src[cl]) \in Nat
    BY <1>0, <1>3, CommandsAssumption DEF WriteWord, TypeInv, TypeOK
  <2>2. wi'[cl] <= Len(src[cl])
    BY <2>1
  <2> QED BY <1>0, <1>a, <1>3, <2>2 DEF WriteWord, daemonVars, PositionInv
<1>4. CASE PublishTail(cl)
  <2>1. src[cl] \in Commands /\ Len(src[cl]) \in Nat
    BY <1>0, <1>4, CommandsAssumption DEF PublishTail, TypeInv
  <2>2. tail[cl] = Mask(written) /\ written \in Nat /\ consumed \in Nat
        /\ avail \in Int
    BY <1>0, <1>4 DEF PublishTail, PositionInv, TypeInv, TypeOK, Slot
  <2>3. cmd_tail' = Mask(written + Len(src[cl]))
    BY <1>4, <2>1, <2>2, MaskAdd DEF PublishTail
  <2>4. wpc'[cl] = "idle"
    BY <1>0, <1>4 DEF PublishTail, TypeInv, TypeOK
  <2>5. written' = written + Len(src[cl]) /\ consumed' = consumed
        /\ written - consumed + Len(src[cl]) <= RingSize - 1
    BY <1>4 DEF PublishTail, daemonVars, PositionInv
  <2>6. consumed' <= written' /\ written' - consumed' <= RingSize - 1
        /\ (avail <= written - consumed => avail <= written' - consumed')
    BY <2>1, <2>2, <2>5, <1>0 DEF PositionInv
  <2> QED BY <1>0, <1>a, <1>4, <2>3, <2>4, <2>5, <2>6
          DEF PublishTail, daemonVars, PositionInv
<1> QED BY <1>1, <1>2, <1>3, <1>4 DEF Client

\* A step of the daemon keeps the positions.
LEMMA PositionDaemon ==
    ASSUME PositionInv, Daemon
    PROVE  PositionInv'
<1> USE RingAssumption DEF HdrDeclared, clientVars
<1>0. TypeInv /\ TypeInv'
  BY TypeDaemon DEF PositionInv
<1>t. avail \in Nat /\ ri \in Nat /\ written \in Nat /\ consumed \in Nat
      /\ HdrDeclared \in Nat /\ cmd_buf \in [0 .. BufSize - 1 -> Nat]
  <2>1. cmd_buf \in [0 .. BufSize - 1 -> Nat]
    BY <1>0 DEF TypeInv, TypeOK
  <2>3. 1 \in 0 .. BufSize - 1
    OBVIOUS
  <2>2. avail \in Nat
    BY <1>0 DEF TypeInv, TypeOK, Slot
  <2> QED BY <1>0, <2>1, <2>2, <2>3 DEF TypeInv, TypeOK
<1>1. CASE PeekAvailable
  BY <1>0, <1>t, <1>1, AvailableIsExact DEF PeekAvailable, PositionInv
<1>2. CASE PeekHeader
  BY <1>0, <1>t, <1>2 DEF PeekHeader, ReadWord, PositionInv
<1>3. CASE PeekAccept
  BY <1>0, <1>t, <1>3 DEF PeekAccept, PositionInv
<1>4. CASE PeekGiveUp
  BY <1>0, <1>t, <1>4 DEF PeekGiveUp, PositionInv
<1>5. CASE PeekBody
  <2>1. ri < avail /\ ri < BufSize
    BY <1>t, <1>0, <1>5 DEF PeekBody, TypeInv
  <2> QED BY <1>0, <1>t, <1>5, <2>1 DEF PeekBody, ReadWord, PositionInv
<1>6. CASE ProcessCommand
  BY <1>0, <1>t, <1>6 DEF ProcessCommand, PositionInv
<1>7. ASSUME NEW n \in Nat, Consume(n), n <= avail, dpc # "poll"
      PROVE  PositionInv'
  <2>1. cmd_head = Mask(consumed) /\ cmd_head' = Mask(cmd_head + n)
    BY <1>7 DEF Consume, PositionInv
  <2>2. cmd_head' = Mask(consumed + n)
    BY <2>1, <1>t, MaskAdd
  <2>3. consumed' = consumed + n /\ written' = written /\ consumed' <= written'
        /\ written' - consumed' <= RingSize - 1
    BY <1>7, <1>t DEF Consume, PositionInv
  <2>4. \A cl \in Clients : wpc[cl] # "idle" =>
            written - (consumed + n) + Len(src[cl]) <= RingSize - 1
    <3> SUFFICES ASSUME NEW cl \in Clients, wpc[cl] # "idle"
                 PROVE  written - (consumed + n) + Len(src[cl]) <= RingSize - 1
      OBVIOUS
    <3>1. Len(src[cl]) \in Nat
      BY <1>0, CommandsAssumption DEF TypeInv
    <3>2. written - consumed + Len(src[cl]) <= RingSize - 1
      BY DEF PositionInv
    <3> QED BY <3>1, <3>2, <1>t
  <2> QED BY <1>0, <1>7, <2>2, <2>3, <2>4 DEF Consume, PositionInv
<1>8. CASE SkipInvalid
  <2>1. HdrSize \in Nat /\ HdrSize <= avail /\ dpc # "poll"
    BY <1>8 DEF SkipInvalid, PositionInv
  <2> QED BY <2>1, <1>7, <1>8 DEF SkipInvalid
<1>9. CASE ConsumeCommand
  <2>1. HdrDeclared <= avail /\ dpc # "poll"
    BY <1>0, <1>9 DEF ConsumeCommand, TypeInv
  <2> QED BY <2>1, <1>t, <1>7, <1>9 DEF ConsumeCommand
<1> QED BY <1>1, <1>2, <1>3, <1>4, <1>5, <1>6, <1>8, <1>9 DEF Daemon

\* Positions are kept by every step, and by none.
LEMMA PositionStep ==
    ASSUME SingleClient, PositionInv, [Next]_vars
    PROVE  PositionInv'
<1>1. CASE UNCHANGED vars
  BY <1>1 DEF vars, clientVars, daemonVars, PositionInv, TypeInv, TypeOK,
              HdrDeclared
<1> QED BY <1>1, PositionClient, PositionDaemon DEF Next

\* With one client the daemon always sees exactly the words published and not
\* consumed, and peek never leaves its buffer or the published words, whatever
\* the words are (cmd_space, cmd_available, cmd_peek).
THEOREM AvailabilityCorrect ==
    ASSUME SingleClient
    PROVE  Spec => [](AvailabilityExact /\ PeekInBounds)
<1>1. Init => PositionInv
  BY PositionInit
<1>2. PositionInv /\ [Next]_vars => PositionInv'
  BY PositionStep
<1>3. PositionInv => AvailabilityExact /\ PeekInBounds
  <2> SUFFICES ASSUME PositionInv PROVE AvailabilityExact /\ PeekInBounds
    OBVIOUS
  <2> QED BY AvailableIsExact DEF AvailabilityExact, PeekInBounds, PositionInv
<1> QED BY <1>1, <1>2, <1>3, PTL DEF Spec

\* While the daemon copies a command no client touches the words it has been
\* told are available (cmd_peek, cmd_write).
THEOREM PeekIsStable ==
    ASSUME SingleClient
    PROVE  Spec => StableWhilePeeked
<1> DEFINE Stable == \A i \in 0 .. avail - 1 :
             cmd_ring'[Mask(cmd_head + i)] = cmd_ring[Mask(cmd_head + i)]
<1>1. Init => PositionInv
  BY PositionInit
<1>2. PositionInv /\ [Next]_vars => PositionInv'
  BY PositionStep
<1>3. PositionInv /\ [Next]_vars => [dpc # "poll" => Stable]_vars
  <2> SUFFICES ASSUME PositionInv, [Next]_vars, dpc # "poll",
                      NEW i \in 0 .. avail - 1
               PROVE  cmd_ring'[Mask(cmd_head + i)] = cmd_ring[Mask(cmd_head + i)]
    OBVIOUS
  <2>1. ASSUME NEW cl \in Clients, WriteWord(cl)
        PROVE  Mask(tail[cl] + wi[cl]) # Mask(cmd_head + i)
    <3>1. written \in Nat /\ consumed \in Nat /\ avail \in Int /\ i \in Int
          /\ wi[cl] \in Nat /\ RingSize \in Nat
      BY RingAssumption DEF PositionInv, TypeInv, TypeOK, Slot
    <3>2. wi[cl] < Len(src[cl]) /\ Len(src[cl]) \in Nat
          /\ tail[cl] = Mask(written) /\ cmd_head = Mask(consumed)
          /\ written - consumed + Len(src[cl]) <= RingSize - 1
          /\ avail <= written - consumed
      BY <2>1, CommandsAssumption DEF WriteWord, PositionInv, TypeInv
    <3>3. Mask(tail[cl] + wi[cl]) = Mask(written + wi[cl])
      <4>1. written \in Int /\ wi[cl] \in Int
        BY <3>1
      <4> QED BY <3>2, <4>1, MaskAdd
    <3>6. Mask(cmd_head + i) = Mask(consumed + i)
      <4>1. consumed \in Int /\ i \in Int
        BY <3>1
      <4> QED BY <3>2, <4>1, MaskAdd
    <3>4. consumed + i < written + wi[cl]
          /\ written + wi[cl] < consumed + i + RingSize
      BY <3>1, <3>2
    <3>5. consumed + i \in Int /\ written + wi[cl] \in Int
      BY <3>1
    <3> QED BY <3>3, <3>4, <3>5, <3>6, MaskInjective
  <2>2. ASSUME NEW cl \in Clients, WriteWord(cl)
        PROVE  cmd_ring'[Mask(cmd_head + i)] = cmd_ring[Mask(cmd_head + i)]
    <3>1. Mask(cmd_head + i) \in Slot
      <4>1. cmd_head + i \in Int
        BY DEF PositionInv, TypeInv, TypeOK, Slot
      <4> QED BY <4>1, MaskSlot
    <3> QED BY <2>1, <2>2, <3>1 DEF WriteWord, PositionInv, TypeInv, TypeOK
  <2>3. CASE UNCHANGED cmd_ring
    BY <2>3
  <2> QED BY <2>2, <2>3 DEF Next, Client, Daemon, BeginWrite, LoadTail,
             PublishTail, PeekAvailable, PeekHeader, ReadWord, PeekAccept,
             PeekGiveUp, PeekBody, ProcessCommand, SkipInvalid, ConsumeCommand,
             Consume, vars
<1> QED BY <1>1, <1>2, <1>3, PTL DEF Spec, StableWhilePeeked

-----------------------------------------------------------------------------
(* Layer 3: contents, for one client that submits well-formed commands. *)

\* Every command's header tells its true size, and the daemon can take it.
WellFormedCommands == \A c \in Commands : WellFormed(c)

\* Where the k-th command starts, or would start.
StartOf(k) == IF k <= Len(accepted) THEN starts[k] ELSE written

\* The number of commands consumed: one that was processed may not be yet.
Done == IF dpc = "consume" THEN Len(processed) - 1 ELSE Len(processed)

\* The command the daemon is working on.
Current == accepted[Done + 1]

\* Commands lie end to end in the stream.
Contiguous ==
    /\ \A k \in 1 .. Len(accepted) :
          /\ starts[k] + Len(accepted[k]) = StartOf(k + 1)
          /\ starts[k] + Len(accepted[k]) <= written
    /\ \A j, k \in 1 .. Len(accepted) :
          j < k => starts[j] + Len(accepted[j]) <= starts[k]

\* What a client has copied so far lies behind the published words.
CopiedSoFar ==
    \A cl \in Clients : wpc[cl] = "copy" =>
        \A i \in 0 .. wi[cl] - 1 : cmd_ring[Mask(written + i)] = src[cl][i + 1]

\* What the daemon has copied so far is the start of the current command, all
\* of which is available.
PeekedSoFar ==
    dpc # "poll" =>
        /\ Done < Len(accepted)
        /\ Len(Current) <= avail
        /\ ri <= Len(Current)
        /\ dpc = "consume" => ri = Len(Current)
        /\ \A i \in 0 .. ri - 1 : cmd_buf[i] = Current[i + 1]

StreamInv ==
    /\ PositionInv
    /\ Contiguous
    /\ Done \in Nat
    /\ Done <= Len(accepted)
    /\ consumed = StartOf(Done + 1)
    /\ UnreadIntact
    /\ CopiedSoFar
    /\ PeekedSoFar
    /\ InOrderDelivery

\* The types that the steps below need, spelled out.
LEMMA StreamTypes ==
    ASSUME StreamInv
    PROVE  /\ TypeInv /\ PositionInv
           /\ written \in Nat /\ consumed \in Nat /\ RingSize \in Nat
           /\ HdrSize \in Nat /\ HdrSize >= 2
           /\ Len(accepted) \in Nat /\ accepted \in Seq(Commands)
           /\ starts \in Seq(Nat) /\ Len(starts) = Len(accepted)
           /\ processed \in Seq(Seq(Nat)) /\ Done \in Nat
           /\ cmd_ring \in [Slot -> Nat]
           /\ ri \in Nat
<1>1. TypeInv /\ PositionInv /\ Done \in Nat
  BY DEF StreamInv, PositionInv
<1> QED BY <1>1, RingAssumption DEF TypeInv, TypeOK

\* An accepted command is well formed.
LEMMA AcceptedFacts ==
    ASSUME WellFormedCommands, StreamInv, NEW k \in 1 .. Len(accepted)
    PROVE  /\ accepted[k] \in Seq(Nat) /\ Len(accepted[k]) \in Nat
           /\ WellFormed(accepted[k])
           /\ starts[k] \in Nat
<1>1. accepted[k] \in Commands /\ starts[k] \in Nat
  BY StreamTypes
<1> QED BY <1>1, CommandsAssumption DEF WellFormedCommands

\* The command under the daemon's hands lies at its position, intact.
LEMMA CurrentFacts ==
    ASSUME WellFormedCommands, StreamInv, Done < Len(accepted)
    PROVE  /\ Current \in Seq(Nat) /\ Len(Current) \in Nat
           /\ WellFormed(Current)
           /\ starts[Done + 1] = consumed
           /\ consumed + Len(Current) <= written
           /\ consumed + Len(Current) = StartOf(Done + 2)
           /\ \A i \in 0 .. Len(Current) - 1 :
                 cmd_ring[Mask(consumed + i)] = Current[i + 1]
<1>1. Done + 1 \in 1 .. Len(accepted) /\ (Done + 1) + 1 = Done + 2
  BY StreamTypes
<1>2. /\ Current \in Seq(Nat) /\ Len(Current) \in Nat /\ WellFormed(Current)
  BY <1>1, AcceptedFacts DEF Current
<1>3. starts[Done + 1] = consumed /\ consumed \in Nat
  BY <1>1, StreamTypes DEF StreamInv, StartOf
<1>4. consumed + Len(Current) <= written
      /\ consumed + Len(Current) = StartOf(Done + 2)
  BY <1>1, <1>3 DEF StreamInv, Contiguous, Current
<1>5. \A i \in 0 .. Len(Current) - 1 :
          cmd_ring[Mask(consumed + i)] = Current[i + 1]
  BY <1>1, <1>3 DEF StreamInv, UnreadIntact, Current
<1> QED BY <1>2, <1>3, <1>4, <1>5

\* Once the header is copied, the daemon knows the true size and a good opcode.
LEMMA HeaderFacts ==
    ASSUME WellFormedCommands, StreamInv, dpc # "poll", ri >= HdrSize
    PROVE  /\ HdrDeclared = Len(Current)
           /\ SizeFits
           /\ ValidHeader
<1>1. /\ Done < Len(accepted) /\ Len(Current) <= avail
      /\ \A i \in 0 .. ri - 1 : cmd_buf[i] = Current[i + 1]
  BY DEF StreamInv, PeekedSoFar
<1>2. 0 \in 0 .. ri - 1 /\ 1 \in 0 .. ri - 1
  BY StreamTypes
<1>3. cmd_buf[0] = Current[1] /\ cmd_buf[1] = Current[2]
  <2>1. cmd_buf[0] = Current[0 + 1] /\ cmd_buf[1] = Current[1 + 1]
    BY <1>1, <1>2
  <2> QED BY <2>1
<1>4. WellFormed(Current)
  BY <1>1, CurrentFacts
<1> QED BY <1>1, <1>3, <1>4
        DEF WellFormed, HdrDeclared, HdrOpcode, SizeFits, ValidHeader

\* The initial state.
LEMMA StreamInit == Init => StreamInv
<1> SUFFICES ASSUME Init PROVE StreamInv
  OBVIOUS
<1>1. PositionInv
  BY PositionInit
<1>2. Len(accepted) = 0 /\ Len(processed) = 0 /\ dpc = "poll"
  BY DEF Init
<1>3. Done = 0 /\ StartOf(Done + 1) = written /\ consumed = written
  BY <1>2 DEF Done, StartOf, Init
<1> QED BY <1>1, <1>2, <1>3
        DEF Init, StreamInv, Contiguous, UnreadIntact, CopiedSoFar, PeekedSoFar,
            InOrderDelivery

\* A word written behind the published ones hits none of the unread ones, and
\* none of those the same client wrote before.
LEMMA WriteIsFresh ==
    ASSUME SingleClient, StreamInv, NEW cl \in Clients, WriteWord(cl),
           NEW x \in Int, consumed <= x, x < written + wi[cl]
    PROVE  /\ Mask(written + wi[cl]) # Mask(x)
           /\ Mask(tail[cl] + wi[cl]) = Mask(written + wi[cl])
           /\ cmd_ring'[Mask(x)] = cmd_ring[Mask(x)]
<1>1. /\ written \in Int /\ consumed \in Int /\ RingSize \in Int
      /\ wi[cl] \in Int /\ Len(src[cl]) \in Int
  BY StreamTypes, CommandsAssumption DEF TypeInv, TypeOK, WriteWord
<1>2. wi[cl] < Len(src[cl]) /\ tail[cl] = Mask(written)
      /\ written - consumed + Len(src[cl]) <= RingSize - 1
  BY DEF WriteWord, StreamInv, PositionInv
<1>3. written + wi[cl] < x + RingSize /\ written + wi[cl] \in Int
  BY <1>1, <1>2
<1>4. Mask(written + wi[cl]) # Mask(x)
  BY <1>3, MaskInjective
<1>5. Mask(tail[cl] + wi[cl]) = Mask(written + wi[cl])
  BY <1>1, <1>2, MaskAdd
<1>6. Mask(x) \in Slot
  BY MaskSlot
<1>7. cmd_ring'[Mask(x)] = cmd_ring[Mask(x)]
  BY <1>4, <1>5, <1>6, StreamTypes DEF WriteWord
<1> QED BY <1>4, <1>5, <1>7

\* A step of the only client keeps the contents.
LEMMA StreamClient ==
    ASSUME SingleClient, WellFormedCommands, StreamInv,
           NEW cl \in Clients, Client(cl)
    PROVE  StreamInv'
<1>0. PositionInv'
  BY PositionClient DEF StreamInv
<1>a. \A p \in Clients : p = cl
  BY DEF SingleClient
<1>b. UNCHANGED <<accepted, starts, written>>
      => /\ UNCHANGED StartOf(Done + 1)
         /\ Contiguous'
  BY DEF Client, BeginWrite, LoadTail, WriteWord, PublishTail, daemonVars,
         StartOf, Done, StreamInv, Contiguous
<1>c. UNCHANGED daemonVars
  BY DEF Client, BeginWrite, LoadTail, WriteWord, PublishTail
<1>1. ASSUME NEW c \in Commands, BeginWrite(cl, c) PROVE StreamInv'
  <2>1. wpc'[cl] = "load"
    BY <1>1, StreamTypes DEF BeginWrite, TypeInv, TypeOK
  <2> QED BY <1>0, <1>a, <1>b, <1>1, <2>1
          DEF BeginWrite, daemonVars, StreamInv, Done, UnreadIntact,
              CopiedSoFar, PeekedSoFar, Current, InOrderDelivery
<1>2. CASE LoadTail(cl)
  <2>1. wi'[cl] = 0
    BY <1>2, StreamTypes DEF LoadTail, TypeInv, TypeOK
  <2> QED BY <1>0, <1>a, <1>b, <1>2, <2>1
          DEF LoadTail, daemonVars, StreamInv, Done, UnreadIntact,
              CopiedSoFar, PeekedSoFar, Current, InOrderDelivery
<1>3. CASE WriteWord(cl)
  <2>1. wi[cl] \in Nat /\ wi'[cl] = wi[cl] + 1 /\ tail[cl] \in Int
    BY <1>3, StreamTypes DEF WriteWord, TypeInv, TypeOK, Slot
  <2>2. UnreadIntact'
    <3> SUFFICES ASSUME NEW k \in 1 .. Len(accepted), starts[k] >= consumed,
                        NEW i \in 0 .. Len(accepted[k]) - 1
                 PROVE  cmd_ring'[Mask(starts[k] + i)] = accepted[k][i + 1]
      BY <1>3 DEF WriteWord, daemonVars, UnreadIntact
    <3>1. starts[k] \in Nat /\ Len(accepted[k]) \in Nat
      BY AcceptedFacts
    <3>2. starts[k] + Len(accepted[k]) <= written
      BY DEF StreamInv, Contiguous
    <3>3. starts[k] + i \in Int /\ consumed <= starts[k] + i
          /\ starts[k] + i < written + wi[cl]
      <4>1. consumed \in Nat /\ written \in Nat /\ i \in Int /\ i >= 0
            /\ i < Len(accepted[k])
        BY <3>1, StreamTypes
      <4>2. starts[k] + i \in Int /\ consumed <= starts[k] + i
        BY <3>1, <4>1
      <4>3. starts[k] + i < written
        BY <3>1, <3>2, <4>1
      <4> QED BY <2>1, <4>1, <4>2, <4>3
    <3>4. cmd_ring'[Mask(starts[k] + i)] = cmd_ring[Mask(starts[k] + i)]
      BY <1>3, <3>3, WriteIsFresh
    <3> QED BY <3>4 DEF StreamInv, UnreadIntact
  <2>3. CopiedSoFar'
    <3> SUFFICES ASSUME NEW i \in 0 .. wi[cl]
                 PROVE  cmd_ring'[Mask(written + i)] = src[cl][i + 1]
      BY <1>a, <1>3, <2>1 DEF WriteWord, CopiedSoFar
    <3>0. wpc[cl] = "copy" /\ written \in Int /\ i \in Int /\ consumed <= written
      BY <1>3, StreamTypes DEF WriteWord, PositionInv
    <3>1. CASE i < wi[cl]
      <4>1. written + i \in Int /\ consumed <= written + i
            /\ written + i < written + wi[cl] /\ i \in 0 .. wi[cl] - 1
        BY <2>1, <3>0, <3>1, StreamTypes
      <4>2. cmd_ring'[Mask(written + i)] = cmd_ring[Mask(written + i)]
        BY <1>3, <4>1, WriteIsFresh
      <4> QED BY <3>0, <4>1, <4>2 DEF StreamInv, CopiedSoFar
    <3>2. CASE i = wi[cl]
      <4>1. tail[cl] = Mask(written)
        BY <3>0 DEF StreamInv, PositionInv
      <4>2. Mask(tail[cl] + wi[cl]) = Mask(written + i)
        BY <2>1, <3>0, <3>2, <4>1, MaskAdd
      <4>3. Mask(tail[cl] + wi[cl]) \in Slot
        <5>1. tail[cl] + wi[cl] \in Int
          BY <2>1
        <5> QED BY <5>1, MaskSlot
      <4> QED BY <1>3, <3>2, <4>2, <4>3, StreamTypes DEF WriteWord
    <3> QED BY <2>1, <3>1, <3>2
  <2> QED BY <1>0, <1>b, <1>3, <2>2, <2>3
          DEF WriteWord, daemonVars, StreamInv, Done, PeekedSoFar, Current,
              InOrderDelivery
<1>4. CASE PublishTail(cl)
  <2> DEFINE n == Len(accepted) + 1
             c == src[cl]
  <2>1. /\ c \in Commands /\ Len(c) \in Nat /\ wi[cl] = Len(c)
        /\ wpc[cl] = "copy" /\ wpc'[cl] = "idle"
    BY <1>4, StreamTypes, CommandsAssumption DEF PublishTail, TypeInv, TypeOK
  <2>2. /\ accepted' = Append(accepted, c) /\ starts' = Append(starts, written)
        /\ written' = written + Len(c) /\ cmd_ring' = cmd_ring
    BY <1>4 DEF PublishTail
  <2>3. /\ n \in Nat /\ Len(accepted') = n /\ Len(starts') = n
        /\ accepted'[n] = c /\ starts'[n] = written
        /\ \A k \in 1 .. Len(accepted) :
              accepted'[k] = accepted[k] /\ starts'[k] = starts[k]
    BY <2>1, <2>2, StreamTypes
  <2> HIDE DEF c
  <2>4. \A k \in 1 .. n : StartOf(k)' = StartOf(k)
    BY <2>3 DEF StartOf
  <2>5. \A k \in Int : k > n => StartOf(k)' = written'
    BY <2>3 DEF StartOf
  <2>6. Contiguous'
    <3>1. ASSUME NEW k \in 1 .. n
          PROVE  /\ starts'[k] + Len(accepted'[k]) = StartOf(k + 1)'
                 /\ starts'[k] + Len(accepted'[k]) <= written'
      <4>1. CASE k = n
        <5>1. StartOf(k + 1)' = written'
          BY <2>3, <2>5, <4>1
        <5>2. starts'[k] = written /\ accepted'[k] = c
          BY <2>3, <4>1
        <5>3. written' = written + Len(c) /\ written' \in Nat
          BY <2>1, <2>2, StreamTypes
        <5> QED BY <5>1, <5>2, <5>3
      <4>2. CASE k \in 1 .. Len(accepted)
        <5>1. k + 1 \in 1 .. n
          BY <4>2, StreamTypes
        <5>2. StartOf(k + 1)' = StartOf(k + 1)
          BY <5>1, <2>4
        <5>3. starts[k] + Len(accepted[k]) = StartOf(k + 1)
              /\ starts[k] + Len(accepted[k]) <= written
              /\ starts[k] \in Nat /\ Len(accepted[k]) \in Nat
          BY <4>2, AcceptedFacts DEF StreamInv, Contiguous
        <5>4. starts'[k] = starts[k] /\ accepted'[k] = accepted[k]
          BY <2>3, <4>2
        <5>5. written' = written + Len(c) /\ written \in Nat
          BY <2>2, StreamTypes
        <5> QED BY <2>1, <5>2, <5>3, <5>4, <5>5
      <4> QED BY <4>1, <4>2, <2>3
    <3>2. ASSUME NEW j \in 1 .. n, NEW k \in 1 .. n, j < k
          PROVE  starts'[j] + Len(accepted'[j]) <= starts'[k]
      <4>1. j \in 1 .. Len(accepted) /\ starts'[j] = starts[j]
            /\ accepted'[j] = accepted[j]
        BY <2>3, <3>2, StreamTypes
      <4>2. CASE k = n
        BY <2>3, <4>1, <4>2 DEF StreamInv, Contiguous
      <4>3. CASE k \in 1 .. Len(accepted)
        BY <2>3, <3>2, <4>1, <4>3 DEF StreamInv, Contiguous
      <4> QED BY <2>3, <4>2, <4>3
    <3> QED BY <2>3, <3>1, <3>2 DEF Contiguous
  <2>7. /\ Done' = Done /\ Done' <= Len(accepted')
        /\ consumed' = StartOf(Done + 1)'
    <3>1. Done' = Done /\ consumed' = consumed
      BY <1>c DEF Done, daemonVars
    <3>2. Done <= Len(accepted) /\ consumed = StartOf(Done + 1)
          /\ Done + 1 \in 1 .. n
      BY StreamTypes DEF StreamInv
    <3>3. StartOf(Done + 1)' = StartOf(Done + 1)
      BY <2>4, <3>1, <3>2
    <3> QED BY <2>3, <3>1, <3>2, <3>3, StreamTypes
  <2>8. UnreadIntact'
    <3> SUFFICES ASSUME NEW k \in 1 .. n, starts'[k] >= consumed,
                        NEW i \in 0 .. Len(accepted'[k]) - 1
                 PROVE  cmd_ring[Mask(starts'[k] + i)] = accepted'[k][i + 1]
      BY <1>c, <2>2, <2>3 DEF UnreadIntact, daemonVars, Mask
    <3>1. CASE k = n
      BY <2>1, <2>3, <3>1 DEF StreamInv, CopiedSoFar, c
    <3>2. CASE k \in 1 .. Len(accepted)
      BY <2>3, <3>2 DEF StreamInv, UnreadIntact
    <3> QED BY <2>3, <3>1, <3>2
  <2>9. CopiedSoFar'
    BY <1>a, <2>1 DEF CopiedSoFar
  <2>10. PeekedSoFar'
    <3>1. dpc # "poll" => Done < Len(accepted) /\ Done + 1 \in 1 .. Len(accepted)
      BY StreamTypes DEF StreamInv, PeekedSoFar
    <3>2. dpc # "poll" => Current' = Current
      BY <2>3, <2>7, <3>1 DEF Current
    <3>3. UNCHANGED <<dpc, avail, ri, cmd_buf>> /\ Done' = Done
      BY <1>c, <2>7 DEF daemonVars
    <3> SUFFICES ASSUME dpc # "poll"
                 PROVE  /\ Done' < Len(accepted') /\ Len(Current') <= avail'
                        /\ ri' <= Len(Current')
                        /\ dpc' = "consume" => ri' = Len(Current')
                        /\ \A i \in 0 .. ri' - 1 : cmd_buf'[i] = Current'[i + 1]
      BY <3>3 DEF PeekedSoFar
    <3>4. Current' = Current
      BY <3>2
    <3>5. /\ Len(Current) <= avail /\ ri <= Len(Current)
          /\ dpc = "consume" => ri = Len(Current)
          /\ \A i \in 0 .. ri - 1 : cmd_buf[i] = Current[i + 1]
      BY DEF StreamInv, PeekedSoFar
    <3>6. Done' < Len(accepted')
      BY <2>3, <3>1, <3>3, StreamTypes
    <3> QED BY <3>3, <3>4, <3>5, <3>6
  <2>11. InOrderDelivery'
    <3>1. Len(processed) \in Nat
      BY StreamTypes
    <3> QED BY <1>c, <2>3, <3>1, StreamTypes
            DEF StreamInv, InOrderDelivery, daemonVars
  <2> QED BY <1>0, <2>6, <2>7, <2>8, <2>9, <2>10, <2>11, StreamTypes DEF StreamInv
<1> QED BY <1>1, <1>2, <1>3, <1>4 DEF Client

\* One more word of the current command is copied faithfully.
LEMMA ReadIsFaithful ==
    ASSUME WellFormedCommands, StreamInv, dpc # "poll", ReadWord,
           ri < Len(Current), ri < BufSize
    PROVE  /\ ri' <= Len(Current)
           /\ \A i \in 0 .. ri' - 1 : cmd_buf'[i] = Current[i + 1]
<1>0. ri' = ri + 1 /\ ri \in Nat /\ Len(Current) \in Nat
      /\ consumed \in Int /\ ri \in 0 .. BufSize - 1
      /\ Done < Len(accepted)
  BY StreamTypes, CurrentFacts, RingAssumption
     DEF ReadWord, StreamInv, PeekedSoFar
<1>1. cmd_buf' = [cmd_buf EXCEPT ![ri] = cmd_ring[Mask(consumed + ri)]]
  <2>1. cmd_head = Mask(consumed)
    BY DEF StreamInv, PositionInv
  <2>2. Mask(cmd_head + ri) = Mask(consumed + ri)
    BY <1>0, <2>1, MaskAdd
  <2> QED BY <2>2 DEF ReadWord
<1>2. cmd_ring[Mask(consumed + ri)] = Current[ri + 1]
  <2>1. ri \in 0 .. Len(Current) - 1
    BY <1>0
  <2>2. \A i \in 0 .. Len(Current) - 1 :
            cmd_ring[Mask(consumed + i)] = Current[i + 1]
    BY <1>0, CurrentFacts, Zenon
  <2> QED BY <2>1, <2>2, Zenon
<1>3. cmd_buf \in [0 .. BufSize - 1 -> Nat]
  BY StreamTypes DEF TypeInv, TypeOK
<1>4. ASSUME NEW i \in 0 .. ri PROVE cmd_buf'[i] = Current[i + 1]
  <2>1. CASE i = ri
    BY <1>0, <1>1, <1>2, <1>3, <2>1
  <2>2. CASE i \in 0 .. ri - 1
    <3>1. cmd_buf[i] = Current[i + 1]
      BY <2>2 DEF StreamInv, PeekedSoFar
    <3>2. cmd_buf'[i] = cmd_buf[i]
      BY <1>0, <1>1, <1>3, <2>2
    <3> QED BY <3>1, <3>2
  <2> QED BY <1>0, <2>1, <2>2
<1> QED BY <1>0, <1>4

\* A step of the daemon keeps the contents.
LEMMA StreamDaemon ==
    ASSUME WellFormedCommands, StreamInv, Daemon
    PROVE  StreamInv'
<1> USE DEF clientVars
<1>0. PositionInv'
  BY PositionDaemon DEF StreamInv
<1>1. UNCHANGED clientVars /\ UNCHANGED cmd_ring
  BY DEF Daemon, PeekAvailable, PeekHeader, ReadWord, PeekAccept, PeekGiveUp,
         PeekBody, ProcessCommand, SkipInvalid, ConsumeCommand, Consume
<1>2. CopiedSoFar' /\ Contiguous'
  <2>1. \A k : StartOf(k)' = StartOf(k)
    BY <1>1 DEF StartOf
  <2>2. Contiguous'
    BY <1>1, <2>1 DEF StreamInv, Contiguous
  <2> QED BY <1>1, <2>2 DEF StreamInv, CopiedSoFar, Mask
<1>3. ASSUME UNCHANGED <<cmd_head, consumed, processed>>,
             dpc' # "consume", dpc # "consume", PeekedSoFar'
      PROVE  StreamInv'
  BY <1>0, <1>1, <1>2, <1>3
     DEF StreamInv, Done, StartOf, UnreadIntact, InOrderDelivery, Mask
<1>4. CASE PeekAvailable
  <2>1. consumed < written /\ avail' = written - consumed /\ dpc = "poll"
        /\ ri' = 0 /\ dpc' = "header" /\ UNCHANGED <<cmd_buf, processed>>
    BY <1>4, AvailableIsExact, StreamTypes DEF PeekAvailable
  <2>2. Done < Len(accepted)
    BY <2>1, StreamTypes DEF StreamInv, StartOf
  <2>3. Len(Current) <= avail' /\ Len(Current) \in Nat
    BY <2>1, <2>2, CurrentFacts, StreamTypes
  <2>4. Done' = Done /\ Current' = Current
    BY <1>1, <2>1 DEF Done, Current
  <2>5. PeekedSoFar'
    BY <1>1, <2>1, <2>2, <2>3, <2>4 DEF PeekedSoFar
  <2> QED BY <1>3, <1>4, <2>1, <2>5 DEF PeekAvailable
<1>5. CASE PeekHeader \/ PeekBody
  <2>1. dpc # "poll" /\ dpc # "consume" /\ ReadWord /\ ri < BufSize
        /\ ri < Len(Current)
    <3>1. CASE PeekHeader
      <4>1. Done < Len(accepted)
        BY <3>1 DEF StreamInv, PeekedSoFar, PeekHeader
      <4>2. Len(Current) >= HdrSize /\ Len(Current) \in Nat
        BY <4>1, CurrentFacts DEF WellFormed
      <4> QED BY <3>1, <4>2, RingAssumption, StreamTypes DEF PeekHeader
    <3>2. CASE PeekBody
      <4>1. ri >= HdrSize /\ dpc = "body" /\ HdrDeclared <= BufSize
        BY <3>2, StreamTypes DEF PeekBody, TypeInv
      <4>2. HdrDeclared = Len(Current) /\ Len(Current) \in Nat
        BY <4>1, HeaderFacts, CurrentFacts DEF StreamInv, PeekedSoFar
      <4> QED BY <3>2, <4>1, <4>2, RingAssumption, StreamTypes DEF PeekBody
    <3> QED BY <1>5, <3>1, <3>2
  <2>2. /\ ri' <= Len(Current)
        /\ \A i \in 0 .. ri' - 1 : cmd_buf'[i] = Current[i + 1]
    BY <2>1, ReadIsFaithful
  <2>3. Done' = Done /\ Current' = Current /\ dpc' = dpc /\ avail' = avail
    BY <1>1, <2>1 DEF Done, Current, ReadWord
  <2>4. PeekedSoFar'
    BY <1>1, <2>1, <2>2, <2>3 DEF StreamInv, PeekedSoFar
  <2> QED BY <1>3, <2>1, <2>3, <2>4 DEF ReadWord
<1>6. CASE PeekAccept
  <2>1. Done' = Done /\ Current' = Current
    BY <1>1, <1>6 DEF Done, Current, PeekAccept
  <2>2. PeekedSoFar'
    BY <1>1, <1>6, <2>1 DEF StreamInv, PeekedSoFar, PeekAccept
  <2> QED BY <1>3, <1>6, <2>2 DEF PeekAccept
<1>7. CASE PeekGiveUp
  <2>1. dpc # "poll" /\ ri >= HdrSize /\ ~ SizeFits
    BY <1>7, StreamTypes DEF PeekGiveUp
  <2> QED BY <2>1, HeaderFacts
<1>8. CASE ProcessCommand
  <2>1. /\ ri >= HdrSize /\ dpc = "body" /\ dpc' = "consume"
        /\ processed' = Append(processed, PeekedCommand)
        /\ ri >= HdrDeclared /\ UNCHANGED <<cmd_head, avail, ri, cmd_buf, consumed>>
    BY <1>8, StreamTypes DEF ProcessCommand, TypeInv
  <2>2. Done < Len(accepted) /\ ri <= Len(Current)
        /\ \A i \in 0 .. ri - 1 : cmd_buf[i] = Current[i + 1]
    BY <2>1 DEF StreamInv, PeekedSoFar
  <2>3. HdrDeclared = Len(Current) /\ Len(Current) \in Nat
        /\ Current \in Seq(Nat) /\ ri = Len(Current)
    BY <2>1, <2>2, HeaderFacts, CurrentFacts, StreamTypes
  <2>4. PeekedCommand = Current
    <3>1. \A i \in 1 .. Len(Current) : cmd_buf[i - 1] = Current[i]
      <4> TAKE i \in 1 .. Len(Current)
      <4>1. i - 1 \in 0 .. ri - 1 /\ (i - 1) + 1 = i
        BY <2>3
      <4> QED BY <2>2, <4>1
    <3>2. PeekedCommand = [i \in 1 .. Len(Current) |-> Current[i]]
      BY <2>3, <3>1 DEF PeekedCommand
    <3> QED BY <2>3, <3>2
  <2>5. Len(processed) = Done /\ Len(processed') = Done + 1
        /\ processed'[Done + 1] = Current
        /\ \A k \in 1 .. Done : processed'[k] = processed[k]
    BY <2>1, <2>3, <2>4, StreamTypes DEF Done
  <2>6. Done' = Done /\ Current' = Current
    <3>1. Done' = Done
      BY <2>1, <2>5, StreamTypes DEF Done
    <3> QED BY <1>1, <3>1 DEF Current
  <2>7. InOrderDelivery'
    <3>1. Len(processed') <= Len(accepted)
      BY <2>2, <2>5, StreamTypes
    <3>2. ASSUME NEW k \in 1 .. Done + 1 PROVE processed'[k] = accepted[k]
      <4>1. CASE k = Done + 1
        BY <2>5, <4>1 DEF Current
      <4>2. CASE k \in 1 .. Done
        BY <2>5, <4>2 DEF StreamInv, InOrderDelivery
      <4> QED BY <4>1, <4>2, StreamTypes
    <3> QED BY <1>1, <2>5, <3>1, <3>2 DEF InOrderDelivery
  <2>8. PeekedSoFar'
    BY <1>1, <2>1, <2>2, <2>3, <2>6 DEF StreamInv, PeekedSoFar
  <2> QED BY <1>0, <1>1, <1>2, <2>1, <2>6, <2>7, <2>8
          DEF StreamInv, StartOf, UnreadIntact, Mask
<1>9. CASE SkipInvalid
  <2>1. dpc # "poll" /\ ri >= HdrSize /\ ~ ValidHeader
    BY <1>9, StreamTypes DEF SkipInvalid, TypeInv
  <2> QED BY <2>1, HeaderFacts
<1>10. CASE ConsumeCommand
  <2>1. dpc = "consume" /\ ri >= HdrSize /\ dpc' = "poll"
        /\ consumed' = consumed + HdrDeclared /\ processed' = processed
    BY <1>10, StreamTypes DEF ConsumeCommand, Consume, TypeInv
  <2>2. Done < Len(accepted) /\ HdrDeclared = Len(Current)
    BY <2>1, HeaderFacts DEF StreamInv, PeekedSoFar
  <2>3. consumed + Len(Current) = StartOf(Done + 2) /\ Len(Current) \in Nat
        /\ Len(Current) > 0
    BY <2>2, CurrentFacts, StreamTypes DEF WellFormed
  <2>4. Done' = Done + 1 /\ Done' \in Nat /\ Done' + 1 = Done + 2
    BY <2>1, StreamTypes DEF Done
  <2>5. consumed' = StartOf(Done + 1)'
    BY <1>1, <2>1, <2>2, <2>3, <2>4 DEF StartOf
  <2>6. consumed <= consumed'
    BY <2>1, <2>2, <2>3, StreamTypes
  <2>7. UnreadIntact'
    <3> SUFFICES ASSUME NEW k \in 1 .. Len(accepted), starts[k] >= consumed',
                        NEW i \in 0 .. Len(accepted[k]) - 1
                 PROVE  cmd_ring[Mask(starts[k] + i)] = accepted[k][i + 1]
      BY <1>1 DEF UnreadIntact, Mask
    <3>1. starts[k] \in Nat
      BY AcceptedFacts
    <3>2. consumed \in Nat
      BY StreamTypes
    <3>3. consumed' = consumed + Len(Current)
      BY <2>1, <2>2
    <3>4. consumed' \in Nat
      BY <2>3, <3>2, <3>3
    <3>5. starts[k] >= consumed
      BY <2>6, <3>1, <3>2, <3>4
    <3> QED BY <3>5 DEF StreamInv, UnreadIntact
  <2>8. InOrderDelivery' /\ PeekedSoFar'
    BY <1>1, <2>1 DEF StreamInv, InOrderDelivery, PeekedSoFar
  <2>9. Done' <= Len(accepted')
    BY <1>1, <2>2, <2>4, StreamTypes
  <2> QED BY <1>0, <1>2, <2>4, <2>5, <2>7, <2>8, <2>9 DEF StreamInv
<1> QED BY <1>4, <1>5, <1>6, <1>7, <1>8, <1>9, <1>10 DEF Daemon

\* The invariant is kept by every step, and by none.
LEMMA StreamStep ==
    ASSUME SingleClient, WellFormedCommands, StreamInv, [Next]_vars
    PROVE  StreamInv'
<1>1. CASE UNCHANGED vars
  <2>1. PositionInv'
    BY <1>1, PositionStep DEF StreamInv
  <2> QED BY <1>1, <2>1
          DEF vars, clientVars, daemonVars, StreamInv, Contiguous, StartOf, Done,
              UnreadIntact, CopiedSoFar, PeekedSoFar, Current, InOrderDelivery,
              Mask
<1> QED BY <1>1, StreamClient, StreamDaemon DEF Next

\* With one client and well-formed commands, what is in the ring and not yet
\* consumed is what was accepted, the daemon polls at command boundaries only,
\* and it processes the accepted commands whole and in order (cmd_write,
\* cmd_peek, cmd_consume, command_loop).
THEOREM DeliveryCorrect ==
    ASSUME SingleClient, WellFormedCommands
    PROVE  Spec => [](UnreadIntact /\ Framed /\ InOrderDelivery)
<1>1. Init => StreamInv
  BY StreamInit
<1>2. StreamInv /\ [Next]_vars => StreamInv'
  BY StreamStep
<1>3. StreamInv => UnreadIntact /\ Framed /\ InOrderDelivery
  <2> SUFFICES ASSUME StreamInv PROVE Framed
    BY DEF StreamInv
  <2>1. CASE Done = Len(accepted)
    BY <2>1, StreamTypes DEF StreamInv, StartOf, Framed
  <2>2. CASE Done < Len(accepted)
    <3>1. Done + 1 \in 1 .. Len(accepted) /\ consumed = starts[Done + 1]
      BY <2>2, StreamTypes DEF StreamInv, StartOf
    <3> QED BY <3>1 DEF Framed
  <2> QED BY <2>1, <2>2, StreamTypes DEF StreamInv
<1> QED BY <1>1, <1>2, <1>3, PTL DEF Spec

\* The ring implements the FIFO queue: publishing the tail is the acceptance,
\* process_command the delivery, and every other step of either side stutters.
THEOREM RefinesQueue ==
    ASSUME SingleClient, WellFormedCommands
    PROVE  Spec => Queue!SafeSpec
<1>1. Init => StreamInv /\ Queue!Init
  BY StreamInit DEF Init, Queue!Init
<1>2. StreamInv /\ [Next]_vars => StreamInv'
  BY StreamStep
<1>3. StreamInv /\ StreamInv' /\ [Next]_vars => [Queue!Next]_Queue!vars
  <2> SUFFICES ASSUME StreamInv, StreamInv', [Next]_vars
               PROVE  [Queue!Next]_Queue!vars
    OBVIOUS
  <2>1. ASSUME NEW cl \in Clients, PublishTail(cl) PROVE Queue!Next
    <3>1. src[cl] \in Commands
      BY <2>1, StreamTypes DEF PublishTail, TypeInv
    <3>2. Queue!Accept(src[cl])
      BY <2>1 DEF PublishTail, daemonVars, Queue!Accept
    <3> QED BY <3>1, <3>2 DEF Queue!Next
  <2>2. CASE ProcessCommand
    <3>1. processed' = Append(processed, PeekedCommand)
          /\ accepted' = accepted
          /\ Len(processed') = Len(processed) + 1
          /\ processed'[Len(processed) + 1] = PeekedCommand
      <4>1. processed \in Seq(Seq(Nat)) /\ processed' \in Seq(Seq(Nat))
        BY StreamTypes DEF StreamInv, PositionInv, TypeInv, TypeOK
      <4> QED BY <2>2, <4>1 DEF ProcessCommand, clientVars
    <3>2. Len(processed') <= Len(accepted')
          /\ \A k \in 1 .. Len(processed') : processed'[k] = accepted'[k]
      BY DEF StreamInv, InOrderDelivery
    <3>3. Len(processed) < Len(accepted)
          /\ PeekedCommand = accepted[Len(processed) + 1]
      <4>1. Len(processed) \in Nat /\ Len(accepted) \in Nat
        BY StreamTypes
      <4>2. Len(processed) + 1 <= Len(accepted)
        BY <3>1, <3>2
      <4>3. Len(processed) + 1 \in 1 .. Len(processed')
        BY <3>1, <4>1
      <4>4. PeekedCommand = accepted[Len(processed) + 1]
        BY <3>1, <3>2, <4>3
      <4> QED BY <4>1, <4>2, <4>4
    <3> QED BY <3>1, <3>3 DEF Queue!Next, Queue!Process
  <2>3. CASE UNCHANGED <<accepted, processed>>
    BY <2>3 DEF Queue!vars
  <2> QED BY <2>1, <2>2, <2>3
          DEF Next, Client, Daemon, BeginWrite, LoadTail, WriteWord,
              PeekAvailable, PeekHeader, ReadWord, PeekAccept, PeekGiveUp,
              PeekBody, SkipInvalid, ConsumeCommand, Consume, vars, clientVars,
              daemonVars
<1> QED BY <1>1, <1>2, <1>3, PTL DEF Spec, Queue!SafeSpec
=============================================================================
