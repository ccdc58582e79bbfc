------------------------------ MODULE Receive ------------------------------
(***************************************************************************)
(* The way of a frame from the Ethernet MAC into lwIP: the MAC fills the    *)
(* ring of receive descriptors and sets EIR while the processor works; the  *)
(* receive interrupt (drivers/fsl_enet.c, lwip/port/ethernetif.c) clears    *)
(* EIR and reads frames into pbufs of the pool until it finds an empty      *)
(* descriptor.  It then calls ENET_ReadFrame with no buffer all the same,   *)
(* which walks on to the end of a frame, or once around the ring, and gives *)
(* back every descriptor on the way, whatever the MAC has put there.        *)
(*                                                                          *)
(* Frames are numbered; a frame fits into one descriptor and into one pbuf, *)
(* so the flag LAST is set where a frame is.  lwIP may keep a pbuf (a chain *)
(* that waits to be echoed, a fragment to be reassembled) and free it       *)
(* later.                                                                   *)
(***************************************************************************)
EXTENDS Integers, Sequences

CONSTANTS
    RxBds,      \* descriptors in the ring, ENET_RXBD_NUM: 6
    PoolSize,   \* PBUF_POOL_SIZE: 10
    MaxFrames   \* bound of the model: frames the MAC receives

ASSUME ReceiveAssumption ==
    RxBds \in Nat \ {0} /\ PoolSize \in Nat \ {0} /\ MaxFrames \in Nat

NoFrame == [n |-> 0, kind |-> "none"]
Kinds == {"ip", "other", "error"}

VARIABLES
    rxbd,       \* what the descriptors hold: a frame, or NoFrame for LAST clear
    empty,      \* their flag EMPTY: the MAC may fill them
    hw, dma,    \* the descriptor the MAC fills next, and whether it is doing so
    rxBdCurrent, rxBdDirty,
    eir,        \* a receive event is pending
    rxpc,       \* the interrupt: "out", "size", "read", "walk", "clear", "fill", "pass",
                \* "leave"; "hung" in the endless loop of LWIP_ASSERT
    status,     \* what ENET_GetRxFrameSize has returned
    inhand,     \* the frame copied into packetBuffer
    pool, kept, \* pbufs free, pbufs lwIP keeps
    passed,     \* frames given to netif->input, in order
    frames,     \* not in the code: how many frames the MAC has put into the ring
    taken,      \* not in the code: the IP frames among them
    discarded   \* not in the code: frames in descriptors given back unread

mac == <<hw, dma, frames, taken>>
ring == <<rxbd, empty, rxBdCurrent, rxBdDirty>>
pbufs == <<pool, kept>>
rxvars == <<mac, ring, eir, rxpc, status, inhand, pbufs, passed, discarded>>

Succ(i) == (i + 1) % RxBds

RxInit ==
    /\ rxbd = [i \in 0..(RxBds - 1) |-> NoFrame] /\ empty = [i \in 0..(RxBds - 1) |-> TRUE]
    /\ hw = 0 /\ dma = FALSE /\ rxBdCurrent = 0 /\ rxBdDirty = 0
    /\ eir = FALSE /\ rxpc = "out" /\ status = "Success" /\ inhand = NoFrame
    /\ pool = PoolSize /\ kept = 0 /\ passed = <<>>
    /\ frames = 0 /\ taken = <<>> /\ discarded = {}

-----------------------------------------------------------------------------
(* The MAC.  It reads the flag when a frame begins, and drops the frame when *)
(* the descriptor is not empty; it stores the frame's flags at its end.     *)

MacBegin ==
    /\ ~dma /\ empty[hw] /\ frames < MaxFrames /\ dma' = TRUE
    /\ UNCHANGED <<hw, frames, taken, ring, eir, rxpc, status, inhand, pbufs, passed, discarded>>

MacEnd(kind) ==
    /\ dma /\ dma' = FALSE /\ frames' = frames + 1
    /\ rxbd' = [rxbd EXCEPT ![hw] = [n |-> frames', kind |-> kind]]
    /\ empty' = [empty EXCEPT ![hw] = FALSE]
    /\ hw' = Succ(hw) /\ eir' = TRUE
    /\ taken' = IF kind = "ip" THEN Append(taken, frames') ELSE taken
    /\ UNCHANGED <<rxBdCurrent, rxBdDirty, rxpc, status, inhand, pbufs, passed, discarded>>

-----------------------------------------------------------------------------
(* The interrupt.                                                           *)

\* ENET_ReceiveIRQHandler clears the event before the ring is read.
ENET_ReceiveIRQHandler ==
    /\ rxpc = "out" /\ eir
    /\ eir' = FALSE /\ rxpc' = "size"
    /\ UNCHANGED <<mac, ring, status, inhand, pbufs, passed, discarded>>

\* The loop of ethernetif_input: ENET_GetRxFrameSize, and a pbuf for a good
\* frame; with the pool empty it stops for ever.  After an error, and after an
\* empty descriptor too, ENET_ReadFrame is called with no buffer.
ENET_GetRxFrameSize ==
    /\ rxpc = "size"
    /\ status' = IF empty[rxBdCurrent] THEN "RxFrameEmpty"
                 ELSE IF rxbd[rxBdCurrent].kind = "error" THEN "RxFrameError" ELSE "Success"
    /\ rxpc' = IF status' # "Success" THEN "walk" ELSE IF pool = 0 THEN "hung" ELSE "read"
    /\ pool' = IF rxpc' = "read" THEN pool - 1 ELSE pool
    /\ UNCHANGED <<mac, ring, eir, inhand, kept, passed, discarded>>

\* ENET_ReadFrame copies the frame.
ReadFrame ==
    /\ rxpc = "read" /\ rxpc' = "clear"
    /\ inhand' = rxbd[rxBdCurrent] /\ rxBdCurrent' = Succ(rxBdCurrent)
    /\ UNCHANGED <<mac, rxbd, empty, rxBdDirty, eir, status, pbufs, passed, discarded>>

\* Without a buffer it goes on to the first descriptor with LAST set, or until it
\* is back where it began.
MutSkipFrame ==                    \* mutant: a frame with an error is passed over alone
    /\ rxpc = "walk"
    /\ rxBdCurrent' = Succ(rxBdCurrent)
    /\ rxpc' = IF rxBdCurrent' = rxBdDirty THEN "clear" ELSE "walk"
    /\ UNCHANGED <<mac, rxbd, empty, rxBdDirty, eir, status, inhand, pbufs, passed, discarded>>
SkipFrame ==
    /\ rxpc = "walk"
    /\ rxBdCurrent' = Succ(rxBdCurrent)
    /\ rxpc' = IF rxbd[rxBdCurrent] # NoFrame \/ rxBdCurrent' = rxBdDirty THEN "clear" ELSE "walk"
    /\ UNCHANGED <<mac, rxbd, empty, rxBdDirty, eir, status, inhand, pbufs, passed, discarded>>

\* The frame in the descriptor about to be given back, if nobody has seen it.
Unseen == IF rxbd[rxBdDirty] # NoFrame /\ (rxpc = "fill" \/ status = "RxFrameEmpty")
            THEN {rxbd[rxBdDirty].n} ELSE {}

\* ENET_UpdateReadBuffers gives the descriptors up to the current one back to the
\* MAC: it clears the flags ...
ClearFlags ==
    /\ rxpc = "clear" /\ rxpc' = "fill"
    /\ rxbd' = [rxbd EXCEPT ![rxBdDirty] = NoFrame]
    /\ empty' = [empty EXCEPT ![rxBdDirty] = FALSE]
    /\ discarded' = discarded \cup Unseen
    /\ UNCHANGED <<mac, rxBdCurrent, rxBdDirty, eir, status, inhand, pbufs, passed>>

\* ... and sets EMPTY beside what is there by now.
SetEmpty ==
    /\ rxpc = "fill"
    /\ empty' = [empty EXCEPT ![rxBdDirty] = TRUE]
    /\ rxBdDirty' = Succ(rxBdDirty)
    /\ discarded' = discarded \cup Unseen
    /\ rxpc' = IF rxBdDirty' # rxBdCurrent THEN "clear"
               ELSE IF status = "Success" THEN "pass"
               ELSE IF status = "RxFrameError" THEN "size" ELSE "leave"
    /\ UNCHANGED <<mac, rxbd, rxBdCurrent, eir, status, inhand, pbufs, passed>>

\* netif->input for IP and ARP; lwIP frees the pbuf or keeps it.  Any other
\* frame is freed.
PassUp(keep) ==
    /\ rxpc = "pass" /\ rxpc' = "size" /\ inhand' = NoFrame
    /\ keep => inhand.kind = "ip"
    /\ passed' = IF inhand.kind = "ip" THEN Append(passed, inhand.n) ELSE passed
    /\ IF keep THEN kept' = kept + 1 /\ UNCHANGED pool
               ELSE pool' = pool + 1 /\ UNCHANGED kept
    /\ UNCHANGED <<mac, ring, eir, status, discarded>>

\* lwIP frees a pbuf it kept, when it handles a later frame.
Release ==
    /\ rxpc = "pass" /\ kept > 0
    /\ kept' = kept - 1 /\ pool' = pool + 1
    /\ UNCHANGED <<mac, ring, eir, rxpc, status, inhand, passed, discarded>>

MutLeave ==                        \* mutant: the event is cleared once more
    /\ rxpc = "leave" /\ rxpc' = "out" /\ eir' = FALSE
    /\ UNCHANGED <<mac, ring, status, inhand, pbufs, passed, discarded>>
RxLeave ==
    /\ rxpc = "leave" /\ rxpc' = "out"
    /\ UNCHANGED <<mac, ring, eir, status, inhand, pbufs, passed, discarded>>

RxNext ==
    \/ MacBegin \/ \E kind \in Kinds : MacEnd(kind)
    \/ ENET_ReceiveIRQHandler \/ ENET_GetRxFrameSize \/ ReadFrame \/ SkipFrame
    \/ ClearFlags \/ SetEmpty
    \/ \E keep \in BOOLEAN : PassUp(keep)
    \/ Release \/ RxLeave

RxSpec == RxInit /\ [][RxNext]_rxvars

-----------------------------------------------------------------------------
(* Properties.                                                              *)

\* The IP frames that wait in the ring or are on their way to netif->input.
InRing == {rxbd[i].n : i \in {j \in DOMAIN rxbd : ~empty[j] /\ rxbd[j].kind = "ip"}}
InHand == IF inhand.kind = "ip" THEN {inhand.n} ELSE {}
Passed == {passed[i] : i \in DOMAIN passed}

\* The call of ENET_ReadFrame for an empty descriptor (ethernetif.c:327) discards
\* what the MAC has stored since; that is the only way to lose a frame.  No frame
\* reaches lwIP twice, every IP frame of the ring is passed, on its way or among
\* the discarded, and no pbuf is lost from the pool.
FramesAccounted ==
    /\ \A i, j \in DOMAIN passed : i # j => passed[i] # passed[j]
    /\ Passed \cap (InHand \cup InRing \cup discarded) = {}
    /\ {taken[i] : i \in DOMAIN taken} \subseteq Passed \cup InHand \cup InRing \cup discarded
    /\ pool + kept + (IF rxpc \in {"read", "pass"} \/ (rxpc \in {"clear", "fill"} /\ status = "Success")
                         THEN 1 ELSE 0) = PoolSize

\* Until it has discarded one, the frames reach lwIP in the order in which the MAC
\* took them, and none is left behind, also when it comes between the last look at
\* the ring and the return.
OrderedUntilDiscard ==
    discarded = {} =>
      /\ passed = SubSeq(taken, 1, Len(passed))
      /\ rxpc = "out" /\ ~eir => InRing = {}
=============================================================================
