-------------------------- MODULE IdleBodyProofs --------------------------
(***************************************************************************)
(* For any bodies, in any order and any number at a time, and whatever     *)
(* they do: a pooled buffer has one user.  The invariant IInv says of each *)
(* body which of its three references may be to the same buffer: the       *)
(* worker releases its own only when neither the request nor the helper    *)
(* has it any more.                                                        *)
(***************************************************************************)
EXTENDS IdleBody, TLAPS

\* A step of body b leaves the references of every other body alone.
Elsewhere(b) ==
    \A c \in Bodies \ {b} :
        /\ pc'[c] = pc[c]
        /\ tmp'[c] = tmp[c]
        /\ req'[c] = req[c]
        /\ hbuf'[c] = hbuf[c]
        /\ res'[c] = res[c]
        /\ helper'[c] = helper[c]

LEMMA InitInv == Init => IInv
  BY BodiesAssumption DEF Init, IInv, TypeOK, BufferOwned, Refs, Held, NoBuf, Nothing

\* A step that takes up no new buffer, and returns to the pool only what its
\* body no longer holds, keeps the invariant of all the others.
LEMMA Keeps ==
  ASSUME IInv, NEW b \in Bodies, Elsewhere(b), TypeOK', Refs(b)', made' = made,
         Held(b)' \subseteq Held(b),
         pool' \subseteq pool \cup (Held(b) \ Held(b)')
  PROVE  IInv'
  <1>1. ASSUME NEW c \in Bodies \ {b} PROVE Held(c)' = Held(c) /\ Refs(c)'
    BY <1>1 DEF IInv, Elsewhere, Refs, Held
  <1>2. BufferOwned'
    BY <1>1 DEF IInv, BufferOwned
  <1> QED BY <1>1, <1>2 DEF IInv

\* The read of body b is over and the worker goes on to its next or closes.
Over(b) ==
    /\ pc'[b] \in {"read", "close"}
    /\ tmp'[b] = NoBuf
    /\ res'[b] = Nothing
    /\ \A c \in Bodies \ {b} : pc'[c] = pc[c] /\ tmp'[c] = tmp[c] /\ res'[c] = res[c]

ReaderTypeOK ==
    /\ pc \in [Bodies -> {"read", "direct", "offer", "await", "drain", "close", "done"}]
    /\ phase \in [Bodies -> {"pump", "discard"}]
    /\ tmp \in [Bodies -> Nat]
    /\ res \in [Bodies -> Nat]
    /\ delivered \in [Bodies -> Seq(Nat)]

LEMMA ReturnOver ==
  ASSUME TypeOK, NEW b \in Bodies, NEW next \in {"read", "close"}, Return(b, next)
  PROVE  /\ Over(b)
         /\ pc' \in [Bodies -> {"read", "direct", "offer", "await", "drain", "close", "done"}]
         /\ tmp' \in [Bodies -> Nat]
         /\ res' \in [Bodies -> Nat]
  BY DEF TypeOK, Return, Over, NoBuf, Nothing

LEMMA GiveUpOver ==
  ASSUME TypeOK, NEW b \in Bodies, GiveUp(b)
  PROVE  Over(b) /\ ReaderTypeOK'
  <1>1. PICK next \in {"read", "close"} : Return(b, next)
    BY DEF GiveUp
  <1>2. phase' \in [Bodies -> {"pump", "discard"}] /\ delivered' \in [Bodies -> Seq(Nat)]
    BY DEF GiveUp, TypeOK
  <1> QED BY <1>1, <1>2, ReturnOver DEF ReaderTypeOK

LEMMA AcceptOver ==
  ASSUME TypeOK, NEW b \in Bodies, NEW chunk \in Nat, Accept(b, chunk)
  PROVE  Over(b) /\ ReaderTypeOK'
  <1>1. PICK next \in {"read", "close"} : Return(b, next)
    BY DEF Accept
  <1>2. phase' \in [Bodies -> {"pump", "discard"}]
    BY DEF Accept, TypeOK
  <1>3. delivered' \in [Bodies -> Seq(Nat)]
    <2>1. Append(delivered[b], chunk) \in Seq(Nat)
      BY DEF TypeOK
    <2> QED BY <2>1 DEF Accept, TypeOK
  <1> QED BY <1>1, <1>2, <1>3, ReturnOver DEF ReaderTypeOK

LEMMA NextInv == IInv /\ [Next]_vars => IInv'
  <1> SUFFICES ASSUME IInv, [Next]_vars PROVE IInv'
    OBVIOUS
  <1> USE BodiesAssumption DEF NoBuf, Nothing
  <1>0. CASE UNCHANGED vars
    BY <1>0 DEF vars, poolVars, readerVars, helperVars, IInv, TypeOK, BufferOwned, Refs, Held
  <1>q. SUFFICES ASSUME NEW b \in Bodies, Worker(b) \/ Helper(b) \/ Cancel(b)
                 PROVE  IInv'
    BY <1>0 DEF Next
  <1>1. CASE StartRead(b)
    <2>1. PICK x \in (1 .. made') \ {NoBuf} :
             /\ tmp' = [tmp EXCEPT ![b] = x]
             /\ x \notin pool'
             /\ \A c \in Bodies : x \notin Held(c)
             /\ made' \in Nat /\ made <= made' /\ pool' \subseteq pool
      <3>1. CASE pool = {}
        <4>1. made + 1 \notin pool /\ \A c \in Bodies : made + 1 \notin Held(c)
          BY DEF IInv, TypeOK, Refs
        <4> QED BY <1>1, <3>1, <4>1 DEF StartRead, Acquire, IInv, TypeOK
      <3>2. CASE pool # {}
        <4>1. PICK x \in pool : pool' = pool \ {x} /\ tmp' = [tmp EXCEPT ![b] = x] /\ made' = made
          BY <1>1, <3>2 DEF StartRead, Acquire
        <4>2. x \in 1 .. made /\ \A c \in Bodies : x \notin Held(c)
          BY DEF IInv, TypeOK, BufferOwned
        <4>3. x # NoBuf /\ x \notin pool' /\ pool' \subseteq pool /\ made' \in Nat /\ made <= made'
          BY <4>1, <4>2 DEF IInv, TypeOK
        <4> QED BY <4>1, <4>2, <4>3
      <3> QED BY <3>1, <3>2
    <2>2. TypeOK'
      <3>1. pool' \subseteq 1 .. made'
        BY <2>1 DEF IInv, TypeOK
      <3>2. tmp' \in [Bodies -> Nat] /\ pc' \in [Bodies -> {"read", "direct", "offer", "await", "drain", "close", "done"}]
        BY <1>1, <2>1 DEF StartRead, IInv, TypeOK
      <3>3. helper' \in [Bodies -> {"none", "select", "reading", "exited"}]
        BY <1>1 DEF StartRead, IInv, TypeOK
      <3> QED BY <1>1, <2>1, <3>1, <3>2, <3>3 DEF StartRead, IInv, TypeOK
    <2>3. Elsewhere(b) /\ \A c \in Bodies \ {b} : Held(c)' = Held(c)
      BY <1>1, <2>1 DEF IInv, TypeOK, Elsewhere, StartRead, Held
    <2>4. /\ pc'[b] = "offer" /\ tmp'[b] = x /\ req'[b] = req[b] /\ hbuf'[b] = hbuf[b] /\ res'[b] = res[b]
          /\ helper'[b] = "reading" <=> helper[b] = "reading"
          /\ pc[b] = "read"
      BY <1>1, <2>1 DEF StartRead, IInv, TypeOK
    <2>5. Held(b)' \subseteq Held(b) \cup {x} /\ x \notin {req[b], hbuf[b]}
      BY <2>1, <2>4 DEF Held
    <2>6. \A c \in Bodies : 1 .. made \subseteq 1 .. made'
      BY <2>1 DEF IInv, TypeOK
    <2>7. Refs(b)'
      <3>1. tmp[b] = NoBuf /\ res[b] = Nothing
        BY <2>4 DEF IInv, Refs
      <3>2. Held(b)' \subseteq 1 .. made'
        BY <2>1, <2>5, <2>6 DEF IInv, Refs
      <3> QED BY <2>1, <2>4, <2>5, <3>1, <3>2 DEF IInv, Refs
    <2>8. ASSUME NEW c \in Bodies \ {b} PROVE Refs(c)'
      BY <2>3, <2>6 DEF IInv, Refs, Elsewhere
    <2>9. BufferOwned'
      BY <2>1, <2>3, <2>5 DEF IInv, BufferOwned
    <2> QED BY <2>2, <2>7, <2>8, <2>9 DEF IInv
  <1>2. CASE OfferCancelled(b)
    <2>0. Over(b) /\ ReaderTypeOK'
      BY <1>2, GiveUpOver DEF OfferCancelled, IInv
    <2>1. TypeOK'
      BY <1>2, <2>0 DEF IInv, TypeOK, ReaderTypeOK, Refs, Held, OfferCancelled, Release, ForceClose, poolVars, helperVars
    <2>2. Elsewhere(b)
      BY <1>2, <2>0 DEF IInv, TypeOK, Elsewhere, Over, OfferCancelled, Release, ForceClose, helperVars
    <2>3. made' = made /\ req'[b] = req[b] /\ hbuf'[b] = hbuf[b] /\ helper'[b] = helper[b]
      BY <1>2 DEF OfferCancelled, Release, ForceClose, poolVars, helperVars
    <2>4. Refs(b)'
      BY <2>0, <2>3 DEF IInv, Refs, Held, Over
    <2>5. Held(b)' \subseteq Held(b) /\ pool' \subseteq pool \cup (Held(b) \ Held(b)')
      BY <1>2, <2>0, <2>3 DEF IInv, Refs, Held, Over, OfferCancelled, Release, ForceClose, poolVars
    <2> QED BY <2>1, <2>2, <2>3, <2>4, <2>5, Keeps
  <1>3. CASE Offer(b)
    <2>1. TypeOK'
      BY <1>3 DEF IInv, TypeOK, Refs, Held, Offer, poolVars, readerVars, helperVars
    <2>2. Elsewhere(b)
      BY <1>3 DEF IInv, TypeOK, Elsewhere, Offer, poolVars, readerVars, helperVars
    <2>3. Refs(b)'
      BY <1>3 DEF IInv, TypeOK, BufferOwned, Refs, Held, Offer, poolVars, readerVars, helperVars
    <2>4. made' = made /\ Held(b)' \subseteq Held(b) /\ pool' \subseteq pool \cup (Held(b) \ Held(b)')
      BY <1>3 DEF IInv, TypeOK, Refs, Held, Offer, poolVars, readerVars, helperVars
    <2> QED BY <2>1, <2>2, <2>3, <2>4, Keeps
  <1>4. CASE OfferClosed(b)
    <2>0. Over(b) /\ ReaderTypeOK'
      BY <1>4, GiveUpOver DEF OfferClosed, IInv
    <2>1. TypeOK'
      BY <1>4, <2>0 DEF IInv, TypeOK, ReaderTypeOK, Refs, Held, OfferClosed, Release, poolVars, helperVars
    <2>2. Elsewhere(b)
      BY <1>4, <2>0 DEF IInv, TypeOK, Elsewhere, Over, OfferClosed, Release, helperVars
    <2>3. made' = made /\ req'[b] = req[b] /\ hbuf'[b] = hbuf[b] /\ helper'[b] = helper[b]
      BY <1>4 DEF OfferClosed, Release, poolVars, helperVars
    <2>4. Refs(b)'
      BY <2>0, <2>3 DEF IInv, Refs, Held, Over
    <2>5. Held(b)' \subseteq Held(b) /\ pool' \subseteq pool \cup (Held(b) \ Held(b)')
      BY <1>4, <2>0, <2>3 DEF IInv, Refs, Held, Over, OfferClosed, Release, poolVars
    <2> QED BY <2>1, <2>2, <2>3, <2>4, <2>5, Keeps
  <1>5. CASE AwaitEnds(b)
    <2>1. TypeOK'
      BY <1>5 DEF IInv, TypeOK, Refs, Held, AwaitEnds, ForceClose, poolVars, readerVars, helperVars
    <2>2. Elsewhere(b)
      BY <1>5 DEF IInv, TypeOK, Elsewhere, AwaitEnds, ForceClose, poolVars, readerVars, helperVars
    <2>3. Refs(b)'
      BY <1>5 DEF IInv, TypeOK, BufferOwned, Refs, Held, AwaitEnds, ForceClose, poolVars, readerVars, helperVars
    <2>4. made' = made /\ Held(b)' \subseteq Held(b) /\ pool' \subseteq pool \cup (Held(b) \ Held(b)')
      BY <1>5 DEF IInv, TypeOK, Refs, Held, AwaitEnds, ForceClose, poolVars, readerVars, helperVars
    <2> QED BY <2>1, <2>2, <2>3, <2>4, Keeps
  <1>6. CASE Answered(b)
    <2>0. Over(b) /\ ReaderTypeOK'
      BY <1>6, GiveUpOver, AcceptOver DEF Answered, IInv, TypeOK
    <2>1. TypeOK'
      BY <1>6, <2>0 DEF IInv, TypeOK, ReaderTypeOK, Refs, Held, Answered, Release, poolVars, helperVars
    <2>2. Elsewhere(b)
      BY <1>6, <2>0 DEF IInv, TypeOK, Elsewhere, Over, Answered, Release, helperVars
    <2>3. made' = made /\ req'[b] = req[b] /\ hbuf'[b] = hbuf[b] /\ helper'[b] = helper[b]
      BY <1>6 DEF Answered, Release, poolVars, helperVars
    <2>4. Refs(b)'
      BY <2>0, <2>3 DEF IInv, Refs, Held, Over
    <2>5. Held(b)' \subseteq Held(b) /\ pool' \subseteq pool \cup (Held(b) \ Held(b)')
      BY <1>6, <2>0, <2>3 DEF IInv, Refs, Held, Over, Answered, Release, poolVars
    <2> QED BY <2>1, <2>2, <2>3, <2>4, <2>5, Keeps
  <1>7. CASE Drained(b)
    <2>0. Over(b) /\ ReaderTypeOK'
      BY <1>7, GiveUpOver DEF Drained, IInv
    <2>1. TypeOK'
      BY <1>7, <2>0 DEF IInv, TypeOK, ReaderTypeOK, Refs, Held, Drained, Release, poolVars, helperVars
    <2>2. Elsewhere(b)
      BY <1>7, <2>0 DEF IInv, TypeOK, Elsewhere, Over, Drained, Release, helperVars
    <2>3. made' = made /\ req'[b] = req[b] /\ hbuf'[b] = hbuf[b] /\ helper'[b] = helper[b]
      BY <1>7 DEF Drained, Release, poolVars, helperVars
    <2>4. Refs(b)'
      BY <2>0, <2>3 DEF IInv, Refs, Held, Over
    <2>5. Held(b)' \subseteq Held(b) /\ pool' \subseteq pool \cup (Held(b) \ Held(b)')
      BY <1>7, <2>0, <2>3 DEF IInv, Refs, Held, Over, Drained, Release, poolVars
    <2> QED BY <2>1, <2>2, <2>3, <2>4, <2>5, Keeps
  <1>8. CASE DrainTimeout(b)
    <2>0. Over(b) /\ ReaderTypeOK'
      BY <1>8, GiveUpOver DEF DrainTimeout, IInv
    <2>1. TypeOK'
      BY <1>8, <2>0 DEF IInv, TypeOK, ReaderTypeOK, Refs, Held, DrainTimeout, poolVars, helperVars
    <2>2. Elsewhere(b)
      BY <1>8, <2>0 DEF IInv, TypeOK, Elsewhere, Over, DrainTimeout, helperVars
    <2>3. made' = made /\ req'[b] = req[b] /\ hbuf'[b] = hbuf[b] /\ helper'[b] = helper[b]
      BY <1>8 DEF DrainTimeout, poolVars, helperVars
    <2>4. Refs(b)'
      BY <2>0, <2>3 DEF IInv, Refs, Held, Over
    <2>5. Held(b)' \subseteq Held(b) /\ pool' \subseteq pool \cup (Held(b) \ Held(b)')
      BY <1>8, <2>0, <2>3 DEF IInv, Refs, Held, Over, DrainTimeout, poolVars
    <2> QED BY <2>1, <2>2, <2>3, <2>4, <2>5, Keeps
  <1>9. CASE Close(b)
    <2>1. TypeOK'
      BY <1>9 DEF IInv, TypeOK, Refs, Held, Close, ForceClose, poolVars, readerVars, helperVars
    <2>2. Elsewhere(b)
      BY <1>9 DEF IInv, TypeOK, Elsewhere, Close, ForceClose, poolVars, readerVars, helperVars
    <2>3. Refs(b)'
      BY <1>9 DEF IInv, TypeOK, BufferOwned, Refs, Held, Close, ForceClose, poolVars, readerVars, helperVars
    <2>4. made' = made /\ Held(b)' \subseteq Held(b) /\ pool' \subseteq pool \cup (Held(b) \ Held(b)')
      BY <1>9 DEF IInv, TypeOK, Refs, Held, Close, ForceClose, poolVars, readerVars, helperVars
    <2> QED BY <2>1, <2>2, <2>3, <2>4, Keeps
  <1>10. CASE StartDirect(b)
    <2>1. CASE ctx[b]
      <3>0. Over(b) /\ ReaderTypeOK'
        BY <1>10, <2>1, GiveUpOver DEF StartDirect, IInv
      <3>1. TypeOK'
        BY <1>10, <3>0 DEF IInv, TypeOK, ReaderTypeOK, StartDirect, poolVars, helperVars
      <3>2. Elsewhere(b)
        BY <1>10, <3>0 DEF Elsewhere, Over, StartDirect, helperVars
      <3>3. /\ made' = made /\ pool' = pool
            /\ req'[b] = req[b] /\ hbuf'[b] = hbuf[b] /\ helper'[b] = helper[b]
        BY <1>10 DEF StartDirect, poolVars, helperVars
      <3>4. Refs(b)' /\ Held(b)' \subseteq Held(b)
        BY <3>0, <3>3 DEF IInv, Refs, Held, Over
      <3> QED BY <3>1, <3>2, <3>3, <3>4, Keeps
    <2>2. CASE ~ctx[b]
      <3>1. pc' = [pc EXCEPT ![b] = "direct"] /\ UNCHANGED <<poolVars, tmp, res, req, helperVars>> /\ pc[b] = "read"
        BY <1>10, <2>2 DEF StartDirect
      <3>2. TypeOK'
        BY <1>10, <2>2, <3>1 DEF StartDirect, IInv, TypeOK, poolVars, helperVars
      <3>3. Elsewhere(b) /\ Refs(b)'
        BY <3>1 DEF Elsewhere, IInv, TypeOK, Refs, Held, poolVars, helperVars
      <3>4. Held(b)' = Held(b) /\ pool' = pool /\ made' = made
        BY <3>1 DEF Held, poolVars, helperVars
      <3> QED BY <3>2, <3>3, <3>4, Keeps
    <2> QED BY <2>1, <2>2
  <1>11. CASE DirectData(b)
    <2>0. Over(b) /\ ReaderTypeOK'
      BY <1>11, AcceptOver, SMTT(60) DEF DirectData, IInv, TypeOK
    <2>1. TypeOK'
      <3>1. sent' \in [Bodies -> Nat]
        BY <1>11 DEF DirectData, IInv, TypeOK
      <3> QED BY <1>11, <2>0, <3>1 DEF IInv, TypeOK, ReaderTypeOK, DirectData, poolVars
    <2>2. Elsewhere(b)
      BY <1>11, <2>0 DEF IInv, TypeOK, Elsewhere, Over, DirectData, helperVars
    <2>3. made' = made /\ req'[b] = req[b] /\ hbuf'[b] = hbuf[b] /\ helper'[b] = helper[b]
      BY <1>11 DEF DirectData, poolVars, helperVars
    <2>4. Refs(b)'
      BY <2>0, <2>3 DEF IInv, Refs, Held, Over
    <2>5. Held(b)' \subseteq Held(b) /\ pool' \subseteq pool \cup (Held(b) \ Held(b)')
      BY <1>11, <2>0, <2>3 DEF IInv, Refs, Held, Over, DirectData, poolVars
    <2> QED BY <2>1, <2>2, <2>3, <2>4, <2>5, Keeps
  <1>12. CASE DirectFails(b)
    <2>0. Over(b) /\ ReaderTypeOK'
      BY <1>12, GiveUpOver DEF DirectFails, IInv
    <2>1. TypeOK'
      BY <1>12, <2>0 DEF IInv, TypeOK, ReaderTypeOK, Refs, Held, DirectFails, ForceClose, poolVars, helperVars
    <2>2. Elsewhere(b)
      BY <1>12, <2>0 DEF IInv, TypeOK, Elsewhere, Over, DirectFails, ForceClose, helperVars
    <2>3. made' = made /\ req'[b] = req[b] /\ hbuf'[b] = hbuf[b] /\ helper'[b] = helper[b]
      BY <1>12 DEF DirectFails, ForceClose, poolVars, helperVars
    <2>4. Refs(b)'
      BY <2>0, <2>3 DEF IInv, Refs, Held, Over
    <2>5. Held(b)' \subseteq Held(b) /\ pool' \subseteq pool \cup (Held(b) \ Held(b)')
      BY <1>12, <2>0, <2>3 DEF IInv, Refs, Held, Over, DirectFails, ForceClose, poolVars
    <2> QED BY <2>1, <2>2, <2>3, <2>4, <2>5, Keeps
  <1>13. CASE HelperStops(b)
    <2>1. TypeOK'
      BY <1>13 DEF IInv, TypeOK, Refs, Held, HelperStops, poolVars, readerVars, helperVars
    <2>2. Elsewhere(b)
      BY <1>13 DEF IInv, TypeOK, Elsewhere, HelperStops, poolVars, readerVars, helperVars
    <2>3. Refs(b)'
      BY <1>13 DEF IInv, TypeOK, BufferOwned, Refs, Held, HelperStops, poolVars, readerVars, helperVars
    <2>4. made' = made /\ Held(b)' \subseteq Held(b) /\ pool' \subseteq pool \cup (Held(b) \ Held(b)')
      BY <1>13 DEF IInv, TypeOK, Refs, Held, HelperStops, poolVars, readerVars, helperVars
    <2> QED BY <2>1, <2>2, <2>3, <2>4, Keeps
  <1>14. CASE HelperTakes(b)
    <2>1. TypeOK'
      BY <1>14 DEF IInv, TypeOK, Refs, Held, HelperTakes, poolVars, readerVars, helperVars
    <2>2. Elsewhere(b)
      BY <1>14 DEF IInv, TypeOK, Elsewhere, HelperTakes, poolVars, readerVars, helperVars
    <2>3. Refs(b)'
      BY <1>14 DEF IInv, TypeOK, BufferOwned, Refs, Held, HelperTakes, poolVars, readerVars, helperVars
    <2>4. made' = made /\ Held(b)' \subseteq Held(b) /\ pool' \subseteq pool \cup (Held(b) \ Held(b)')
      BY <1>14 DEF IInv, TypeOK, Refs, Held, HelperTakes, poolVars, readerVars, helperVars
    <2> QED BY <2>1, <2>2, <2>3, <2>4, Keeps
  <1>15. CASE ReadData(b)
    <2>1. TypeOK'
      BY <1>15, SMTT(60) DEF IInv, TypeOK, Refs, Held, ReadData, HelperAnswers, Failed, poolVars, readerVars, helperVars
    <2>2. Elsewhere(b)
      BY <1>15 DEF IInv, TypeOK, Elsewhere, ReadData, HelperAnswers, Failed, poolVars, readerVars, helperVars
    <2>3. Refs(b)'
      BY <1>15 DEF IInv, TypeOK, BufferOwned, Refs, Held, ReadData, HelperAnswers, Failed, poolVars, readerVars, helperVars
    <2>4. made' = made /\ Held(b)' \subseteq Held(b) /\ pool' \subseteq pool \cup (Held(b) \ Held(b)')
      BY <1>15 DEF IInv, TypeOK, Refs, Held, ReadData, HelperAnswers, Failed, poolVars, readerVars, helperVars
    <2> QED BY <2>1, <2>2, <2>3, <2>4, Keeps
  <1>16. CASE ReadFails(b)
    <2>1. TypeOK'
      BY <1>16, SMTT(60) DEF IInv, TypeOK, Refs, Held, ReadFails, HelperAnswers, Failed, poolVars, readerVars, helperVars
    <2>2. Elsewhere(b)
      BY <1>16 DEF IInv, TypeOK, Elsewhere, ReadFails, HelperAnswers, Failed, poolVars, readerVars, helperVars
    <2>3. Refs(b)'
      BY <1>16 DEF IInv, TypeOK, BufferOwned, Refs, Held, ReadFails, HelperAnswers, Failed, poolVars, readerVars, helperVars
    <2>4. made' = made /\ Held(b)' \subseteq Held(b) /\ pool' \subseteq pool \cup (Held(b) \ Held(b)')
      BY <1>16 DEF IInv, TypeOK, Refs, Held, ReadFails, HelperAnswers, Failed, poolVars, readerVars, helperVars
    <2> QED BY <2>1, <2>2, <2>3, <2>4, Keeps
  <1>17. CASE Cancel(b)
    <2>1. TypeOK'
      BY <1>17 DEF IInv, TypeOK, Refs, Held, Cancel, poolVars, readerVars, helperVars
    <2>2. Elsewhere(b)
      BY <1>17 DEF IInv, TypeOK, Elsewhere, Cancel, poolVars, readerVars, helperVars
    <2>3. Refs(b)'
      BY <1>17 DEF IInv, TypeOK, BufferOwned, Refs, Held, Cancel, poolVars, readerVars, helperVars
    <2>4. made' = made /\ Held(b)' \subseteq Held(b) /\ pool' \subseteq pool \cup (Held(b) \ Held(b)')
      BY <1>17 DEF IInv, TypeOK, Refs, Held, Cancel, poolVars, readerVars, helperVars
    <2> QED BY <2>1, <2>2, <2>3, <2>4, Keeps
  <1> QED BY <1>q, <1>1, <1>2, <1>3, <1>4, <1>5, <1>6, <1>7, <1>8, <1>9, <1>10, <1>11, <1>12, <1>13, <1>14, <1>15, <1>16, <1>17 DEF Worker, Helper

\* Every state of the readers and their helpers is of its type: in particular
\* acquireBuf and releaseBuf keep the pool within the buffers ever made.
THEOREM TypeCorrect == Spec => []TypeOK
  <1>1. IInv => TypeOK
    BY DEF IInv
  <1> QED BY <1>1, InitInv, NextInv, PTL DEF Spec

\* drainResult and the early ways out of Read release a buffer only when no read
\* into it can still be under way: no two bodies ever write into one buffer, and
\* none that is in the pool is written, for any number of concurrent bodies.
THEOREM OneUser == Spec => []BufferOwned
  <1>1. IInv => BufferOwned
    BY DEF IInv
  <1> QED BY <1>1, InitInv, NextInv, PTL DEF Spec

-----------------------------------------------------------------------------
(* The order of the chunks *)

\* Nothing that Flow speaks of changes for body c.
Still(c) ==
    /\ pc'[c] = pc[c] /\ phase'[c] = phase[c] /\ tmp'[c] = tmp[c]
    /\ req'[c] = req[c] /\ res'[c] = res[c] /\ hbuf'[c] = hbuf[c]
    /\ sent'[c] = sent[c] /\ delivered'[c] = delivered[c]

LEMMA StillFlow == ASSUME NEW c \in Bodies, Flow(c), Still(c) PROVE Flow(c)'
  BY DEF Flow, Still

\* A step of body b is none of another.
LEMMA OneBody ==
  ASSUME TypeOK, NEW b \in Bodies, Worker(b) \/ Helper(b) \/ Cancel(b)
  PROVE  \A c \in Bodies \ {b} : Still(c)
  <1> USE DEF TypeOK, Still, Return, GiveUp, poolVars, readerVars, helperVars
  <1>1. CASE StartRead(b) \/ Offer(b) \/ AwaitEnds(b) \/ Close(b)
    <2>1. StartRead(b) => \A c \in Bodies \ {b} : tmp'[c] = tmp[c]
      BY DEF StartRead, Acquire
    <2> QED BY <1>1, <2>1 DEF StartRead, Offer, AwaitEnds, Close
  <1>2. CASE OfferCancelled(b) \/ OfferClosed(b) \/ Drained(b) \/ DrainTimeout(b)
    BY <1>2 DEF OfferCancelled, OfferClosed, Drained, DrainTimeout
  <1>3. CASE Answered(b)
    BY <1>3 DEF Answered, Accept
  <1>4. CASE StartDirect(b) \/ DirectFails(b)
    BY <1>4 DEF StartDirect, DirectFails
  <1>5. CASE DirectData(b)
    BY <1>5, SMTT(60) DEF DirectData, Accept
  <1>6. CASE HelperStops(b) \/ HelperTakes(b) \/ Cancel(b)
    BY <1>6 DEF HelperStops, HelperTakes, Cancel
  <1>7. CASE ReadData(b) \/ ReadFails(b)
    BY <1>7 DEF ReadData, ReadFails, HelperAnswers
  <1> QED BY <1>1, <1>2, <1>3, <1>4, <1>5, <1>6, <1>7 DEF Worker, Helper

\* When pumpBody has given up, nothing more is delivered.
LEMMA GiveUpFlow ==
  ASSUME TypeOK, NEW b \in Bodies, Flow(b), GiveUp(b), sent' = sent
  PROVE  Flow(b)'
  <1>1. phase'[b] = "discard" /\ delivered'[b] = delivered[b]
    BY DEF TypeOK, GiveUp
  <1> QED BY <1>1 DEF Flow

\* A chunk that pumpBody accepts is the next one.
LEMMA AcceptFlow ==
  ASSUME TypeOK, NEW b \in Bodies, Flow(b), NEW k \in Nat, Accept(b, k),
         sent'[b] \in Nat, sent'[b] <= Chunks[b], req' = req, hbuf' = hbuf,
         phase[b] = "pump" => /\ k = Len(delivered[b]) + 1 /\ sent'[b] = k
                              /\ req[b] = NoBuf /\ hbuf[b] = NoBuf
  PROVE  Flow(b)'
  <1>1. CASE phase[b] = "pump"
    <2>1. /\ delivered'[b] = Append(delivered[b], k)
          /\ pc'[b] = "read" /\ tmp'[b] = NoBuf /\ res'[b] = Nothing
      BY <1>1 DEF TypeOK, Accept, Return
    <2>2. delivered[b] \in Seq(Nat)
      BY DEF TypeOK
    <2>3. /\ Len(delivered'[b]) = Len(delivered[b]) + 1 /\ Len(delivered[b]) \in Nat
          /\ DOMAIN delivered'[b] = 1..(Len(delivered[b]) + 1)
          /\ delivered'[b][Len(delivered[b]) + 1] = k
          /\ \A i \in 1..Len(delivered[b]) : delivered'[b][i] = delivered[b][i]
      BY <2>1, <2>2
    <2>4. \A i \in DOMAIN delivered'[b] : delivered'[b][i] = i
      <3>1. \A i \in 1..Len(delivered[b]) : delivered[b][i] = i
        BY <2>2 DEF Flow
      <3>2. ASSUME NEW i \in DOMAIN delivered'[b] PROVE delivered'[b][i] = i
        <4>1. i \in 1..Len(delivered[b]) \/ i = Len(delivered[b]) + 1
          BY <2>3
        <4> QED BY <1>1, <2>3, <3>1, <4>1
      <3> QED BY <3>2
    <2>5. sent'[b] = Len(delivered'[b])
      BY <1>1, <2>3
    <2> QED BY <1>1, <2>1, <2>4, <2>5 DEF Flow, Nothing, NoBuf
  <1>2. CASE phase[b] # "pump"
    <2>1. phase'[b] # "pump" /\ delivered'[b] = delivered[b]
      BY <1>2 DEF Accept
    <2> QED BY <2>1 DEF Flow
  <1> QED BY <1>1, <1>2

LEMMA FlowInv == Ordered /\ IInv' /\ [Next]_vars => \A b \in Bodies : Flow(b)'
  <1> SUFFICES ASSUME Ordered, IInv', [Next]_vars PROVE \A b \in Bodies : Flow(b)'
    OBVIOUS
  <1>0. IInv /\ TypeOK /\ \A b \in Bodies : Flow(b) /\ Refs(b)
    BY DEF Ordered, IInv
  <1>u. CASE UNCHANGED vars
    BY <1>0, <1>u, StillFlow DEF vars, poolVars, readerVars, helperVars, Still
  <1>q. SUFFICES ASSUME NEW b \in Bodies, Worker(b) \/ Helper(b) \/ Cancel(b)
                 PROVE  Flow(b)'
    BY <1>0, <1>u, OneBody, StillFlow DEF Next
  <1>n. /\ Len(delivered[b]) \in Nat /\ sent[b] \in Nat /\ Chunks[b] \in Nat \ {0}
        /\ tmp[b] \in Nat /\ req[b] \in Nat /\ hbuf[b] \in Nat
    BY <1>0, BodiesAssumption DEF TypeOK
  <1>1. CASE StartRead(b)
    <2>1. /\ pc[b] = "read" /\ pc'[b] = "offer"
          /\ phase' = phase /\ req' = req /\ hbuf' = hbuf /\ res' = res
          /\ sent' = sent /\ delivered' = delivered
      BY <1>0, <1>1 DEF StartRead, TypeOK
    <2>2. tmp[b] = NoBuf
      BY <1>0, <2>1 DEF Refs
    <2> QED BY <1>0, <2>1, <2>2 DEF Flow
  <1>2. CASE OfferCancelled(b) \/ OfferClosed(b) \/ Drained(b) \/ DrainTimeout(b) \/ DirectFails(b)
    BY <1>0, <1>2, GiveUpFlow
       DEF OfferCancelled, OfferClosed, Drained, DrainTimeout, DirectFails, helperVars
  <1>3. CASE Offer(b)
    <2>1. /\ pc'[b] = "await" /\ req'[b] = tmp[b] /\ tmp' = tmp
          /\ phase' = phase /\ hbuf' = hbuf /\ res' = res
          /\ sent' = sent /\ delivered' = delivered
      BY <1>0, <1>3 DEF Offer, TypeOK, poolVars, helperVars
    <2> QED BY <1>0, <2>1 DEF Flow
  <1>4. CASE AwaitEnds(b)
    <2>1. pc'[b] = "drain" /\ UNCHANGED <<phase, tmp, req, res, hbuf, sent, delivered>>
      BY <1>0, <1>4 DEF AwaitEnds, TypeOK, helperVars
    <2> QED BY <1>0, <2>1 DEF Flow
  <1>5. CASE Answered(b)
    <2>1. CASE res[b] = Failed(b)
      BY <1>0, <1>5, <2>1, GiveUpFlow DEF Answered, helperVars
    <2>2. CASE res[b] # Failed(b)
      <3>1. /\ res[b] # Nothing /\ res[b] \in Nat /\ Accept(b, res[b])
            /\ sent' = sent /\ hbuf' = hbuf /\ req' = req
        BY <1>0, <1>5, <2>2 DEF Answered, TypeOK, helperVars
      <3>2. tmp[b] \notin {req[b], hbuf[b]}
        BY <1>0, <3>1 DEF Refs
      <3>3. phase[b] = "pump" => /\ res[b] = Len(delivered[b]) + 1 /\ sent[b] = res[b]
                                 /\ req[b] = NoBuf /\ hbuf[b] = NoBuf
        BY <1>0, <2>2, <3>1, <3>2 DEF Flow
      <3>4. sent'[b] <= Chunks[b] /\ sent'[b] \in Nat
        BY <1>0, <1>n, <3>1 DEF Flow
      <3> QED BY <1>0, <3>1, <3>3, <3>4, AcceptFlow
    <2> QED BY <2>1, <2>2
  <1>6. CASE Close(b)
    <2>1. pc[b] = "close" /\ UNCHANGED <<phase, sent, delivered>>
      BY <1>6 DEF Close, helperVars
    <2> QED BY <1>0, <2>1 DEF Flow
  <1>7. CASE StartDirect(b)
    <2>1. CASE ctx[b]
      BY <1>0, <1>7, <2>1, GiveUpFlow DEF StartDirect, helperVars
    <2>2. CASE ~ctx[b]
      <3>1. pc'[b] = "direct" /\ UNCHANGED <<phase, tmp, req, res, hbuf, sent, delivered>>
        BY <1>0, <1>7, <2>2 DEF StartDirect, TypeOK, helperVars
      <3> QED BY <1>0, <3>1 DEF Flow
    <2> QED BY <2>1, <2>2
  <1>8. CASE DirectData(b)
    <2>1. /\ pc[b] = "direct" /\ sent[b] < Chunks[b] /\ sent'[b] = sent[b] + 1
          /\ Accept(b, sent[b] + 1) /\ req' = req /\ hbuf' = hbuf
      BY <1>0, <1>8 DEF DirectData, TypeOK
    <2>2. tmp[b] = NoBuf /\ res[b] = Nothing
      BY <1>0, <2>1 DEF Refs
    <2>3. phase[b] = "pump" => sent[b] = Len(delivered[b]) /\ req[b] = NoBuf /\ hbuf[b] = NoBuf
      BY <1>0, <1>n, <2>2 DEF Flow, Nothing
    <2>4. sent[b] + 1 \in Nat /\ sent[b] + 1 <= Chunks[b]
      BY <1>n, <2>1
    <2> QED BY <1>0, <2>1, <2>3, <2>4, AcceptFlow
  <1>9. CASE HelperStops(b) \/ Cancel(b)
    BY <1>0, <1>9, StillFlow DEF HelperStops, Cancel, readerVars, helperVars, Still
  <1>10. CASE HelperTakes(b)
    <2>1. /\ hbuf'[b] = req[b] /\ req'[b] = NoBuf
          /\ UNCHANGED <<pc, phase, tmp, res, sent, delivered>>
      BY <1>0, <1>10 DEF HelperTakes, TypeOK, readerVars
    <2> QED BY <1>0, <2>1 DEF Flow
  <1>11. CASE ReadData(b) \/ ReadFails(b)
    <2>1. /\ helper[b] = "reading" /\ hbuf'[b] = NoBuf
          /\ UNCHANGED <<pc, phase, tmp, req, delivered>>
      BY <1>0, <1>11 DEF ReadData, ReadFails, HelperAnswers, TypeOK, poolVars
    <2>2. \/ /\ sent[b] < Chunks[b] /\ sent'[b] = sent[b] + 1
             /\ res'[b] = IF hbuf[b] = tmp[b] THEN sent[b] + 1 ELSE res[b]
          \/ /\ sent'[b] = sent[b]
             /\ res'[b] = IF hbuf[b] = tmp[b] THEN Failed(b) ELSE res[b]
      BY <1>0, <1>11 DEF ReadData, ReadFails, HelperAnswers, TypeOK
    <2>3. sent'[b] <= Chunks[b]
      BY <1>0, <1>n, <2>2 DEF Flow
    <2>4. CASE phase[b] = "pump"
      <3>1. hbuf[b] = tmp[b] /\ tmp[b] # NoBuf /\ res[b] = Nothing
        BY <1>0, <2>1, <2>4 DEF Flow, Refs
      <3>2. sent[b] = Len(delivered[b])
        BY <1>0, <1>n, <2>4, <3>1 DEF Flow, Nothing
      <3> QED BY <1>0, <1>n, <2>1, <2>2, <2>3, <2>4, <3>1, <3>2 DEF Flow, Failed
    <2>5. CASE phase[b] # "pump"
      BY <1>0, <2>1, <2>3, <2>5 DEF Flow
    <2> QED BY <2>4, <2>5
  <1> QED BY <1>q, <1>1, <1>2, <1>3, <1>4, <1>5, <1>6, <1>7, <1>8, <1>9, <1>10, <1>11
          DEF Worker, Helper

\* Through timeouts, abandoned reads and late answers pumpBody gets the chunks
\* of its body in order and without a gap (Read, drainResult, pumpBody).
THEOREM ChunksInOrder == Spec => []InOrder
  <1>1. Init => Ordered
    <2>1. Init => \A b \in Bodies : Flow(b)
      BY BodiesAssumption DEF Init, Flow, NoBuf, Nothing
    <2> QED BY <2>1, InitInv DEF Ordered
  <1>2. Ordered /\ [Next]_vars => Ordered'
    <2> SUFFICES ASSUME Ordered, [Next]_vars PROVE Ordered'
      OBVIOUS
    <2>1. IInv'
      BY NextInv DEF Ordered
    <2>2. \A b \in Bodies : Flow(b)'
      BY <2>1, FlowInv
    <2> QED BY <2>1, <2>2 DEF Ordered
  <1>3. Ordered => InOrder
    BY DEF Ordered, Flow, InOrder
  <1> QED BY <1>1, <1>2, <1>3, PTL DEF Spec

===========================================================================
