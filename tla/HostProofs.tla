------------------------------- MODULE HostProofs -------------------------------
(***************************************************************************)
(* Proofs about modules Host, GetDomain and UdpConn: the races of the      *)
(* lookup do no harm unless a request fails, none of its goroutines is     *)
(* left behind, the connection stays open and read however the routines    *)
(* replace it, and the process dies in the three known cases only, for     *)
(* every number of servers and of connections.                             *)
(***************************************************************************)
EXTENDS Host, FiniteSetTheorems, TLAPS

(***************************************************************************)
(* The lookup.  Until a request fails, every value that the goroutines     *)
(* assign is the record, so that qtMsg is whole as soon as one of them, or *)
(* GetDomain itself, has assigned it.                                      *)
(***************************************************************************)
WordsWritten(s) ==
    /\ request[s] \in {"len", "err", "done"} => qtMsg.array = "record"
    /\ request[s] \in {"array", "err", "done"} => qtMsg.len = "record"

KeptSoFar ==
    /\ err = FALSE
    /\ msgChan \in Seq({Record})
    /\ \A s \in Servers : WordsWritten(s)
    /\ lookup \in {"check", "decrypt", "test", "done"} => qtMsg = Record
    /\ lookup \in {"test", "done"} => result = "record"
    /\ lookup # "crashed"

LookupInv ==
    /\ LookupTypeOK
    /\ lookup = "idle" => /\ \A s \in Servers : request[s] = "off"
                          /\ KeptSoFar
    /\ \A s \in Servers : request[s] = "send" => answer[s] \in Answers
    /\ Undisturbed => KeptSoFar

\* Answers are slices, and so is nil.
LEMMA SliceFacts ==
    /\ Answers \subseteq Slices
    /\ Nil \in Slices
    /\ Record \in Answers
    /\ Nil \notin Answers
  BY DEF Answers, Slices, Nil, Record, Arrays, Lengths

\* A slice is its two words.
LEMMA SliceWords ==
    ASSUME NEW q \in Slices
    PROVE  (q = Record) <=> (q.array = "record" /\ q.len = "record")
  BY DEF Slices, Record

\* A lookup that has not begun satisfies the invariant.
LEMMA LookupInitInv == LookupInit => LookupInv
<1>  SUFFICES ASSUME LookupInit PROVE LookupInv
  OBVIOUS
<1>1. LookupTypeOK
  <2>1. msgChan \in Seq(Answers) /\ Len(msgChan) <= MsgChanSize
    BY LookupAssumption DEF LookupInit
  <2>2. err \in BOOLEAN /\ secretOk \in BOOLEAN
    BY DEF LookupInit
  <2>  QED
    BY <2>1, <2>2, SliceFacts DEF LookupInit, LookupTypeOK
<1>  QED
  BY <1>1 DEF LookupInit, LookupInv, KeptSoFar, WordsWritten

\* What a goroutine does keeps the invariant.
LEMMA RequestInv ==
    ASSUME NEW s \in Servers, LookupInv,
           \/ RequestFails(s) \/ ReadAnswer(s) \/ SendAnswer(s)
           \/ AssignArray(s) \/ AssignLen(s) \/ AssignErr(s)
    PROVE  LookupInv'
<1>  USE DEF LookupInv
<1>0. lookup' = lookup /\ result' = result /\ lookup # "idle"
  BY DEF RequestFails, ReadAnswer, SendAnswer, AssignArray, AssignLen, AssignErr
<1>1. CASE RequestFails(s)
  <2>1. LookupTypeOK'
    BY <1>1 DEF RequestFails, LookupTypeOK
  <2>2. Undisturbed' => Undisturbed
    BY <1>1 DEF RequestFails, LookupTypeOK, Undisturbed
  <2>3. Undisturbed' => KeptSoFar'
    BY <1>1, <2>2 DEF RequestFails, LookupTypeOK, KeptSoFar, WordsWritten
  <2>  QED
    BY <1>0, <1>1, <2>1, <2>3 DEF RequestFails, LookupTypeOK
<1>2. CASE ReadAnswer(s)
  <2>1. LookupTypeOK'
    BY <1>2, SliceFacts DEF ReadAnswer, LookupTypeOK
  <2>2. Undisturbed' => Undisturbed
    BY <1>2 DEF ReadAnswer, LookupTypeOK, Undisturbed
  <2>3. Undisturbed' => KeptSoFar'
    BY <1>2, <2>2 DEF ReadAnswer, LookupTypeOK, KeptSoFar, WordsWritten
  <2>  QED
    BY <1>0, <1>2, <2>1, <2>3 DEF ReadAnswer, LookupTypeOK
<1>3. CASE SendAnswer(s)
  <2>1. answer[s] \in Answers
    BY <1>3 DEF SendAnswer
  <2>2. LookupTypeOK'
    BY <1>3, <2>1, LookupAssumption DEF SendAnswer, HasRoom, LookupTypeOK
  <2>3. Undisturbed' => Undisturbed /\ answer[s] = Record
    BY <1>3 DEF SendAnswer, LookupTypeOK, Undisturbed
  <2>4. Undisturbed' => msgChan' \in Seq({Record})
    BY <1>3, <2>3 DEF SendAnswer, KeptSoFar
  <2>5. Undisturbed' => KeptSoFar'
    BY <1>3, <2>3, <2>4 DEF SendAnswer, LookupTypeOK, KeptSoFar, WordsWritten
  <2>  QED
    BY <1>0, <1>3, <2>2, <2>5 DEF SendAnswer, LookupTypeOK
<1>4. CASE AssignArray(s)
  <2>1. LookupTypeOK'
    BY <1>4 DEF AssignArray, LookupTypeOK, Slices
  <2>2. Undisturbed' => Undisturbed /\ answer[s] = Record
    BY <1>4 DEF AssignArray, LookupTypeOK, Undisturbed
  <2>3. ASSUME Undisturbed' PROVE KeptSoFar'
    <3>1. qtMsg' \in Slices /\ qtMsg'.array = "record" /\ qtMsg'.len = qtMsg.len
      BY <1>4, <2>2, <2>3 DEF AssignArray, LookupTypeOK, Slices, Record, Arrays
    <3>2. \A t \in Servers : WordsWritten(t)'
      BY <1>4, <2>2, <2>3, <3>1 DEF AssignArray, LookupTypeOK, KeptSoFar, WordsWritten
    <3>3. lookup \in {"check", "decrypt", "test", "done"} => qtMsg' = Record
      BY <2>2, <2>3, <3>1, SliceWords DEF KeptSoFar, Record
    <3>  QED
      BY <1>4, <2>2, <2>3, <3>2, <3>3 DEF AssignArray, KeptSoFar
  <2>  QED
    BY <1>0, <1>4, <2>1, <2>3 DEF AssignArray, LookupTypeOK
<1>5. CASE AssignLen(s)
  <2>1. LookupTypeOK'
    BY <1>5 DEF AssignLen, LookupTypeOK, Slices
  <2>2. Undisturbed' => Undisturbed /\ answer[s] = Record
    BY <1>5 DEF AssignLen, LookupTypeOK, Undisturbed
  <2>3. ASSUME Undisturbed' PROVE KeptSoFar'
    <3>1. qtMsg' \in Slices /\ qtMsg'.len = "record" /\ qtMsg'.array = qtMsg.array
      BY <1>5, <2>2, <2>3 DEF AssignLen, LookupTypeOK, Slices, Record, Lengths
    <3>2. \A t \in Servers : WordsWritten(t)'
      BY <1>5, <2>2, <2>3, <3>1 DEF AssignLen, LookupTypeOK, KeptSoFar, WordsWritten
    <3>3. lookup \in {"check", "decrypt", "test", "done"} => qtMsg' = Record
      BY <2>2, <2>3, <3>1, SliceWords DEF KeptSoFar, Record
    <3>  QED
      BY <1>5, <2>2, <2>3, <3>2, <3>3 DEF AssignLen, KeptSoFar
  <2>  QED
    BY <1>0, <1>5, <2>1, <2>3 DEF AssignLen, LookupTypeOK
<1>6. CASE AssignErr(s)
  <2>1. LookupTypeOK'
    BY <1>6 DEF AssignErr, LookupTypeOK
  <2>2. Undisturbed' => Undisturbed /\ answer[s] = Record
    BY <1>6 DEF AssignErr, LookupTypeOK, Undisturbed
  <2>3. Undisturbed' => err' = FALSE
    BY <1>6, <2>2, SliceFacts DEF AssignErr
  <2>4. Undisturbed' => KeptSoFar'
    BY <1>6, <2>2, <2>3 DEF AssignErr, LookupTypeOK, KeptSoFar, WordsWritten
  <2>  QED
    BY <1>0, <1>6, <2>1, <2>4 DEF AssignErr, LookupTypeOK
<1>  QED
  BY <1>1, <1>2, <1>3, <1>4, <1>5, <1>6

\* What GetDomain itself does keeps the invariant.
LEMMA GetDomainInv ==
    ASSUME LookupInv,
           \/ CallGetDomain \/ ReceiveAnswer \/ LookupTimesOut \/ CheckLength
           \/ Decrypt \/ TestErr
    PROVE  LookupInv'
<1>  USE DEF LookupInv
<1>1. CASE CallGetDomain
  <2>1. LookupTypeOK'
    BY <1>1 DEF CallGetDomain, LookupTypeOK
  <2>2. KeptSoFar'
    BY <1>1 DEF CallGetDomain, KeptSoFar, WordsWritten
  <2>  QED
    BY <1>1, <2>1, <2>2 DEF CallGetDomain
<1>2. CASE ReceiveAnswer
  <2>1. Head(msgChan) \in Answers /\ Tail(msgChan) \in Seq(Answers)
        /\ Len(Tail(msgChan)) = Len(msgChan) - 1
    BY <1>2 DEF ReceiveAnswer, LookupTypeOK
  <2>2. LookupTypeOK'
    BY <1>2, <2>1, SliceFacts, LookupAssumption DEF ReceiveAnswer, LookupTypeOK
  <2>3. ASSUME Undisturbed' PROVE KeptSoFar'
    <3>1. KeptSoFar
      BY <1>2, <2>3 DEF ReceiveAnswer, Undisturbed
    <3>2. Head(msgChan) = Record /\ Tail(msgChan) \in Seq({Record})
      BY <1>2, <3>1 DEF ReceiveAnswer, KeptSoFar
    <3>  QED
      BY <1>2, <3>1, <3>2 DEF ReceiveAnswer, KeptSoFar, WordsWritten, Record
  <2>  QED
    BY <1>2, <2>2, <2>3 DEF ReceiveAnswer
<1>3. CASE LookupTimesOut
  <2>1. LookupTypeOK'
    BY <1>3 DEF LookupTimesOut, LookupTypeOK
  <2>2. ASSUME Undisturbed' PROVE KeptSoFar'
    <3>1. KeptSoFar
      BY <1>3, <2>2 DEF LookupTimesOut, Undisturbed
    <3>2. PICK s \in Servers : request[s] = "done"
      BY <1>3, LookupAssumption DEF LookupTimesOut
    <3>3. qtMsg = Record
      BY <3>1, <3>2, SliceWords DEF KeptSoFar, WordsWritten, LookupTypeOK
    <3>  QED
      BY <1>3, <3>1, <3>3 DEF LookupTimesOut, KeptSoFar, WordsWritten
  <2>  QED
    BY <1>3, <2>1, <2>2 DEF LookupTimesOut
<1>4. CASE CheckLength
  <2>1. LookupTypeOK'
    BY <1>4 DEF CheckLength, LookupTypeOK
  <2>2. Undisturbed' => KeptSoFar'
    BY <1>4 DEF CheckLength, Undisturbed, KeptSoFar, WordsWritten, Record
  <2>  QED
    BY <1>4, <2>1, <2>2 DEF CheckLength
<1>5. CASE Decrypt
  <2>1. PICK o \in DecryptOutcomes(qtMsg) :
           /\ lookup' = IF o = "panic" THEN "crashed" ELSE "test"
           /\ err' = IF o = "panic" THEN err ELSE o = "error"
           /\ result' = IF o \in {"record", "other"} THEN o ELSE "empty"
    BY <1>5 DEF Decrypt
  <2>2. LookupTypeOK'
    BY <1>5, <2>1 DEF Decrypt, LookupTypeOK
  <2>3. ASSUME Undisturbed' PROVE KeptSoFar'
    <3>1. Undisturbed /\ KeptSoFar
      BY <1>5, <2>3 DEF Decrypt, Undisturbed
    <3>2. qtMsg = Record /\ secretOk
      BY <1>5, <3>1 DEF Decrypt, KeptSoFar, Undisturbed
    <3>3. o = "record"
      BY <2>1, <3>2 DEF DecryptOutcomes, Record
    <3>  QED
      BY <1>5, <2>1, <3>1, <3>2, <3>3 DEF Decrypt, KeptSoFar, WordsWritten
  <2>  QED
    BY <1>5, <2>1, <2>2, <2>3 DEF Decrypt
<1>6. CASE TestErr
  <2>1. LookupTypeOK'
    BY <1>6 DEF TestErr, LookupTypeOK
  <2>2. Undisturbed' => KeptSoFar'
    BY <1>6 DEF TestErr, Undisturbed, KeptSoFar, WordsWritten
  <2>  QED
    BY <1>6, <2>1, <2>2 DEF TestErr
<1>  QED
  BY <1>1, <1>2, <1>3, <1>4, <1>5, <1>6

\* Every step of a lookup keeps the invariant, its end and a stutter too.
LEMMA LookupNextInv == LookupInv /\ (LookupNext \/ ForgetLookup \/ UNCHANGED lookupVars) => LookupInv'
<1>1. ASSUME LookupInv, LookupNext PROVE LookupInv'
  BY <1>1, RequestInv, GetDomainInv DEF LookupNext
<1>2. ASSUME LookupInv, ForgetLookup PROVE LookupInv'
  <2>1. LookupTypeOK'
    <3>1. msgChan' \in Seq(Answers) /\ Len(msgChan') <= MsgChanSize
      BY <1>2, LookupAssumption DEF ForgetLookup
    <3>2. err' \in BOOLEAN /\ secretOk' \in BOOLEAN
      BY <1>2 DEF ForgetLookup
    <3>  QED
      BY <1>2, <3>1, <3>2, SliceFacts DEF ForgetLookup, LookupTypeOK
  <2>  QED
    BY <1>2, <2>1 DEF ForgetLookup, LookupInv, KeptSoFar, WordsWritten
<1>3. ASSUME LookupInv, UNCHANGED lookupVars PROVE LookupInv'
  BY <1>3 DEF lookupVars, LookupInv, LookupTypeOK, KeptSoFar, WordsWritten, Undisturbed
<1>  QED
  BY <1>1, <1>2, <1>3

-----------------------------------------------------------------------------
(***************************************************************************)
(* The connection.  A socket that is not in use has no readers, and until  *)
(* the receiver is started none is being fetched.                          *)
(***************************************************************************)
ConnInv ==
    /\ ConnTypeOK
    /\ ConnectionServed
    /\ conn # NoConn => status[conn] # "unused"
    /\ \A g \in Callers : read[g] # NoConn => status[read[g]] # "unused"
    /\ \A c \in Conns : status[c] = "unused" => readers[c] = 0

\* A device without a connection satisfies the invariant.
LEMMA ConnInitInv == ConnInit => ConnInv
<1>  SUFFICES ASSUME ConnInit PROVE ConnInv
  OBVIOUS
<1>1. newUDPConn \in BOOLEAN /\ stale \in BOOLEAN /\ refused \in BOOLEAN
  BY DEF ConnInit
<1>2. ConnTypeOK
  BY <1>1 DEF ConnInit, ConnTypeOK
<1>  QED
  BY <1>2 DEF ConnInit, ConnInv, ConnectionServed

\* A caller that closes the old connection and dials a new one: the field is
\* empty in between, and the new socket is signalled before the lock is free.
LEMMA DialInv ==
    ASSUME NEW g \in Callers, ConnInv, CloseOldConn(g) \/ DialUDP(g) \/ DialFails(g)
    PROVE  ConnInv'
<1>  USE UdpConnAssumption DEF ConnInv
<1>1. CASE CloseOldConn(g)
  BY <1>1 DEF CloseOldConn, Goto, ConnTypeOK, ConnectionServed
<1>2. CASE DialUDP(g)
  <2>1. PICK c \in Conns : /\ status[c] = "unused"
                          /\ status' = [status EXCEPT ![c] = "open"]
                          /\ conn' = c
    BY <1>2 DEF DialUDP
  <2>2. ConnTypeOK'
    BY <1>2, <2>1 DEF DialUDP, Goto, ConnTypeOK
  <2>3. ConnectionServed'
    BY <1>2, <2>1 DEF DialUDP, ConnTypeOK, ConnectionServed, Count
  <2>  QED
    BY <1>2, <2>1, <2>2, <2>3 DEF DialUDP, ConnTypeOK
<1>3. CASE DialFails(g)
  BY <1>3 DEF DialFails, Goto, ConnTypeOK, ConnectionServed
<1>  QED
  BY <1>1, <1>2, <1>3

\* The unlocked assignment leaves the field as it is or marks it as stale.
LEMMA AssignConnInv ==
    ASSUME NEW g \in Callers, ConnInv,
           SendFails(g) \/ SetEndpoint(g) \/ ReadConn(g) \/ WriteConn(g)
    PROVE  ConnInv'
<1>  USE UdpConnAssumption DEF ConnInv
<1>1. CASE SendFails(g)
  BY <1>1 DEF SendFails, Goto, ConnTypeOK, ConnectionServed
<1>2. CASE SetEndpoint(g)
  BY <1>2 DEF SetEndpoint, Panics, Goto, ConnTypeOK, ConnectionServed
<1>3. CASE ReadConn(g)
  BY <1>3 DEF ReadConn, Goto, ConnTypeOK, ConnectionServed
<1>4. CASE WriteConn(g)
  <2>1. ConnTypeOK'
    BY <1>4 DEF WriteConn, Panics, Goto, ConnTypeOK
  <2>2. stale' = FALSE => stale = FALSE /\ conn' = conn
    BY <1>4 DEF WriteConn, ConnTypeOK
  <2>3. ConnectionServed'
    BY <1>4, <2>2 DEF WriteConn, ConnTypeOK, ConnectionServed
  <2>4. conn' # NoConn => status'[conn'] # "unused"
    BY <1>4 DEF WriteConn
  <2>  QED
    BY <1>4, <2>1, <2>3, <2>4 DEF WriteConn, ConnTypeOK
<1>  QED
  BY <1>1, <1>2, <1>3, <1>4

\* The receiver turns a signal into a reader; a reader that ends on an open
\* socket is noted.
LEMMA ReceiverInv ==
    ASSUME ConnInv,
           TakeSignal \/ FetchConn \/ \E c \in Conns : CloseDone(c) \/ ReaderEnds(c)
    PROVE  ConnInv'
<1>  USE UdpConnAssumption DEF ConnInv
<1>1. CASE TakeSignal
  <2>1. ConnTypeOK'
    BY <1>1 DEF TakeSignal, ConnTypeOK
  <2>2. /\ Count(newUDPConn) = 1 /\ Count(receiver = "fetch") = 0
        /\ Count(newUDPConn') = 0 /\ Count(receiver' = "fetch") = 1
    BY <1>1 DEF TakeSignal, Count
  <2>3. ConnectionServed'
    <3>1. conn' = conn /\ stale' = stale /\ status' = status /\ readers' = readers
          /\ refused' = refused
      BY <1>1 DEF TakeSignal
    <3>  SUFFICES ASSUME conn # NoConn, ~stale
                  PROVE  /\ status[conn] = "open"
                         /\ readers[conn] + Count(newUDPConn') + Count(receiver' = "fetch") <= 2
                         /\ refused \/ readers[conn] + Count(newUDPConn')
                                          + Count(receiver' = "fetch") >= 1
      BY <3>1 DEF ConnectionServed
    <3>2. readers[conn] \in Nat
      BY DEF ConnTypeOK
    <3>3. /\ status[conn] = "open"
          /\ readers[conn] + 1 <= 2
          /\ refused \/ readers[conn] + 1 >= 1
      BY <2>2, <3>2 DEF ConnectionServed
    <3>  QED
      BY <2>2, <3>2, <3>3
  <2>  QED
    BY <1>1, <2>1, <2>3 DEF TakeSignal, ConnTypeOK
<1>2. CASE FetchConn
  <2>1. ConnTypeOK'
    BY <1>2 DEF FetchConn, ConnTypeOK
  <2>2. ConnectionServed'
    BY <1>2 DEF FetchConn, ConnTypeOK, ConnectionServed, Count
  <2>  QED
    BY <1>2, <2>1, <2>2 DEF FetchConn, ConnTypeOK
<1>3. ASSUME NEW c \in Conns, CloseDone(c) PROVE ConnInv'
  BY <1>3 DEF CloseDone, ConnTypeOK, ConnectionServed
<1>4. ASSUME NEW c \in Conns, ReaderEnds(c) PROVE ConnInv'
  <2>1. ConnTypeOK'
    BY <1>4 DEF ReaderEnds, ConnTypeOK
  <2>2. ConnectionServed'
    <3>1. CASE c = conn
      <4>1. conn # NoConn /\ ~stale => refused'
        BY <1>4, <3>1 DEF ReaderEnds, ConnectionServed
      <4>2. readers'[conn] = readers[conn] - 1
        BY <1>4, <3>1 DEF ReaderEnds, ConnTypeOK
      <4>3. Count(newUDPConn) \in Nat /\ Count(receiver = "fetch") \in Nat
            /\ readers[conn] \in Nat
        BY <3>1 DEF Count, ConnTypeOK
      <4>  QED
        BY <1>4, <4>1, <4>2, <4>3 DEF ReaderEnds, ConnectionServed
    <3>2. CASE c # conn
      <4>1. conn \in Conns => readers'[conn] = readers[conn]
        BY <1>4, <3>2 DEF ReaderEnds, ConnTypeOK
      <4>2. refused => refused'
        BY <1>4 DEF ReaderEnds
      <4>  QED
        BY <1>4, <4>1, <4>2 DEF ReaderEnds, ConnectionServed, ConnTypeOK
    <3>  QED
      BY <3>1, <3>2
  <2>  QED
    BY <1>4, <2>1, <2>2 DEF ReaderEnds, ConnTypeOK
<1>  QED
  BY <1>1, <1>2, <1>3, <1>4

\* Every step of the connection keeps the invariant.
LEMMA ConnNextInv == ConnInv /\ ConnNext => ConnInv'
  BY DialInv, AssignConnInv, ReceiverInv DEF ConnNext

-----------------------------------------------------------------------------
(***************************************************************************)
(* The calls of the app.  With a private key the empty peer of NewDevice   *)
(* is gone before the connection is made, and StartConnection finds a peer *)
(* as long as the app has not returned.                                    *)
(***************************************************************************)
AppTypeOK ==
    /\ app \in {"lookup", "init", "own_private", "own_public", "their_public", "endpoint",
                "allowed_ip", "keepalive", "ready", "started", "returned", "refused", "crashed"}
    /\ privateKey \in {"zero", "good"}
    /\ routed \in BOOLEAN
    /\ starting \in {"off", "initiator", "sender", "sleep", "workers", "receive", "up", "crashed"}
    /\ closedEarly \in BOOLEAN

ConfigInv ==
    /\ app \in {"lookup", "init", "own_private", "own_public", "their_public"}
          => caller[Main] = "off"
    /\ app = "their_public" /\ privateKey = "good" => peers = "none"
    /\ app = "endpoint" => peers # "none"
    /\ app = "endpoint" /\ privateKey = "good" => peers = "made" /\ caller[Main] # "ended"
    /\ app \in {"allowed_ip", "keepalive", "ready", "started"} => peers # "none"
    /\ app = "crashed" => privateKey = "zero"

StartInv ==
    /\ starting # "off" => app \in {"started", "returned"}
    /\ starting \in {"initiator", "sender", "sleep"} /\ app = "returned" => closedEarly
    /\ starting = "crashed" => app = "returned" /\ closedEarly
    /\ starting # "up" => receiver = "off"

HostInv == LookupInv /\ ConnInv /\ AppTypeOK /\ ConfigInv /\ StartInv

\* The program starts with a lookup and without a device.
LEMMA HostInitInv == Init => HostInv
<1>  SUFFICES ASSUME Init PROVE HostInv
  OBVIOUS
<1>1. LookupInv /\ ConnInv
  BY LookupInitInv, ConnInitInv DEF Init
<1>2. routed \in BOOLEAN /\ closedEarly \in BOOLEAN
  BY DEF Init
<1>3. AppTypeOK
  BY <1>2 DEF Init, AppTypeOK
<1>4. ConfigInv /\ StartInv
  BY DEF Init, ConnInit, ConfigInv, StartInv, Callers
<1>  QED
  BY <1>1, <1>3, <1>4 DEF HostInv

\* The main goroutine panics in the endpoint case only on a peer that is
\* missing or empty, and the receiver runs only once it is started.
LEMMA ConnStepInv ==
    ASSUME HostInv, ConnNext, UNCHANGED <<lookupVars, hostVars>>
    PROVE  HostInv'
<1>  USE UdpConnAssumption
<1>1. LookupInv' /\ ConnInv'
  BY LookupNextInv, ConnNextInv DEF HostInv
<1>2. AppTypeOK'
  BY DEF HostInv, AppTypeOK, hostVars
<1>  DEFINE MainKept == /\ peers' = peers
                        /\ receiver = "off" => receiver' = "off"
                        /\ caller[Main] = "off" => caller'[Main] = "off"
                        /\ caller[Main] # "ended" /\ peers = "made" => caller'[Main] # "ended"
<1>3. MainKept
  <2>1. ASSUME NEW g \in Callers,
               \/ SendFails(g) \/ SetEndpoint(g) \/ CloseOldConn(g) \/ DialUDP(g)
               \/ DialFails(g) \/ ReadConn(g) \/ WriteConn(g)
        PROVE  MainKept
    BY <2>1 DEF SendFails, SetEndpoint, CloseOldConn, DialUDP, DialFails, ReadConn, WriteConn,
                Panics, Goto, Callers, HostInv, ConnInv, ConnTypeOK
  <2>2. ASSUME TakeSignal \/ FetchConn \/ \E c \in Conns : CloseDone(c) \/ ReaderEnds(c)
        PROVE  MainKept
    BY <2>2 DEF TakeSignal, FetchConn, CloseDone, ReaderEnds
  <2>  QED
    BY <2>1, <2>2 DEF ConnNext
<1>4. ConfigInv' /\ StartInv'
  BY <1>3 DEF HostInv, ConfigInv, StartInv, hostVars
<1>  QED
  BY <1>1, <1>2, <1>4 DEF HostInv

\* The configuration: every case of SetOperation but the endpoint.
LEMMA ConfigStepInv ==
    ASSUME HostInv,
           \/ CallInit \/ InitRefused \/ NewDevice \/ SetPrivateKey \/ SetPublicKey
           \/ SetTheirPublic \/ SetAllowedIp \/ SetKeepaliveInterval
    PROVE  HostInv'
<1>  USE DEF AppStep
<1>1. LookupInv'
  BY LookupNextInv DEF HostInv, CallInit, InitRefused, NewDevice, SetPrivateKey, SetPublicKey,
     SetTheirPublic, SetAllowedIp, SetKeepaliveInterval
<1>2. /\ UNCHANGED <<conn, holder, status, caller, read, newUDPConn, receiver, readers, stale,
                     refused, starting, closedEarly>>
      /\ peers' \in {"blank", "none", "made"}
  BY DEF HostInv, ConnInv, ConnTypeOK, CallInit, InitRefused, NewDevice, SetPrivateKey,
     SetPublicKey, SetTheirPublic, SetAllowedIp, SetKeepaliveInterval, connVars
<1>3. ConnInv'
  BY <1>2 DEF HostInv, ConnInv, ConnTypeOK, ConnectionServed
<1>4. AppTypeOK'
  BY DEF HostInv, AppTypeOK, CallInit, InitRefused, NewDevice, SetPrivateKey, SetPublicKey,
     SetTheirPublic, SetAllowedIp, SetKeepaliveInterval, KeyArguments
<1>5. ConfigInv'
  BY <1>2 DEF HostInv, AppTypeOK, ConfigInv, ConnInv, ConnTypeOK, CallInit, InitRefused,
     NewDevice, SetPrivateKey, SetPublicKey, SetTheirPublic, SetAllowedIp,
     SetKeepaliveInterval, KeyArguments, connVars
<1>6. StartInv'
  BY <1>2 DEF HostInv, StartInv, CallInit, InitRefused, NewDevice, SetPrivateKey, SetPublicKey,
     SetTheirPublic, SetAllowedIp, SetKeepaliveInterval
<1>  QED
  BY <1>1, <1>3, <1>4, <1>5, <1>6 DEF HostInv

\* The endpoint case begins and ends.
LEMMA EndpointStepInv ==
    ASSUME HostInv, CallEndpoint \/ EndpointReturns
    PROVE  HostInv'
<1>  USE UdpConnAssumption DEF AppStep
<1>1. LookupInv'
  BY LookupNextInv DEF HostInv, CallEndpoint, EndpointReturns
<1>2. /\ UNCHANGED <<peers, conn, holder, status, read, newUDPConn, receiver, readers, stale,
                     refused, privateKey, routed, starting, closedEarly>>
      /\ caller' \in {caller, [caller EXCEPT ![Main] = "change"]}
  BY DEF CallEndpoint, EndpointReturns, Goto, connVars
<1>3. ConnInv'
  BY <1>2 DEF HostInv, ConnInv, ConnTypeOK, ConnectionServed, Callers
<1>4. app' \in {"endpoint", "refused", "allowed_ip", "crashed"} /\ app = "endpoint"
  BY DEF CallEndpoint, EndpointReturns
<1>5. app' = "crashed" => caller[Main] = "ended"
  BY DEF CallEndpoint, EndpointReturns
<1>6. AppTypeOK'
  BY <1>2, <1>4 DEF HostInv, AppTypeOK
<1>7. caller'[Main] \in {caller[Main], "change"}
  BY <1>2 DEF HostInv, ConnInv, ConnTypeOK, Callers
<1>8. ConfigInv' /\ StartInv'
  BY <1>2, <1>4, <1>5, <1>7 DEF HostInv, AppTypeOK, ConfigInv, StartInv
<1>  QED
  BY <1>1, <1>3, <1>6, <1>8 DEF HostInv

\* Start, every step of StartConnection, and Close.
LEMMA StartStepInv ==
    ASSUME HostInv, Start \/ StartConnection \/ Close
    PROVE  HostInv'
<1>  USE UdpConnAssumption, HostAssumption DEF AppStep
<1>1. LookupInv'
  BY LookupNextInv DEF HostInv, Start, StartConnection, Spawn, WakeInitiator, SpawnWorkers,
     SpawnReceiver, Close
<1>2. CASE Start
  <2>1. ConnInv'
    BY <1>2 DEF Start, HostInv, ConnInv, ConnTypeOK, ConnectionServed, connVars
  <2>2. AppTypeOK' /\ ConfigInv' /\ StartInv'
    BY <1>2 DEF Start, HostInv, AppTypeOK, ConfigInv, StartInv, connVars
  <2>  QED
    BY <1>1, <2>1, <2>2 DEF HostInv
<1>3. ASSUME NEW g \in Routines, NEW from, NEW to, Spawn(g, from, to),
             <<from, to>> \in {<<"initiator", "sender">>, <<"sender", "sleep">>}
      PROVE  HostInv'
  <2>1. ConnInv'
    BY <1>3 DEF Spawn, Goto, HostInv, ConnInv, ConnTypeOK, ConnectionServed, Callers
  <2>2. AppTypeOK'
    BY <1>3 DEF Spawn, HostInv, AppTypeOK
  <2>3. caller'[Main] = caller[Main]
    BY <1>3 DEF Spawn, Goto, HostInv, ConnInv, ConnTypeOK, Callers
  <2>4. ConfigInv' /\ StartInv'
    BY <1>3, <2>3 DEF Spawn, HostInv, AppTypeOK, ConfigInv, StartInv
  <2>  QED
    BY <1>1, <2>1, <2>2, <2>4 DEF HostInv
<1>4. CASE WakeInitiator
  <2>1. ConnInv'
    BY <1>4 DEF WakeInitiator, HostInv, ConnInv, ConnTypeOK, ConnectionServed, connVars
  <2>2. AppTypeOK' /\ ConfigInv' /\ StartInv'
    BY <1>4 DEF WakeInitiator, HostInv, AppTypeOK, ConfigInv, StartInv, connVars
  <2>  QED
    BY <1>1, <2>1, <2>2 DEF HostInv
<1>5. CASE SpawnWorkers
  <2>1. ConnInv'
    BY <1>5 DEF SpawnWorkers, Goto, HostInv, ConnInv, ConnTypeOK, ConnectionServed, Callers
  <2>2. caller'[Main] = caller[Main]
    BY <1>5 DEF SpawnWorkers, Goto, HostInv, ConnInv, ConnTypeOK, Callers
  <2>3. AppTypeOK' /\ ConfigInv' /\ StartInv'
    BY <1>5, <2>2 DEF SpawnWorkers, HostInv, AppTypeOK, ConfigInv, StartInv
  <2>  QED
    BY <1>1, <2>1, <2>3 DEF HostInv
<1>6. CASE SpawnReceiver
  <2>1. receiver = "off" /\ receiver' = "wait"
    BY <1>6 DEF SpawnReceiver, HostInv, StartInv
  <2>2. Count(receiver' = "fetch") = 0 /\ Count(receiver = "fetch") = 0
    BY <2>1 DEF Count
  <2>3. ConnectionServed'
    BY <1>6, <2>2 DEF SpawnReceiver, HostInv, ConnInv, ConnectionServed
  <2>4. ConnInv'
    BY <1>6, <2>1, <2>3 DEF SpawnReceiver, HostInv, ConnInv, ConnTypeOK
  <2>5. AppTypeOK' /\ ConfigInv' /\ StartInv'
    BY <1>6 DEF SpawnReceiver, HostInv, AppTypeOK, ConfigInv, StartInv
  <2>  QED
    BY <1>1, <2>4, <2>5 DEF HostInv
<1>7. CASE Close
  <2>1. ConnInv'
    BY <1>7 DEF Close, HostInv, ConnInv, ConnTypeOK, ConnectionServed
  <2>2. /\ routed' \in BOOLEAN
        /\ closedEarly' \in BOOLEAN
        /\ starting \in {"initiator", "sender", "sleep"} => closedEarly'
    BY <1>7 DEF Close, HostInv, AppTypeOK
  <2>3. AppTypeOK' /\ ConfigInv'
    BY <1>7, <2>2 DEF Close, HostInv, AppTypeOK, ConfigInv
  <2>4. StartInv'
    <3>1. starting # "crashed" /\ receiver' = receiver /\ starting' = starting /\ app' = "returned"
      BY <1>7 DEF Close, HostInv, StartInv
    <3>  QED
      BY <2>2, <3>1 DEF HostInv, StartInv
  <2>  QED
    BY <1>1, <2>1, <2>3, <2>4 DEF HostInv
<1>  QED
  BY <1>2, <1>3, <1>4, <1>5, <1>6, <1>7 DEF StartConnection

\* Every step of the program keeps the invariant.
LEMMA HostNextInv == HostInv /\ [Next]_vars => HostInv'
<1>  SUFFICES ASSUME HostInv, [Next]_vars PROVE HostInv'
  OBVIOUS
<1>1. CASE AppNext \/ StartConnection
  BY <1>1, ConfigStepInv, EndpointStepInv, StartStepInv DEF AppNext
<1>2. CASE LookupNext /\ UNCHANGED <<connVars, hostVars>>
  <2>1. LookupInv'
    BY <1>2, LookupNextInv DEF HostInv
  <2>  QED
    BY <1>2, <2>1 DEF HostInv, connVars, hostVars, ConnInv, ConnTypeOK, ConnectionServed,
                      AppTypeOK, ConfigInv, StartInv
<1>3. CASE ConnNext /\ UNCHANGED <<lookupVars, hostVars>>
  BY <1>3, ConnStepInv
<1>4. CASE UNCHANGED vars
  <2>1. LookupInv'
    BY <1>4, LookupNextInv DEF HostInv, vars
  <2>  QED
    BY <1>4, <2>1 DEF HostInv, vars, connVars, hostVars, ConnInv, ConnTypeOK, ConnectionServed,
                      AppTypeOK, ConfigInv, StartInv
<1>  QED
  BY <1>1, <1>2, <1>3, <1>4 DEF Next

\* The inductive invariant holds in every state that Host reaches.
LEMMA HostInvHolds == Spec => []HostInv
  BY HostInitInv, HostNextInv, PTL DEF Spec

-----------------------------------------------------------------------------
\* Every variable keeps its type; in particular the channel of the lookup
\* never exceeds its capacity and no reader is counted away (main.go, conn.go).
THEOREM HostTypeOK == Spec => []TypeOK
<1>1. HostInv => TypeOK
  BY DEF HostInv, LookupInv, ConnInv, AppTypeOK, TypeOK
<1>  QED
  BY <1>1, HostInvHolds, PTL

\* As long as no request failed, GetDomain returns the record, whichever half
\* of which assignment it reads (main.go:303).
THEOREM HostLookupKept == Spec => []LookupKept
<1>1. HostInv => LookupKept
  BY DEF HostInv, LookupInv, KeptSoFar, LookupKept
<1>  QED
  BY <1>1, HostInvHolds, PTL

\* The connection in net.conn is open and read, up to the stale assignment and
\* read errors, for every number of sockets (conn.go, uapi.go:76, receive.go:117).
THEOREM HostConnectionServed == Spec => []ConnectionServed
<1>1. HostInv => ConnectionServed
  BY DEF HostInv, ConnInv
<1>  QED
  BY <1>1, HostInvHolds, PTL

\* The process dies of a panic in the three cases of NoCrash only
\* (main.go:330, uapi.go:76, device.go:155).
THEOREM HostNoCrash == Spec => []NoCrash
<1>1. HostInv => NoCrash
  BY DEF HostInv, LookupInv, KeptSoFar, ConfigInv, StartInv, Crashed, NoCrash
<1>  QED
  BY <1>1, HostInvHolds, PTL

-----------------------------------------------------------------------------
(* The goroutines of the lookup.  What is in msgChan, and what GetDomain   *)
(* has received, was sent by as many different goroutines, and there is    *)
(* one goroutine more than the channel has slots.                          *)

\* The goroutines that are past their send.
Past == {s \in Servers : request[s] \in {"assign", "array", "len", "err", "done"}}

Received == IF lookup \in {"idle", "select"} THEN 0 ELSE 1

SentOnce == Len(msgChan) + Received <= Cardinality(Past)

\* The goroutines past their send are finitely many.
LEMMA PastFinite == IsFiniteSet(Past) /\ Cardinality(Past) \in Nat
<1>1. IsFiniteSet(Past)
  BY LookupAssumption, FS_Subset DEF Past
<1>  QED
  BY <1>1, FS_CardinalityType

\* The same after a step.
LEMMA PastFinitePrime == IsFiniteSet(Past') /\ Cardinality(Past') \in Nat
<1>1. Past' \subseteq Servers
  BY DEF Past
<1>2. IsFiniteSet(Past')
  BY <1>1, LookupAssumption, FS_Subset
<1>  QED
  BY <1>2, FS_CardinalityType

\* A goroutine sends once, and GetDomain receives once.
LEMMA SentOnceStep ==
    ASSUME LookupInv, SentOnce, LookupNext
    PROVE  SentOnce'
<1>  DEFINE n == Cardinality(Past)
            m == Cardinality(Past')
<1>1. n \in Nat /\ m \in Nat /\ IsFiniteSet(Past) /\ IsFiniteSet(Past')
  BY PastFinite, PastFinitePrime
<1>2. msgChan \in Seq(Answers) /\ Len(msgChan) \in Nat /\ Len(msgChan) + Received <= n
  BY DEF LookupInv, LookupTypeOK, SentOnce
<1>  HIDE DEF n, m
<1>3. ASSUME Past \subseteq Past' PROVE n <= m
  BY <1>1, <1>3, FS_Subset DEF n, m
<1>4. CASE CallGetDomain
  <2>1. Past = {}
    BY <1>4 DEF CallGetDomain, LookupInv, Past
  <2>2. n = 0
    BY <2>1, FS_EmptySet DEF n
  <2>3. Len(msgChan') = 0 /\ Received' = 0
    BY <1>2, <1>4, <2>2 DEF CallGetDomain, Received
  <2>  QED
    BY <1>1, <2>3 DEF SentOnce, m
<1>5. CASE ReceiveAnswer
  <2>1. Past' = Past
    BY <1>5 DEF ReceiveAnswer, Past
  <2>2. Len(msgChan') = Len(msgChan) - 1 /\ Received = 0 /\ Received' = 1
    BY <1>2, <1>5 DEF ReceiveAnswer, Received
  <2>  QED
    BY <1>2, <2>1, <2>2 DEF SentOnce, n
<1>6. CASE LookupTimesOut
  <2>1. Past' = Servers
    BY <1>6 DEF LookupTimesOut, Past
  <2>2. m >= 1
    BY <1>1, <2>1, LookupAssumption, FS_EmptySet DEF m
  <2>3. Len(msgChan') = 0 /\ Received' = 1
    BY <1>6 DEF LookupTimesOut, Received
  <2>  QED
    BY <1>1, <2>2, <2>3 DEF SentOnce, m
<1>7. CASE CheckLength \/ Decrypt \/ TestErr
  <2>1. Past' = Past /\ msgChan' = msgChan
    BY <1>7 DEF CheckLength, Decrypt, TestErr, Past
  <2>2. Received' = Received
    BY <1>7 DEF CheckLength, Decrypt, TestErr, Received
  <2>  QED
    BY <2>1, <2>2 DEF SentOnce
<1>8. ASSUME NEW s \in Servers,
             RequestFails(s) \/ ReadAnswer(s) \/ AssignArray(s) \/ AssignLen(s) \/ AssignErr(s)
      PROVE  SentOnce'
  <2>1. Past \subseteq Past'
    BY <1>8 DEF RequestFails, ReadAnswer, AssignArray, AssignLen, AssignErr, Past, LookupInv,
                LookupTypeOK
  <2>2. msgChan' = msgChan /\ Received' = Received
    BY <1>8 DEF RequestFails, ReadAnswer, AssignArray, AssignLen, AssignErr, Received
  <2>3. Received \in Nat
    BY DEF Received
  <2>  QED
    BY <1>1, <1>2, <1>3, <2>1, <2>2, <2>3 DEF SentOnce, m
<1>9. ASSUME NEW s \in Servers, SendAnswer(s) PROVE SentOnce'
  <2>1. s \notin Past /\ Past' = Past \cup {s}
    BY <1>9 DEF SendAnswer, Past, LookupInv, LookupTypeOK
  <2>2. m = n + 1
    BY <1>1, <2>1, FS_AddElement DEF m, n
  <2>3. answer[s] \in Answers
    BY <1>9 DEF SendAnswer, LookupInv
  <2>4. Len(msgChan') = Len(msgChan) + 1 /\ Received' = Received
    BY <1>2, <1>9, <2>3 DEF SendAnswer, Received
  <2>5. Received \in Nat
    BY DEF Received
  <2>  QED
    BY <1>1, <1>2, <2>2, <2>4, <2>5 DEF SentOnce, m
<1>  QED
  BY <1>4, <1>5, <1>6, <1>7, <1>8, <1>9 DEF LookupNext

\* Nothing has been sent in a lookup that is forgotten.
LEMMA SentOnceForgotten ==
    ASSUME ForgetLookup
    PROVE  SentOnce'
<1>1. Len(msgChan') = 0 /\ Received' = 0
  BY DEF ForgetLookup, Received
<1>  QED
  BY <1>1, PastFinitePrime DEF SentOnce

\* The app, StartConnection and the connection leave the lookup alone, except that CallInit
\* forgets it.
LEMMA SentOnceNext == HostInv /\ SentOnce /\ [Next]_vars => SentOnce'
<1>  SUFFICES ASSUME HostInv, SentOnce, [Next]_vars PROVE SentOnce'
  OBVIOUS
<1>1. CASE LookupNext
  BY <1>1, SentOnceStep DEF HostInv
<1>2. CASE CallInit
  BY <1>2, SentOnceForgotten DEF CallInit
<1>3. CASE UNCHANGED lookupVars
  BY <1>3 DEF lookupVars, SentOnce, Received, Past
<1>4. LookupNext \/ CallInit \/ UNCHANGED lookupVars
  <2>1. CASE AppNext
    BY <2>1 DEF AppNext, InitRefused, NewDevice, SetPrivateKey, SetPublicKey, SetTheirPublic,
                CallEndpoint, EndpointReturns, SetAllowedIp, SetKeepaliveInterval, Start, Close
  <2>2. CASE StartConnection
    BY <2>2 DEF StartConnection, Spawn, WakeInitiator, SpawnWorkers, SpawnReceiver
  <2>3. CASE UNCHANGED vars
    BY <2>3 DEF vars, lookupVars
  <2>  QED
    BY <2>1, <2>2, <2>3 DEF Next
<1>  QED
  BY <1>1, <1>2, <1>3, <1>4

\* A goroutine that is still at its send leaves at most as many others as the channel has slots,
\* and one of their answers has been received.
LEMMA SentOnceRoom ==
    ASSUME LookupInv, SentOnce
    PROVE  LookupsEnd
<1>  SUFFICES ASSUME NEW s \in Servers, request[s] = "send", lookup # "select"
              PROVE  HasRoom(msgChan)
  BY DEF LookupsEnd
<1>1. lookup # "idle" /\ Received = 1
  BY DEF LookupInv, Received
<1>2. Past \subseteq Servers \ {s}
  BY DEF Past
<1>3. /\ IsFiniteSet(Servers \ {s})
      /\ Cardinality(Servers \ {s}) = Cardinality(Servers) - 1
  BY LookupAssumption, FS_RemoveElement
<1>4. Cardinality(Past) <= Cardinality(Servers \ {s})
  BY <1>2, <1>3, FS_Subset
<1>5. Len(msgChan) \in Nat /\ Cardinality(Past) \in Nat /\ Cardinality(Servers) \in Nat
  BY PastFinite, LookupAssumption, FS_CardinalityType DEF LookupInv, LookupTypeOK
<1>  QED
  BY <1>1, <1>3, <1>4, <1>5, LookupAssumption DEF SentOnce, HasRoom

\* No goroutine of GetDomain is left behind at its send to msgChan: either it has room or
\* GetDomain has yet to receive, for every number of servers up to one more than the capacity
\* (main.go:295, qt.go).
THEOREM HostLookupsEnd == Spec => []LookupsEnd
<1>1. Init => SentOnce
  <2>  SUFFICES ASSUME Init PROVE SentOnce
    OBVIOUS
  <2>1. Len(msgChan) = 0 /\ Received = 0
    BY DEF Init, LookupInit, Received
  <2>  QED
    BY <2>1, PastFinite DEF SentOnce
<1>2. HostInv /\ SentOnce => LookupsEnd
  BY SentOnceRoom DEF HostInv
<1>  QED
  BY <1>1, <1>2, SentOnceNext, HostInvHolds, PTL DEF Spec

=============================================================================
