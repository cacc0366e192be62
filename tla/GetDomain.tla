------------------------------ MODULE GetDomain ------------------------------
(***************************************************************************)
(* GetDomain of main.go: one goroutine per name server asks for a TXT      *)
(* record (SendDNSReq, qt.go) and GetDomain decrypts what comes first.     *)
(* The goroutines assign the variables qtMsg and err of GetDomain itself,  *)
(* without synchronisation, when SendDNSReq returns.                       *)
(*                                                                         *)
(* A slice is written word by word, its array and its length, so that      *)
(* GetDomain can read half of an assignment.  What is told apart of a      *)
(* message is whether it is the record asked for.  That every request ends *)
(* within its read deadline of 3 s is taken for granted: the timeout of    *)
(* 6 s fires only when all have ended.                                     *)
(***************************************************************************)
EXTENDS Integers, Sequences, FiniteSets

CONSTANTS
    Servers,        \* dnsName: four addresses, or one abroad
    MsgChanSize     \* the capacity of msgChan: 3

ASSUME LookupAssumption ==
    /\ IsFiniteSet(Servers)
    /\ Servers # {}
    /\ MsgChanSize \in Nat
    /\ Cardinality(Servers) <= MsgChanSize + 1

VARIABLES
    lookup,     \* where GetDomain is
    result,     \* what it returned or is about to return
    request,    \* where each goroutine is
    answer,     \* the slice SendDNSReq returned to each goroutine
    msgChan,
    qtMsg,      \* the variables that the goroutines share
    err,        \* with GetDomain
    secretOk    \* secret has the length of an AES key

lookupVars == <<lookup, result, request, answer, msgChan, qtMsg, err, secretOk>>

Arrays  == {"nil", "record", "other"}
Lengths == {"zero", "record", "other"}
Slices  == [array : Arrays, len : Lengths]

Nil     == [array |-> "nil", len |-> "zero"]
Record  == [array |-> "record", len |-> "record"]
Answers == {Record, [array |-> "other", len |-> "other"], [array |-> "other", len |-> "zero"]}

LookupTypeOK ==
    /\ lookup \in {"idle", "select", "check", "decrypt", "test", "done", "crashed"}
    /\ result \in {"empty", "record", "other"}
    /\ request \in [Servers -> {"off", "ask", "send", "assign", "array", "len", "err", "done"}]
    /\ answer \in [Servers -> Slices]
    /\ msgChan \in Seq(Answers)
    /\ Len(msgChan) <= MsgChanSize
    /\ qtMsg \in Slices
    /\ err \in BOOLEAN
    /\ secretOk \in BOOLEAN

LookupInit ==
    /\ lookup = "idle"
    /\ result = "empty"
    /\ request = [s \in Servers |-> "off"]
    /\ answer = [s \in Servers |-> Nil]
    /\ msgChan = <<>>
    /\ qtMsg = Nil
    /\ err = FALSE
    /\ secretOk = TRUE

-----------------------------------------------------------------------------
(* SendDNSReq, in the goroutine of server s *)

\* Dial, Write or Read fails, or the message is shorter than the question.
RequestFails(s) ==
    /\ request[s] = "ask"
    /\ request' = [request EXCEPT ![s] = "assign"]
    /\ UNCHANGED <<lookup, result, answer, msgChan, qtMsg, err, secretOk>>

ReadAnswer(s) ==
    /\ request[s] = "ask"
    /\ \E a \in Answers : answer' = [answer EXCEPT ![s] = a]
    /\ request' = [request EXCEPT ![s] = "send"]
    /\ UNCHANGED <<lookup, result, msgChan, qtMsg, err, secretOk>>

\* Faulty: the channel has one slot less; one more.
HasRoomLess(q) == Len(q) < MsgChanSize - 1
HasRoomMore(q) == Len(q) <= MsgChanSize

HasRoom(q) == Len(q) < MsgChanSize

SendAnswer(s) ==
    /\ request[s] = "send"
    /\ HasRoom(msgChan)
    /\ msgChan' = Append(msgChan, answer[s])
    /\ request' = [request EXCEPT ![s] = "assign"]
    /\ UNCHANGED <<lookup, result, answer, qtMsg, err, secretOk>>

\* qtMsg, err = ...: the two words of the slice in either order, then err.
AssignArray(s) ==
    /\ request[s] \in {"assign", "array"}
    /\ qtMsg' = [qtMsg EXCEPT !.array = answer[s].array]
    /\ request' = [request EXCEPT ![s] = IF @ = "assign" THEN "len" ELSE "err"]
    /\ UNCHANGED <<lookup, result, answer, msgChan, err, secretOk>>

AssignLen(s) ==
    /\ request[s] \in {"assign", "len"}
    /\ qtMsg' = [qtMsg EXCEPT !.len = answer[s].len]
    /\ request' = [request EXCEPT ![s] = IF @ = "assign" THEN "array" ELSE "err"]
    /\ UNCHANGED <<lookup, result, answer, msgChan, err, secretOk>>

AssignErr(s) ==
    /\ request[s] = "err"
    /\ err' = (answer[s] = Nil)
    /\ request' = [request EXCEPT ![s] = "done"]
    /\ UNCHANGED <<lookup, result, answer, msgChan, qtMsg, secretOk>>

-----------------------------------------------------------------------------
(* GetDomain *)

CallGetDomain ==
    /\ lookup = "idle"
    /\ secretOk' \in BOOLEAN
    /\ request' = [s \in Servers |-> "ask"]
    /\ lookup' = "select"
    /\ UNCHANGED <<result, answer, msgChan, qtMsg, err>>

\* Faulty: qtMsg := b, a new variable in the case.
ReceiveAnswerShadowed ==
    /\ lookup = "select"
    /\ msgChan # <<>>
    /\ msgChan' = Tail(msgChan)
    /\ lookup' = "check"
    /\ UNCHANGED <<result, request, answer, qtMsg, err, secretOk>>

ReceiveAnswer ==
    /\ lookup = "select"
    /\ msgChan # <<>>
    /\ qtMsg' = Head(msgChan)
    /\ msgChan' = Tail(msgChan)
    /\ lookup' = "check"
    /\ UNCHANGED <<result, request, answer, err, secretOk>>

LookupTimesOut ==
    /\ lookup = "select"
    /\ msgChan = <<>>
    /\ \A s \in Servers : request[s] = "done"
    /\ lookup' = "check"
    /\ UNCHANGED <<result, request, answer, msgChan, qtMsg, err, secretOk>>

CheckLength ==
    /\ lookup = "check"
    /\ lookup' = IF qtMsg.len = "zero" THEN "done" ELSE "decrypt"
    /\ UNCHANGED <<result, request, answer, msgChan, qtMsg, err, secretOk>>

\* aes.NewCipher refuses a secret of the wrong length.  An empty message has
\* no padding to look at and a nil array no bytes: both panic, and so may
\* anything else that is not the record.
DecryptOutcomes(m) ==
    IF ~secretOk THEN {"error"}
    ELSE IF m.len = "zero" \/ m.array = "nil" THEN {"panic"}
    ELSE IF m = Record THEN {"record"}
    ELSE {"error", "panic", "other"}

Decrypt ==
    /\ lookup = "decrypt"
    /\ \E o \in DecryptOutcomes(qtMsg) :
          /\ lookup' = IF o = "panic" THEN "crashed" ELSE "test"
          /\ err' = IF o = "panic" THEN err ELSE o = "error"
          /\ result' = IF o \in {"record", "other"} THEN o ELSE "empty"
    /\ UNCHANGED <<request, answer, msgChan, qtMsg, secretOk>>

\* err is the variable that the goroutines assign as well.
TestErr ==
    /\ lookup = "test"
    /\ result' = IF err THEN "empty" ELSE result
    /\ lookup' = "done"
    /\ UNCHANGED <<request, answer, msgChan, qtMsg, err, secretOk>>

\* The variables of a lookup that is over.
ForgetLookup ==
    /\ lookup' = "idle"
    /\ result' = "empty"
    /\ request' = [s \in Servers |-> "off"]
    /\ answer' = [s \in Servers |-> Nil]
    /\ msgChan' = <<>>
    /\ qtMsg' = Nil
    /\ err' = FALSE
    /\ secretOk' = TRUE

LookupNext ==
    \/ CallGetDomain \/ ReceiveAnswer \/ LookupTimesOut \/ CheckLength \/ Decrypt \/ TestErr
    \/ \E s \in Servers :
          \/ RequestFails(s) \/ ReadAnswer(s) \/ SendAnswer(s)
          \/ AssignArray(s) \/ AssignLen(s) \/ AssignErr(s)

-----------------------------------------------------------------------------
(* Properties *)

\* No request has failed so far, and every answer read is the record.
Undisturbed ==
    /\ secretOk
    /\ \A s \in Servers : request[s] \in {"off", "ask"} \/ answer[s] = Record

\* As long as no request failed (main.go, qt.go), the unsynchronised
\* assignments of the goroutines do no harm: GetDomain returns the record,
\* whichever half of which assignment it reads.  A single failure, on the
\* other hand, may turn a good answer into an empty one or a panic.
LookupKept ==
    Undisturbed => /\ lookup # "crashed"
                   /\ lookup = "done" => result = "record"

\* A goroutine that finds msgChan full is never left behind: GetDomain has
\* not received yet and will, so no goroutine outlives the lookup at its
\* send although GetDomain receives only once.
LookupsEnd ==
    \A s \in Servers :
        request[s] = "send" => HasRoom(msgChan) \/ lookup = "select"

=============================================================================
