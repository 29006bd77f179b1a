------------------------------ MODULE Answers ------------------------------
(***************************************************************************)
(* Bytes in both directions.  On one side the requests of Framing; on the  *)
(* other what the hub sends to a client's listener: the DispatchMsg of the *)
(* client's CreateServer splits it (CreateServer.cpp 203-255) and gives    *)
(* the content, with the number of bytes received, to the SockProc of the  *)
(* test client (client.cpp 6-35), which splits the content once more.  The *)
(* two sides are different processes; a behaviour shows one of them.       *)
(***************************************************************************)
EXTENDS Framing

CONSTANT Relayed   \* the texts the hub relays to the client

VARIABLES
    side,      \* the process shown: "hub" or "client"
    answers,   \* the answers the client has received, in order
    kept,      \* its listener's content buffer
    cases      \* the cases of SockProc each answer reached

answerVars == <<answers, kept, cases>>
bytesVars == <<framingVars, side, answerVars>>

\* The codes of SockMacros.h that SockProc knows.
Results == [login |-> 10011, users |-> 10013, data |-> 10015]

\* The list of users GetAllUsers writes, with one user that is not playing.
UserList == <<"1", "0", "0", "1", "3", Colon>> \o Self \o <<Colon, "0", ",">>

\* SendInfo of "OK", of the list and of the rest of an ASK_DATA.
AnswerBytes(a) ==
    (CASE a.op = "ok"    -> <<"O", "K">>
       [] a.op = "users" -> UserList
       [] a.op = "data"  -> a.arg) \o <<NUL>>

AnswerKinds ==
    {[op |-> "ok", arg |-> <<>>], [op |-> "users", arg |-> <<>>]}
        \cup {[op |-> "data", arg |-> t] : t \in Relayed}

\* A relayed text that begins with the tag of a request would be dispatched to
\* a handler of the hub in the client's process: such texts are left out.
ASSUME AnswersAssumption ==
    /\ {"O", "K", ","} \subseteq Char /\ Relayed \subseteq Seq(Char)
    /\ \A t \in Relayed : Splits(t) # {} => Atoi(t) \notin RequestCodes
    /\ \A a \in AnswerKinds : Len(AnswerBytes(a)) <= BufferLen

\* SockProc: its own content buffer is new in every call.
SockProc(text, len) ==
    ProcessMsg(SubSeq(text, 1, len), [i \in 1 .. BufferLen |-> "x"])

\* An answer is received whole; its tag is no request's.
Receive(a) ==
    /\ Len(answers) < MaxRequests
    /\ LET msg    == AnswerBytes(a)
           parsed == ProcessMsg(msg, kept)
           second == SockProc(parsed.content, Len(msg))
       IN  /\ kept' = parsed.content
           /\ cases' = Append(cases, {r \in DOMAIN Results : Results[r] = second.id})
    /\ answers' = Append(answers, a)
    /\ UNCHANGED <<framingVars, side>>

BytesInit ==
    /\ FramingInit
    /\ side \in {"hub", "client"}
    /\ answers = <<>> /\ cases = <<>>
    /\ kept = [i \in 1 .. BufferLen |-> "x"]

BytesNext ==
    \/ side = "hub" /\ FramingNext /\ UNCHANGED <<side, answerVars>>
    \/ side = "client" /\ \E a \in AnswerKinds : Receive(a)

BytesSpec == BytesInit /\ [][BytesNext]_bytesVars

\* The answers of the hub have no "|||" and reach no case of SockProc,
\* whatever earlier relayed texts left in the buffer behind their end, which
\* SockProc also looks at: it is given the length received and not the length
\* of the content.  (So the client never prints the list it asked for.)
UntaggedReachesNoCase ==
    \A k \in DOMAIN answers : Splits(AnswerBytes(answers[k])) = {} => cases[k] = {}
=============================================================================
