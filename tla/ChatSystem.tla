----------------------------- MODULE ChatSystem -----------------------------
(***************************************************************************)
(* The hub with the clients' sessions at one end and their listeners at    *)
(* the other: what a client asks, how its bytes reach the hub, what the    *)
(* handlers do to the list, and to whose listener the hub's SendInfo goes. *)
(* HubServer is the hub and the streams; a session is a script of requests *)
(* that its sender thread sends in order (OneSlotChannel), a listener is   *)
(* the mailbox at a client's host and port (Mailbox).  A mailbox holds the *)
(* data relayed to it under the tags of data requests: of these, some may  *)
(* be lost on the way.                                                     *)
(***************************************************************************)
EXTENDS HubServer

CONSTANTS
    Scripts,   \* scenarios: what each client asks, in order
    Window,    \* bound on the pieces not yet received when a client asks again
    MaxBusy    \* bound, for each scenario, on the other clients that ask meanwhile

ASSUME ChatAssumption ==
    /\ Window \in Nat /\ MaxBusy \in [Scripts -> Nat]
    /\ \A s \in Scripts : \A c \in Clients :
         s[c] \in Seq(UNION {[op : {op}, arg : Args(op, c)] : op \in Ops})

VARIABLES
    script,      \* the requests each client makes
    mail,        \* the data relayed to each client's listener: sender and number
    invited,     \* the invitations handled: by whom, of whom, and whom the hub took
    logged,      \* the clients a login of which was handled
    known,       \* those whose name it then took whole
    whole,       \* whether the last request's name and second field were taken whole
    misplaced,   \* whether a login was recorded at another client's address
    strayed      \* whether a handler was run on bytes behind a request's own tag

chatVars == <<script, mail, invited, logged, known, whole, misplaced, strayed>>
systemVars == <<hubVars, chatVars>>

\* Clients are told apart by name, and by the address they listen at.
DistinctClients ==
    \A c, d \in Clients :
        /\ NameOf[c] = NameOf[d] => c = d
        /\ HostOf[c] = HostOf[d] /\ PortOf[c] = PortOf[d] => c = d
        /\ PortOf[c] # ZeroPort

\* The listener a message to host and port reaches.
Addressees(host, port) == {c \in Clients : HostOf[c] = host /\ PortOf[c] = port}

NextRequest(c) ==
    /\ Len(requests[c]) < Len(script[c])
    /\ Len(stream[c]) <= Window
    /\ Cardinality({d \in Clients \ {c} : stream[d] # <<>>}) < MaxBusy[script]
    /\ LET r == script[c][Len(requests[c]) + 1] IN Ask(c, r.op, r.arg)
    /\ UNCHANGED chatVars

\* What reading r of a chunk of c adds to the history.  Relayed data that is
\* missing is not delivered: send refuses its length, -1.
Note(c, r) ==
    \/ /\ ~ r.own
       /\ strayed' = (strayed \/ r.op # "other")
       /\ UNCHANGED <<script, mail, invited, logged, known, whole, misplaced>>
    \/ LET n   == Head(stream[c]).n
           arg == requests[c][n].arg
       IN  /\ r.own
           /\ mail' = [g \in Clients |->
                  IF /\ sent'.kind = "data" /\ sent'.body # NoData
                     /\ g \in Addressees(sent'.host, sent'.port)
                    THEN Append(mail[g], [from |-> c, n |-> n]) ELSE mail[g]]
           /\ invited' = invited \cup
                  (IF r.op = "invite" THEN {[by |-> c, guest |-> arg, taken |-> r.second]} ELSE {})
           /\ logged' = logged \cup (IF r.op = "login" THEN {c} ELSE {})
           /\ known' = known \cup (IF r.op = "login" /\ r.name = NameOf[c] THEN {c} ELSE {})
           /\ whole' = (r.name = NameOf[c] /\ r.second = arg)
           /\ misplaced' = \/ misplaced
                           \/ /\ r.op = "login"
                              /\ \/ client_addr # HostOf[c]
                                 \/ Addressees(client_addr, r.second) \ {c} # {}
           /\ UNCHANGED <<script, strayed>>

ChatInit ==
    /\ HubInit
    /\ script \in Scripts
    /\ mail = [c \in Clients |-> <<>>]
    /\ invited = {} /\ logged = {} /\ known = {}
    /\ whole = FALSE /\ misplaced = FALSE /\ strayed = FALSE

Handling ==
    \E i \in Slots :
        /\ Reached(i)
        /\ \E k \in 1 .. Len(stream[fd_A[i]]) :
             \E r \in Readings(fd_A[i], Chunk(i, k)) : Take(i, k, r) /\ Note(fd_A[i], r)

Looping ==
    /\ \/ Select \/ Again \/ Accept \/ AcceptFails \/ AcceptFull \/ SelectFails
       \/ \E i \in Slots : RecvClosed(i)
    /\ UNCHANGED chatVars

\* A client with nothing to ask stays away.
Linking ==
    /\ \E c \in Clients : \/ Connect(c) /\ script[c] # <<>>
                          \/ c \in Leavers /\ (Close(c) \/ Reset(c))
    /\ UNCHANGED chatVars

ChatNext == Handling \/ Looping \/ Linking \/ \E c \in Clients : NextRequest(c)

ChatSpec == ChatInit /\ [][ChatNext]_systemVars

(***************************************************************************)
(* Properties.                                                             *)
(***************************************************************************)

\* Every login was recorded at its client's address, and no handler was run on
\* bytes that only look like a request.
Clean == ~ misplaced /\ ~ strayed

\* c invited d, or somebody whose name begins with the name of d: recv may cut
\* the guest's name, and the hub then takes the user of the shorter name.
Asked(c, d) ==
    \E v \in invited : v.by = c /\ NameOf[d] \in {v.guest} \cup NameCuts[v.guest]

\* In a clean history data is relayed only to the sender itself (when it has
\* logged in twice), or between two clients one of which invited the other or
\* somebody whose name the other's begins, whatever third parties invited,
\* repeated and truncated logins, and storage growth did in between.
DataStaysBetweenInvited ==
    Clean =>
        \A g \in Clients : \A k \in DOMAIN mail[g] :
            LET c == mail[g][k].from IN c = g \/ Asked(c, g) \/ Asked(g, c)

\* A client's data reaches each listener in the order of its requests, each
\* relayed at most once, however its stream was cut.
DataInOrder ==
    \A g \in Clients : \A j, k \in DOMAIN mail[g] :
        j < k /\ mail[g][j].from = mail[g][k].from => mail[g][j].n < mail[g][k].n

\* The requests that can bring the hub down, by their history: a list request
\* from an address whose client never logged in; an invitation of oneself, of or
\* by a client whose login never arrived with its name whole, or cut on the way;
\* and an exit cut on the way, of a client that was in no invitation the hub took,
\* or once a name is listed twice.
Fatal(c, r) ==
    CASE r.op = "list"   -> \A k \in logged : HostOf[k] # client_addr
      [] r.op = "invite" -> \/ c \notin known \/ r.arg = NameOf[c]
                            \/ \A k \in known : NameOf[k] # r.arg
                            \/ ~ whole
      [] r.op = "exit"   -> \/ \A v \in invited : NameOf[c] \notin {NameOf[v.by], v.taken}
                            \/ ~ DistinctNames
                            \/ ~ whole
      [] OTHER           -> FALSE

HubFallsOnlyToFatal ==
    ~ running /\ Clean =>
        Fatal(served, requests[served][Last(handled[served])])
=============================================================================
