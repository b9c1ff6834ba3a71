------------------------------ MODULE ClientSpec -----------------------------
(***************************************************************************)
(* What a client of flexo sees on its connection, for an object request:  *)
(* a response announces the object's bytes from the client's resume       *)
(* offset (Content-Length = size - offset).  Its body comes either whole   *)
(* with the header (a complete cached file) or later, in pieces that each *)
(* add bytes to a response that is not finished yet.  It never goes past  *)
(* the announced length and is finished exactly when it reaches it.  A    *)
(* response without an object body (an error, a redirect, /status) is     *)
(* NoBody.  A new response may replace an unfinished one: the client went *)
(* away and the connection slot was reused.                               *)
(* FlexoServe implements this specification under the mapping in           *)
(* FlexoServe (ClientRefinement).                                          *)
(***************************************************************************)
EXTENDS Naturals

CONSTANTS
    Clients, \* client connections
    Paths,   \* object paths
    Size     \* Size[p]: the size of object p

VARIABLE
    view     \* view[c]: the last response client c received

NoBody == [obj |-> FALSE, path |-> CHOOSE p \in Paths : TRUE, r |-> 0, cl |-> 0,
           got |-> 0, fin |-> TRUE]

\* A response to the request of object p from offset r.
Body(p, r, got) == [obj |-> TRUE, path |-> p, r |-> r, cl |-> Size[p] - r,
                    got |-> got, fin |-> got = Size[p] - r]

Init == view = [c \in Clients |-> NoBody]

\* A response without an object body.
AnswerBare(c) == view' = [view EXCEPT ![c] = NoBody]

\* An object response: its header, and with it the whole body or none of it.
AnswerObject(c) ==
    \E p \in Paths, whole \in BOOLEAN :
        \E r \in 0..Size[p] :
            view' = [view EXCEPT ![c] = Body(p, r, IF whole THEN Size[p] - r ELSE 0)]

\* More bytes of an unfinished object response.
Deliver(c) ==
    /\ view[c].obj
    /\ ~view[c].fin
    /\ \E got \in view[c].got + 1 .. view[c].cl :
          view' = [view EXCEPT ![c] = Body(view[c].path, view[c].r, got)]

Next == \E c \in Clients : AnswerBare(c) \/ AnswerObject(c) \/ Deliver(c)

Spec == Init /\ [][Next]_view
=============================================================================
