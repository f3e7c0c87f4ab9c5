-------------------------- MODULE HttpDropServer ---------------------------
(***************************************************************************)
(* FLServerHttp: a remote page posts a Faust program, the thread of the     *)
(* server hands it to the GUI thread, which compiles it in a window and     *)
(* hands the answer back through fUrl, fError, fCompiled and fPosted, while *)
(* the server's thread polls fPosted and can do nothing else.               *)
(*                                                                         *)
(* libmicrohttpd (external) runs one thread, in rounds: a round handles     *)
(* every connection that is ready, and only between two rounds does the     *)
(* thread see that MHD_stop_daemon, which joins it, was called.             *)
(***************************************************************************)
EXTENDS Naturals, FiniteSets, Sequences

CONSTANTS
  Clients,       \* connections, each of which posts one program
  Windows,       \* windows with an HTTP interface, and so a port
  Nobody,          \* no client; port 0: the page belongs to no window
  MaxClients,    \* fMaxCients
  MayChangePort, \* may the user change the port of the server
  MayQuit        \* may the user quit

ASSUME HttpDropServerAssumption ==
  /\ IsFiniteSet(Clients) /\ Nobody \notin Clients \cup Windows
  /\ MaxClients \in Nat \ {0}
  /\ {MayChangePort, MayQuit} \subseteq BOOLEAN

VARIABLES
  conn,              \* where the connection of a client is
  port,              \* the window that the page of the client belongs to
  answer,            \* the answer the client got
  fUploadingClients, \* the connections that hold a post processor
  listening,         \* is the server's thread running
  stopping,          \* was MHD_stop_daemon called
  round,             \* the connections left in the current round
  serving,           \* the connection whose handlePost waits
  events,            \* the compile signals queued to the GUI thread
  fPosted,           \* is the answer there
  fAnswer,           \* fCompiled with fUrl or fError, and whose answer it is
  gui,               \* what the GUI thread does
  request,           \* the client whose program it compiles
  windows            \* the windows open

server == <<conn, port, answer, fUploadingClients, listening, round, serving>>
handover == <<events, fPosted, fAnswer>>
app == <<stopping, gui, request, windows>>
dropVars == <<server, handover, app>>

NoAnswer == [of |-> Nobody, ok |-> FALSE]

DropInit ==
  /\ conn = [c \in Clients |-> "away"]
  /\ port \in [Clients -> Windows \cup {Nobody}]
  /\ answer = [c \in Clients |-> NoAnswer]
  /\ fUploadingClients = 0
  /\ listening = TRUE /\ stopping = FALSE
  /\ round = {} /\ serving = Nobody
  /\ events = <<>> /\ fPosted = FALSE /\ fAnswer = NoAnswer
  /\ gui = "idle" /\ request = Nobody
  /\ windows \in SUBSET Windows

-----------------------------------------------------------------------------
(* Variants of the definitions below, each with a bug. *)

AnswerKeepsPosted ==
  /\ serving # Nobody /\ fPosted
  /\ conn' = [conn EXCEPT ![serving] = "answered"]
  /\ answer' = [answer EXCEPT ![serving] = fAnswer]
  /\ serving' = Nobody
  /\ UNCHANGED <<port, fUploadingClients, listening, round, handover, app>>

AcceptAll(c) ==
  /\ listening /\ round = {} /\ serving = Nobody /\ conn[c] = "away"
  /\ conn' = [conn EXCEPT ![c] = "uploading"]
  /\ fUploadingClients' = fUploadingClients + 1
  /\ UNCHANGED <<port, answer, listening, round, serving, handover, app>>

CompileIgnored ==
  /\ gui = "idle" /\ events # <<>>
  /\ events' = Tail(events)
  /\ request' = Head(events)
  /\ gui' = IF port[Head(events)] \in windows \cup {Nobody} THEN "compiling" ELSE "idle"
  /\ UNCHANGED <<server, fPosted, fAnswer, stopping, windows>>

-----------------------------------------------------------------------------
(* The thread of the server. *)

\* answerToConnection, first call: beyond MaxClients the client gets the busy page.
Accept(c) ==
  /\ listening /\ round = {} /\ serving = Nobody /\ conn[c] = "away"
  /\ IF fUploadingClients >= MaxClients
     THEN /\ conn' = [conn EXCEPT ![c] = "gone"]
          /\ UNCHANGED fUploadingClients
     ELSE /\ conn' = [conn EXCEPT ![c] = "uploading"]
          /\ fUploadingClients' = fUploadingClients + 1
  /\ UNCHANGED <<port, answer, listening, round, serving, handover, app>>

\* answerToConnection, with data (iteratePost), until there is none left.
Upload(c) ==
  /\ listening /\ round = {} /\ serving = Nobody /\ conn[c] = "uploading"
  /\ conn' = [conn EXCEPT ![c] = "ready"]
  /\ UNCHANGED <<port, answer, fUploadingClients, listening, round, serving, handover, app>>

\* requestCompleted: the client has its answer, or left before it asked for one.
RequestCompleted(c) ==
  /\ listening /\ round = {} /\ serving = Nobody /\ conn[c] \in {"uploading", "answered"}
  /\ conn' = [conn EXCEPT ![c] = "gone"]
  /\ fUploadingClients' = fUploadingClients - 1
  /\ UNCHANGED <<port, answer, listening, round, serving, handover, app>>

BeginRound ==
  /\ listening /\ ~stopping /\ round = {} /\ serving = Nobody
  /\ round' = {c \in Clients : conn[c] = "ready"} /\ round' # {}
  /\ UNCHANGED <<conn, port, answer, fUploadingClients, listening, serving, handover, app>>

\* handlePost, up to the wait: the signal carries a pointer to the data of the connection.
HandlePost(c) ==
  /\ serving = Nobody /\ c \in round
  /\ round' = round \ {c}
  /\ serving' = c
  /\ conn' = [conn EXCEPT ![c] = "waiting"]
  /\ events' = Append(events, c)
  /\ UNCHANGED <<port, answer, fUploadingClients, listening, fPosted, fAnswer, app>>

\* handlePost, after the wait.
Answer ==
  /\ serving # Nobody /\ fPosted
  /\ fPosted' = FALSE
  /\ conn' = [conn EXCEPT ![serving] = "answered"]
  /\ answer' = [answer EXCEPT ![serving] = fAnswer]
  /\ serving' = Nobody
  /\ UNCHANGED <<port, fUploadingClients, listening, round, events, fAnswer, app>>

\* The thread ends: MHD_stop_daemon completes the connections that are left.
EndDaemon ==
  /\ listening /\ stopping /\ round = {} /\ serving = Nobody
  /\ listening' = FALSE
  /\ conn' = [c \in Clients |-> IF conn[c] = "away" THEN "away" ELSE "gone"]
  /\ fUploadingClients' = 0
  /\ UNCHANGED <<port, answer, round, serving, handover, app>>

-----------------------------------------------------------------------------
(* The GUI thread. *)

\* FLApp::compile_HttpData begins.
CompileHttpData ==
  /\ gui = "idle" /\ events # <<>>
  /\ events' = Tail(events)
  /\ request' = Head(events)
  /\ gui' = "compiling"
  /\ UNCHANGED <<server, fPosted, fAnswer, stopping, windows>>

\* compileSuccessfull or compileFailed, up to fPosted.  The program cannot be compiled in a
\* window that was closed; without a port, it makes a new window.
WriteAnswer(c, ok) ==
  /\ gui = "compiling" /\ c = request
  /\ ok => port[c] \in windows \cup {Nobody}
  /\ fAnswer' = [of |-> c, ok |-> ok]
  /\ \/ ok /\ port[c] = Nobody /\ \E w \in Windows \ windows : windows' = windows \cup {w}
     \/ (ok => port[c] # Nobody) /\ UNCHANGED windows
  /\ gui' = "written"
  /\ UNCHANGED <<server, events, fPosted, stopping, request>>

PostAnswer ==
  /\ gui = "written"
  /\ fPosted' = TRUE
  /\ gui' = "idle" /\ request' = Nobody
  /\ UNCHANGED <<server, events, fAnswer, stopping, windows>>

CloseWindow(w) ==
  /\ gui = "idle" /\ w \in windows
  /\ windows' = windows \ {w}
  /\ UNCHANGED <<server, handover, stopping, gui, request>>

\* changeDropPort: stop_Server, then launch_Server, which tries other ports in turn.
ChangeDropPort ==
  /\ MayChangePort /\ gui = "idle" /\ listening
  /\ stopping' = TRUE
  /\ gui' = "changing"
  /\ UNCHANGED <<server, handover, request, windows>>

LaunchServer ==
  /\ gui = "changing" /\ ~listening
  /\ listening' \in BOOLEAN
  /\ stopping' = FALSE
  /\ gui' = "idle"
  /\ UNCHANGED <<conn, port, answer, fUploadingClients, round, serving, handover, request, windows>>

\* ~FLServerHttp: the request that waits is released, then the thread is joined.
Quit ==
  /\ MayQuit /\ gui = "idle"
  /\ fAnswer' = [of |-> Nobody, ok |-> FALSE]
  /\ gui' = "quitting"
  /\ UNCHANGED <<server, events, fPosted, stopping, request, windows>>

ReleaseAndStop ==
  /\ gui = "quitting"
  /\ fPosted' = TRUE
  /\ stopping' = TRUE
  /\ gui' = "joining"
  /\ UNCHANGED <<server, events, fAnswer, request, windows>>

Over ==
  /\ gui = "joining" /\ ~listening
  /\ gui' = "over"
  /\ UNCHANGED <<server, handover, stopping, request, windows>>

Server ==
  \/ \E c \in Clients : HandlePost(c)
  \/ BeginRound \/ Answer \/ EndDaemon

Gui ==
  \/ CompileHttpData \/ PostAnswer \/ LaunchServer \/ ReleaseAndStop \/ Over
  \/ \E c \in Clients, ok \in BOOLEAN : WriteAnswer(c, ok)

Others ==
  \/ \E c \in Clients : Accept(c) \/ Upload(c) \/ RequestCompleted(c)
  \/ \E w \in Windows : CloseWindow(w)
  \/ ChangeDropPort \/ Quit

DropNext == Server \/ Gui \/ Others

\* Both threads go on as long as they can, and a new connection does not keep the server
\* from a round that is due.
Fairness == SF_dropVars(Server) /\ WF_dropVars(Gui)

DropSpec == DropInit /\ [][DropNext]_dropVars /\ Fairness

-----------------------------------------------------------------------------
(* Properties. *)

Ended == gui \in {"quitting", "joining", "over"}

\* Every variable holds a value of its type.
DropTypeOK ==
  /\ conn \in [Clients -> {"away", "uploading", "ready", "waiting", "answered", "gone"}]
  /\ port \in [Clients -> Windows \cup {Nobody}]
  /\ answer \in [Clients -> [of : Clients \cup {Nobody}, ok : BOOLEAN]]
  /\ fUploadingClients \in Nat
  /\ listening \in BOOLEAN /\ stopping \in BOOLEAN
  /\ round \subseteq Clients /\ serving \in Clients \cup {Nobody}
  /\ events \in Seq(Clients)
  /\ fPosted \in BOOLEAN /\ fAnswer \in [of : Clients \cup {Nobody}, ok : BOOLEAN]
  /\ gui \in {"idle", "compiling", "written", "changing", "quitting", "joining", "over"}
  /\ request \in Clients \cup {Nobody}
  /\ windows \subseteq Windows

\* Whose program the four variables of the handover are about, at every step.
HandoverInv ==
  /\ \A c \in Clients : conn[c] = "waiting" <=> c = serving
  /\ \A c \in round : conn[c] = "ready"
  /\ serving # Nobody \/ round # {} => listening
  /\ events # <<>> /\ ~Ended => events = <<serving>> /\ serving # Nobody /\ request = Nobody /\ ~fPosted
  /\ gui \in {"compiling", "written"} => request = serving /\ serving # Nobody /\ events = <<>> /\ ~fPosted
  /\ gui \notin {"compiling", "written"} => request = Nobody
  /\ gui = "written" => fAnswer.of = serving
  /\ fPosted /\ ~Ended => serving # Nobody /\ fAnswer.of = serving
  /\ Ended => fAnswer.of = Nobody
  /\ serving # Nobody /\ ~Ended => fPosted \/ events # <<>> \/ gui \in {"compiling", "written"}

\* A client never gets the answer to the program of another one: its own answer, or none,
\* or the one that FaustLive is quitting.
AnswersMatch ==
  \A c \in Clients : answer[c].of \in {c, Nobody}

\* compile_HttpData reads the program of the client through a pointer into its connection:
\* the connection is still there, and waits, as long as the signal is queued or handled.
DataAlive ==
  ~Ended =>
    /\ \A i \in DOMAIN events : conn[events[i]] = "waiting"
    /\ gui = "compiling" => conn[request] = "waiting"

Uploading == {c \in Clients : conn[c] \notin {"away", "gone"}}

\* fUploadingClients counts the connections that hold a post processor, and the limit holds.
UploadsCounted ==
  /\ fUploadingClients = Cardinality(Uploading)
  /\ fUploadingClients <= MaxClients

\* "receiving Faust code --> compilation --> return url to HTML interface" (FLServerHttp.h:16):
\* a program that was received is answered, unless the server is being stopped.
PostsAreAnswered ==
  \A c \in Clients : conn[c] = "ready" ~> conn[c] \in {"answered", "gone"} \/ stopping
=============================================================================
