---------------------------- MODULE ServerControl ----------------------------
(***************************************************************************)
(* The registration of a server and what an observation of it finds:       *)
(* packages/server-control/service.ts.                                     *)
(*                                                                         *)
(* The commands check the revision their client expects and change the     *)
(* registration in one transaction.  servers.resolve, which run-control    *)
(* calls for a placement, is three reads and an await; the record it holds *)
(* across them is passed to the operators below.                           *)
(***************************************************************************)
EXTENDS Naturals

CONSTANTS
    Connections,      \* connectionRefs with an observer
    Hosts,            \* what may be found behind one
    None,
    MaxRegistration   \* bound: revisions of the registration

ASSUME ServerAssumption ==
    /\ None \notin Connections \cup Hosts /\ MaxRegistration \in Nat \ {0}

VARIABLES
    server,     \* the stored registration
    past,       \* by revision, the connection it named, None once archived
    host        \* by connection, the host behind it now, None if offline

serverVars == <<server, past, host>>

Revisions == 1 .. MaxRegistration

\* The nodeRef of a host, kept with the connection it was found over.
NodeRefs == Connections \X Hosts

ServerTypeOK ==
    /\ server \in [revision : Revisions, conn : Connections, archived : BOOLEAN]
    /\ past \in [Revisions -> Connections \cup {None}]
    /\ host \in [Connections -> Hosts \cup {None}]

ServerInit ==
    /\ \E c \in Connections :
        /\ server = [revision |-> 1, conn |-> c, archived |-> FALSE]
        /\ past = [r \in Revisions |-> IF r = 1 THEN c ELSE None]
    /\ host \in [Connections -> Hosts \cup {None}]

-----------------------------------------------------------------------------
(* Commands, from a client that read the current revision *)

Writable == ~server.archived /\ server.revision < MaxRegistration

UpdateServer(c) ==
    /\ Writable
    /\ server' = [server EXCEPT !.revision = @ + 1, !.conn = c]
    /\ past' = [past EXCEPT ![server.revision + 1] = c]
    /\ UNCHANGED host

ArchiveServer ==
    /\ Writable
    /\ server' = [server EXCEPT !.revision = @ + 1, !.archived = TRUE]
    /\ UNCHANGED <<past, host>>

\* A host goes, comes back or is replaced by another (external).
HostChanges(c, h) ==
    /\ h # host[c]
    /\ host' = [host EXCEPT ![c] = h]
    /\ UNCHANGED <<server, past>>

ServerNext ==
    \/ \E c \in Connections : UpdateServer(c)
    \/ ArchiveServer
    \/ \E c \in Connections, h \in Hosts \cup {None} : HostChanges(c, h)

-----------------------------------------------------------------------------
(* servers.resolve *)

\* servers.status asks the connection of the registration it reads itself; an
\* archived one is not asked.
Asked == IF server.archived THEN None ELSE server.conn

\* An offline host is taken at its word.
FaultyObserved(c) == IF c = None THEN None ELSE <<c, host[c]>>

\* What an observation over connection c finds: only a fresh one with a nodeRef
\* counts as ONLINE.
Observed(c) ==
    IF c = None \/ host[c] = None THEN None ELSE <<c, host[c]>>

\* The third read accepts whatever is registered now.
FaultyStands(revision) == ~server.archived

\* The third read: the registration is the one first read.
Stands(revision) == server.revision = revision /\ ~server.archived

=============================================================================
