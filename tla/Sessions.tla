------------------------------- MODULE Sessions --------------------------------
(* The graphic sessions of the window manager (video/window_manager.cpp): a    *)
(* list of sessions, each with a buffer of the page allocator, the process     *)
(* that owns it and the process that gets its keys, and the session on screen. *)
(* A session is named by its buffer. The calls come from processes and from    *)
(* the keyboard interrupt, with interrupts off.                                *)
EXTENDS Integers, Sequences, FiniteSetsExt

CONSTANTS
    Buffer,        \* the blocks the page allocator has left for buffers
    kMaxSessions,  \* the nodes of the list
    NoBuffer       \* nullptr

ASSUME SessionsAssumption == kMaxSessions \in Nat /\ NoBuffer \notin Buffer

VARIABLES
    sessions,        \* sessions_, from head to tail
    active_session,  \* active_session_
    buffers          \* the blocks allocated from the page allocator

sessionsVars == <<sessions, active_session, buffers>>

SessionsInit ==
    /\ sessions = <<>>
    /\ active_session = NoBuffer
    /\ buffers = {}

IndexOf(b) == CHOOSE k \in DOMAIN sessions : sessions[k].buffer = b

\* The session SwitchToNextSession puts on the screen: the next one in the list,
\* the first after the last.
NextSession ==
    CASE sessions = <<>> -> active_session
      [] sessions # <<>> /\ active_session = NoBuffer -> sessions[1].buffer
      [] OTHER -> sessions[(IndexOf(active_session) % Len(sessions)) + 1].buffer

SwitchToNextSession ==
    /\ active_session' = NextSession
    /\ UNCHANGED <<sessions, buffers>>

\* CreateSession, when a buffer is left and the list has a node for it: the new
\* session goes to the end of the list and on the screen.
CreateSession(pid) ==
    \E b \in Buffer \ buffers :
        /\ buffers' = buffers \cup {b}
        /\ sessions' = Append(sessions, [buffer |-> b, owner_pid |-> pid, focused_pid |-> pid])
        /\ active_session' = b

\* The list without its k-th node.
Unlinked(list, k) == SubSeq(list, 1, k - 1) \o SubSeq(list, k + 1, Len(list))

SessionsOf(pid) == {k \in DOMAIN sessions : sessions[k].owner_pid = pid}

\* (mutant) A session that is on the screen stays there.
ReleaseSessionOnScreen(pid) ==
    IF SessionsOf(pid) = {} THEN UNCHANGED sessionsVars
    ELSE LET k == Min(SessionsOf(pid)) IN
         /\ sessions' = Unlinked(sessions, k)
         /\ buffers' = buffers \ {sessions[k].buffer}
         /\ UNCHANGED active_session

\* ReleaseSession removes the first session of the process; if that is on the
\* screen the next one, if there is another, comes to the front before.
ReleaseSession(pid) ==
    IF SessionsOf(pid) = {} THEN UNCHANGED sessionsVars
    ELSE LET k == Min(SessionsOf(pid))
             b == sessions[k].buffer
             onScreen == active_session = b
         IN /\ active_session' = CASE ~onScreen -> active_session
                                   [] onScreen /\ NextSession = b -> NoBuffer
                                   [] OTHER -> NextSession
            /\ buffers' = buffers \ {b}
            /\ sessions' = Unlinked(sessions, k)

\* SetFocus gives the keys of the first session that the caller owns, or gets
\* the keys of, to another process.
SetFocus(caller, pid) ==
    LET mine == {k \in DOMAIN sessions : caller \in {sessions[k].owner_pid, sessions[k].focused_pid}}
    IN /\ sessions' = IF mine = {} THEN sessions
                      ELSE [sessions EXCEPT ![Min(mine)].focused_pid = pid]
       /\ UNCHANGED <<active_session, buffers>>

--------------------------------------------------------------------------------
\* Some session is on the screen exactly if there is one at all, through
\* CreateSession, Tab and ReleaseSession of the session that is on the screen:
\* active_session_ never points to a node that has been given back.
ScreenShowsASession ==
    IF sessions = <<>> THEN active_session = NoBuffer
    ELSE \E k \in DOMAIN sessions : sessions[k].buffer = active_session

\* The buffers taken from the page allocator are those of the sessions, each in
\* one session, and the one on the screen is among them: none is leaked, and
\* none freed while Blit may still read it.
BuffersInSessions ==
    /\ ScreenShowsASession
    /\ buffers = {sessions[k].buffer : k \in DOMAIN sessions}
    /\ Cardinality(buffers) = Len(sessions)
================================================================================
