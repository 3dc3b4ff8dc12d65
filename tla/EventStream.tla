----------------------------- MODULE EventStream -----------------------------
(***************************************************************************)
(* What every next_...() call of the FFI promises, in the words of its     *)
(* comments: block for the next event; "" once stopped, or never started,  *)
(* or when the source is over.  Events come in order, each of them once.   *)
(* It is promised of a start that no call overlaps.                        *)
(***************************************************************************)
EXTENDS Naturals, Sequences

CONSTANTS
  Event,   \* what a source may have to say
  Nothing  \* the empty string, which is no event

VARIABLES
  state,    \* "off" (never started), "on", "stopped", "over" (the source ended)
            \* or "crossed" (a start overlapped a call)
  pending,  \* the events that are still to be handed out
  handed,   \* what the calls have returned so far
  calling,  \* a call is under way
  opening   \* a start is, and its stream cannot be read yet

told == <<state, pending, handed>>
busy == <<calling, opening>>
vars == <<told, busy>>

Init ==
  /\ state = "off"
  /\ pending = <<>>
  /\ handed = <<>>
  /\ ~calling /\ ~opening

-----------------------------------------------------------------------------
(* Starts and calls, and where they overlap *)

\* A start begins with no call under way, or a call with no start; or one ends.
ComesOrGoes ==
  /\ \/ ~calling /\ opening' /\ UNCHANGED calling
     \/ ~opening /\ calling' /\ UNCHANGED opening
     \/ ~opening' /\ UNCHANGED calling
     \/ ~calling' /\ UNCHANGED opening
  /\ UNCHANGED told

\* The one begins while the other is under way; a call may return "" at once.
Cross ==
  /\ calling \/ opening
  /\ opening'
  /\ \/ calling' /\ UNCHANGED handed
     \/ handed' = Append(handed, Nothing) /\ UNCHANGED calling
  /\ state' = "crossed"
  /\ pending' = <<>>

\* From then on anything may come, but no event twice.
Stray(e) ==
  /\ state = "crossed"
  /\ \A i \in 1 .. Len(handed) : handed[i] # e
  /\ handed' = Append(handed, e)
  /\ UNCHANGED <<state, pending, busy>>

\* A new stream; what the last one left behind is dropped.
Open ==
  /\ state' = "on"
  /\ pending' = <<>>
  /\ UNCHANGED <<handed, busy>>

-----------------------------------------------------------------------------
(* The stream *)

\* A source that has been told to stop may still have something to say.
Put(e) ==
  /\ state \in {"on", "stopped"}
  /\ pending' = Append(pending, e)
  /\ UNCHANGED <<state, handed, busy>>

Hand ==
  /\ calling
  /\ pending # <<>>
  /\ handed' = Append(handed, Head(pending))
  /\ pending' = Tail(pending)
  /\ UNCHANGED <<state, busy>>

\* A stream that is on never says so, and one whose source is over says so only
\* when everything has been handed out.
Empty ==
  /\ state # "on"
  /\ state = "over" => pending = <<>>
  /\ handed' = Append(handed, Nothing)
  /\ UNCHANGED <<state, pending, busy>>

Stop ==
  /\ state \in {"on", "stopped", "over"}
  /\ state' = "stopped"
  /\ UNCHANGED <<pending, handed, busy>>

Ends ==
  /\ state = "on"
  /\ state' = "over"
  /\ UNCHANGED <<pending, handed, busy>>

Next ==
  \/ ComesOrGoes \/ Cross \/ Open
  \/ \E e \in Event : Put(e) \/ Stray(e)
  \/ Hand \/ Empty \/ Stop \/ Ends

\* An app that keeps calling gets what is there.
Spec == Init /\ [][Next]_vars /\ WF_vars(state = "on" /\ Hand)
=============================================================================
