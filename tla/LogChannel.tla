----------------------------- MODULE LogChannel -----------------------------
(***************************************************************************)
(* A log client and its server on Linux.  The client collects characters   *)
(* in the buffer of its session and sends the whole buffer, always all     *)
(* BufferLast characters of it, when it prints a line feed, when the       *)
(* buffer is full and on Flush; a NUL after the text says where it ends.   *)
(* The server looks for the NUL and hands the text before it to the user's *)
(* Write.  From log/client/linux/gneiss-log-client.adb and the log part of *)
(* log/server/linux/gneiss-log-dispatcher.adb.                             *)
(*                                                                         *)
(* Abstractions.  A character carries its position in all that was ever    *)
(* printed, and is either an ordinary one or a line feed; a NUL is not     *)
(* printed by the client.  Print works character by character, as its loop *)
(* does: the server runs in between.  One client session variable is used  *)
(* for one session after the other, as Initialize and Finalize allow; the  *)
(* server has one session for each.                                        *)
(***************************************************************************)
EXTENDS Naturals, Sequences

CONSTANTS
    BufferLast,    \* Message_Buffer'Last, 128 in the code
    QueueLimit,    \* packets a socket holds before send fails with EAGAIN
    MaxText,       \* bound: characters printed
    MaxSessions    \* bound: sessions opened

BoundsAssumption ==
    /\ BufferLast \in Nat /\ BufferLast >= 2
    /\ QueueLimit \in Nat \ {0} /\ MaxText \in Nat /\ MaxSessions \in Nat \ {0}

NUL == [pos |-> 0, lf |-> FALSE]
Chars == [pos: Nat \ {0}, lf: BOOLEAN]
Buffers == [1..BufferLast -> Chars \cup {NUL}]
Sessions == 1..MaxSessions

VARIABLES
    initialized,   \* Initialized (Session): the client session has a descriptor
    session,       \* which of the sessions it is, or was last; 0 at first
    buffer,        \* Session.Buffer of the client
    cursor,        \* Session.Cursor of the client
    text,          \* characters printed so far
    sock,          \* n :> packets under way in session n
    written        \* n :> what the server's Write was given in session n

clientVars == <<initialized, session, buffer, cursor, text>>
vars == <<clientVars, sock, written>>

Init ==
    /\ initialized = FALSE
    /\ session = 0
    /\ buffer = [i \in 1..BufferLast |-> NUL]
    /\ cursor = 0
    /\ text = 0
    /\ sock = [n \in Sessions |-> <<>>]
    /\ written = [n \in Sessions |-> <<>>]

\* Initialize and Finalize leave the buffer and the cursor as they are.
Initialize ==
    /\ ~initialized
    /\ session < MaxSessions
    /\ initialized' = TRUE
    /\ session' = session + 1
    /\ UNCHANGED <<buffer, cursor, text, sock, written>>

\* Mutant: Finalize sends what is left in the buffer and keeps the cursor.
Finalize_Sends ==
    /\ initialized
    /\ initialized' = FALSE
    /\ sock' = [sock EXCEPT ![session] = Append(@, [buffer EXCEPT ![cursor + 1] = NUL])]
    /\ UNCHANGED <<session, buffer, cursor, text, written>>

Finalize ==
    /\ initialized
    /\ initialized' = FALSE
    /\ UNCHANGED <<session, buffer, cursor, text, sock, written>>

-----------------------------------------------------------------------------
\* Mutant: no NUL after the text.
Terminated_Not(b, c) == b

\* The buffer as Flush_Buffer sends it, when the cursor is at c.
Terminated(b, c) == IF c < BufferLast THEN [b EXCEPT ![c + 1] = NUL] ELSE b

\* The buffer and the cursor become b and c, then Flush_Buffer.
Flush_Buffer(b, c) ==
    /\ buffer' = Terminated(b, c)
    /\ sock' = IF Len(sock[session]) < QueueLimit
               THEN [sock EXCEPT ![session] = Append(@, Terminated(b, c))]
               ELSE sock
    /\ cursor' = 0

Flush ==
    /\ initialized
    /\ Flush_Buffer(buffer, cursor)
    /\ UNCHANGED <<initialized, session, text, written>>

\* One turn of the loop in Print.  The test before the loop, for a buffer
\* that is full already, never holds: see TypeOK.
Print_Char(lf) ==
    /\ initialized
    /\ text < MaxText
    /\ text' = text + 1
    /\ LET b == [buffer EXCEPT ![cursor + 1] = [pos |-> text + 1, lf |-> lf]]
           c == cursor + 1
       IN  IF lf \/ c >= BufferLast
           THEN Flush_Buffer(b, c)
           ELSE /\ buffer' = b
                /\ cursor' = c
                /\ UNCHANGED sock
    /\ UNCHANGED <<initialized, session, written>>

-----------------------------------------------------------------------------
\* The cursor after the loop in Session_Event: the last position before the
\* first NUL, but 1 at least, where Read_Buffer has put it.
ServerCursor(b) ==
    CHOOSE i \in 1..BufferLast :
        /\ i = 1 \/ \A j \in 1..i : b[j] # NUL
        /\ i = BufferLast \/ b[i + 1] = NUL \/ b[1] = NUL

Session_Event(n) ==
    /\ sock[n] # <<>>
    /\ LET b == Head(sock[n])
           c == ServerCursor(b)
       IN  written' = IF c > 1
                      THEN [written EXCEPT ![n] = @ \o [i \in 1..c |-> b[i]]]
                      ELSE written
    /\ sock' = [sock EXCEPT ![n] = Tail(@)]
    /\ UNCHANGED clientVars

Next ==
    \/ Initialize
    \/ Finalize
    \/ Flush
    \/ \E lf \in BOOLEAN : Print_Char(lf)
    \/ \E n \in Sessions : Session_Event(n)

Spec == Init /\ [][Next]_vars

-----------------------------------------------------------------------------
(* Properties                                                              *)

\* Every variable has the type its declaration in the code gives it; in
\* particular the cursor is below Buffer'Last whenever Print and Flush are
\* entered, the loop invariant of Print.
TypeOK ==
    /\ initialized \in BOOLEAN
    /\ session \in 0..MaxSessions
    /\ buffer \in Buffers
    /\ cursor \in 0..(BufferLast - 1)
    /\ text \in Nat
    /\ sock \in [Sessions -> Seq(Buffers)]
    /\ written \in [Sessions -> Seq(Chars)]

\* The server writes the characters in the order in which they were printed
\* and none of them twice, although every packet carries the whole buffer
\* with what earlier packets left behind the NUL.
WrittenInOrder ==
    \A n \in Sessions : \A i, j \in DOMAIN written[n] :
        i < j => written[n][i].pos < written[n][j].pos

\* A character is written in one session only, and one session's text comes
\* before the next one's.
WrittenOnce ==
    \A m, n \in Sessions :
        m < n => \A i \in DOMAIN written[m], j \in DOMAIN written[n] :
                    written[m][i].pos < written[n][j].pos

\* Once everything is flushed and read, everything that was printed has been
\* written: "Flush all messages to make sure they're printed".
WrittenPositions == UNION {{written[n][i].pos : i \in DOMAIN written[n]} : n \in Sessions}

FlushedIsWritten ==
    (cursor = 0 /\ \A n \in Sessions : sock[n] = <<>>) => WrittenPositions = 1..text
=============================================================================
