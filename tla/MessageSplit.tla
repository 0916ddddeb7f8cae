---------------------------- MODULE MessageSplit ----------------------------
(***************************************************************************)
(* TelegramNotifier._split_message (monitor/notifications/telegram.py): a   *)
(* text too long for one message is cut at line breaks, or in the middle of *)
(* a line when there is no break in the second half of the window.  One     *)
(* step is one pass of the while loop.  A character is a line break or not. *)
(***************************************************************************)
EXTENDS Integers, Sequences, FiniteSetsExt

CONSTANTS
    MaxLen,         \* max_len, the limit of Telegram
    MaxText         \* bound on the length of a text

Char == {"x", "nl"}

(* The formatter's messages start with a headline. *)
Texts == {s \in UNION {[1 .. n -> Char] : n \in 1 .. MaxText} : s[1] = "x"}

VARIABLES
    text, remaining, chunks,
    starts,         \* history: where in text each chunk begins
    done            \* the function has returned

vars == <<text, remaining, chunks, starts, done>>

Init ==
    /\ text \in Texts
    /\ remaining = text
    /\ chunks = << >>
    /\ starts = << >>
    /\ done = FALSE

(* rfind("\n", 0, max_len), counted from 0 like Python's; -1 when none. *)
LastBreak(s) ==
    LET breaks == {i \in 0 .. MaxLen - 1 : i < Len(s) /\ s[i + 1] = "nl"}
    IN  IF breaks = {} THEN -1 ELSE Max(breaks)

(* Mutant: a window without a line break is cut at its start. *)
SplitPosAtBreak(s) == IF LastBreak(s) = -1 THEN 0 ELSE LastBreak(s)

SplitPos(s) ==
    IF LastBreak(s) = -1 \/ LastBreak(s) < MaxLen \div 2
       THEN MaxLen ELSE LastBreak(s)

(* Mutants: the line breaks at the cut stay, or the cut eats a character. *)
RestKept(s, n) == SubSeq(s, n + 1, Len(s))

RestSkips(s, n) == SubSeq(s, n + 2, Len(s))

(* s[n:].lstrip("\n"): the whole run of line breaks at the cut goes. *)
Rest(s, n) ==
    LET kept == {i \in n + 1 .. Len(s) : s[i] # "nl"}
    IN  IF kept = {} THEN << >> ELSE SubSeq(s, Min(kept), Len(s))

(* Where what remains begins in text. *)
Position == Len(text) - Len(remaining) + 1

Emit(chunk) ==
    /\ chunks' = Append(chunks, chunk)
    /\ starts' = Append(starts, Position)

LastChunk ==
    /\ ~done
    /\ Len(remaining) <= MaxLen
    /\ IF remaining = << >> THEN UNCHANGED <<chunks, starts>> ELSE Emit(remaining)
    /\ done' = TRUE
    /\ UNCHANGED <<text, remaining>>

Cut ==
    /\ ~done
    /\ Len(remaining) > MaxLen
    /\ Emit(SubSeq(remaining, 1, SplitPos(remaining)))
    /\ remaining' = Rest(remaining, SplitPos(remaining))
    /\ UNCHANGED <<text, done>>

Next == LastChunk \/ Cut

Spec == Init /\ [][Next]_vars

-----------------------------------------------------------------------------
(* No chunk is over the limit, none is empty, and none is blank: Telegram   *)
(* refuses each of these, and the alert with it (_split_message).            *)
ChunksAccepted ==
    \A i \in 1 .. Len(chunks) :
        /\ Len(chunks[i]) <= MaxLen
        /\ \E j \in 1 .. Len(chunks[i]) : chunks[i][j] # "nl"

EndOf(i) == starts[i] + Len(chunks[i]) - 1

(* The chunks are pieces of the text, one behind the other, and what is in  *)
(* none of them nor remains is line breaks: no character is lost, doubled   *)
(* or moved (_split_message).                                               *)
NothingLost ==
    /\ \A i \in 1 .. Len(chunks) :
          /\ chunks[i] = SubSeq(text, starts[i], EndOf(i))
          /\ i > 1 => starts[i] > EndOf(i - 1)
    /\ \A p \in 1 .. (IF done THEN Len(text) ELSE Position - 1) :
          text[p] # "nl" => \E i \in 1 .. Len(chunks) : p \in starts[i] .. EndOf(i)
    /\ ~done => remaining = SubSeq(text, Position, Len(text))

(* What is sent is the text, in pieces Telegram takes (_split_message). *)
SplitSound == ChunksAccepted /\ NothingLost

(* Every pass of the loop makes the rest shorter or is the last, so the     *)
(* loop ends (_split_message).                                              *)
Progress == [][done' \/ Len(remaining') < Len(remaining)]_vars
=============================================================================
