------------------------------- MODULE ChatMessage -------------------------------
(***************************************************************************)
(* class ChatMessage of asio_test/chat/chat_message.hpp: a header of four  *)
(* characters that gives the length of the body, written by the sender     *)
(* (main of chat_client.cpp) and read back by the receiver, who must       *)
(* never believe a length its buffer cannot hold, whatever has arrived.    *)
(* Functions only: what is decoded depends on the header alone.            *)
(*                                                                         *)
(* Characters are strings of one character; "x" stands for all that is     *)
(* neither digit, blank nor minus, the end of the string included: atoi    *)
(* stops at each of them.  (A plus, which atoi skips, is left out.)        *)
(***************************************************************************)
EXTENDS Integers, Sequences

CONSTANTS kMaxBodyLength,
          Word,         (* one more than the largest unsigned int          *)
          LineLengths,  (* what updateBodyLength is called with            *)
          Arriving      (* the characters a header off the wire is made of *)

Digits == {"0", "1", "2", "3", "4", "5", "6", "7", "8", "9"}
Chars == Digits \cup {" ", "-", "x"}

kHeaderLength == 4

ASSUME ChatMessageAssumption ==
  /\ kMaxBodyLength \in Nat /\ kMaxBodyLength < 10000
  /\ Word \in Nat /\ Word > 10000 + kMaxBodyLength
  /\ LineLengths \subseteq Nat
  /\ Arriving \subseteq Chars

Headers(chars) == [1 .. kHeaderLength -> chars]

Digit == <<"0", "1", "2", "3", "4", "5", "6", "7", "8", "9">>
Value(char) == CHOOSE d \in 0 .. 9 : Digit[d + 1] = char

(* encodeHeader: sprintf("%4d", n)                                         *)
Place == <<1000, 100, 10, 1>>

encodeHeader(n) ==
  [i \in 1 .. kHeaderLength |->
     IF n < Place[i] /\ i < kHeaderLength THEN " " ELSE Digit[((n \div Place[i]) % 10) + 1]]

(* atoi: blanks, a sign, digits.  How far it has got, and what it has read *)
(* so far; and what the next character does to that.                       *)
Begin == [at |-> "blanks", negative |-> FALSE, number |-> 0]

Scan(state, char) ==
  IF state.at = "blanks" /\ char = " " THEN state
  ELSE IF state.at = "blanks" /\ char = "-" THEN [state EXCEPT !.at = "digits", !.negative = TRUE]
  ELSE IF state.at # "end" /\ char \in Digits
  THEN [state EXCEPT !.at = "digits", !.number = 10 * @ + Value(char)]
  ELSE [state EXCEPT !.at = "end"]

Atoi(header) ==
  LET state == Scan(Scan(Scan(Scan(Begin, header[1]), header[2]), header[3]), header[4])
  IN IF state.negative THEN -state.number ELSE state.number

(* An int stored in an unsigned int.                                       *)
Unsigned(n) == n % Word

updateBodyLength(n) == IF n <= kMaxBodyLength THEN n ELSE kMaxBodyLength

(* Fault: the comparison is made on the signed number.                     *)
decodeHeader_Signed(header) ==
  LET n == Atoi(header)
  IN IF n > kMaxBodyLength THEN [accepted |-> FALSE, body_length_ |-> 0]
     ELSE [accepted |-> TRUE, body_length_ |-> Unsigned(n)]

decodeHeader(header) ==
  LET length == Unsigned(Atoi(header))
  IN IF length > kMaxBodyLength THEN [accepted |-> FALSE, body_length_ |-> 0]
     ELSE [accepted |-> TRUE, body_length_ |-> length]

--------------------------------------------------------------------------------
(* What the receiver and the sender may rely on.                           *)

(* The next read of a body stays inside data_, whatever the header said:   *)
(* negative, too large or not a number at all.                             *)
AnyHeaderFits ==
  \A header \in Headers(Arriving) : decodeHeader(header).body_length_ \in 0 .. kMaxBodyLength

(* A header the sender has made is accepted and gives its length back.     *)
EveryLengthSurvives ==
  \A n \in LineLengths :
    LET length == updateBodyLength(n)
    IN decodeHeader(encodeHeader(length)) = [accepted |-> TRUE, body_length_ |-> length]

================================================================================
