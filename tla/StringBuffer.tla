---------------------------- MODULE StringBuffer ----------------------------
(***************************************************************************)
(* The string buffers of inc/string_buffer.h: a char array and the length  *)
(* that later pieces are appended at.  A string is a sequence of           *)
(* characters; text is what is in the array up to the terminating null.    *)
(* A string_multibuffer keeps several strings one behind the other, each   *)
(* with its null, and is modelled place by place.                          *)
(***************************************************************************)
EXTENDS Naturals, Sequences, SequencesExt

Shorter(m, n) == IF m < n THEN m ELSE n

\* `snprintf(&text[at], room, "%.*s", Len(str), str)`: room counts the null.
Snprintf(text, at, room, str) ==
  IF room = 0 THEN text
  ELSE SubSeq(text, 1, at) \o SubSeq(str, 1, Shorter(room - 1, Len(str)))

Empty == [text |-> <<>>, len |-> 0]

\* string_buffer_append on string_buffer(sb, size), whose array has size + 1
\* places.
string_buffer_append(sb, size, str) ==
  [text |-> Snprintf(sb.text, sb.len, size - sb.len, str),
   len  |-> Shorter(sb.len + Len(str), size)]

\* The characters a string_buffer of this size can hold: one place more than
\* the null's is left unused.
Held(size) == size - 1

-----------------------------------------------------------------------------
Null == "null"

\* A string of C: no null is in it.
IsString(str) == str \in Seq(Range(str) \ {Null})

\* What these sizes are together.
Total(sizes) ==
  LET total[i \in 0 .. Len(sizes)] == IF i = 0 THEN 0 ELSE total[i - 1] + sizes[i]
  IN  total[Len(sizes)]

\* string_multibuffer(smb, size): its places are 0 .. size - 1.
Multibuffer(size) == [memory |-> [place \in 0 .. size - 1 |-> Null], size |-> 0]

SizeOf(smb) == Cardinality(DOMAIN smb.memory)

\* What snprintf leaves in memory: room counts the null.
SnprintfAt(memory, at, room, str) ==
  LET count == Shorter(room - 1, Len(str))
  IN  [place \in DOMAIN memory |->
         IF room > 0 /\ place \in at .. at + count - 1 THEN str[place - at + 1]
         ELSE IF room > 0 /\ place = at + count THEN Null
         ELSE memory[place]]

AllFit(smb, str) == smb.size + Len(str) + 1 <= SizeOf(smb)

string_multibuffer_add(smb, str) ==
  [memory |-> SnprintfAt(smb.memory, smb.size, SizeOf(smb) - smb.size, str),
   size   |-> Shorter(smb.size + Len(str) + 1, SizeOf(smb))]

\* The null of the last string is where the next piece goes; whether it fits
\* is AllFit(LastReopened(smb), str).
LastReopened(smb) == [smb EXCEPT !.size = @ - 1]

string_multibuffer_append(smb, str) == string_multibuffer_add(LastReopened(smb), str)

\* The string that starts at a place.
StringAt(smb, at) ==
  LET end == CHOOSE e \in at .. SizeOf(smb) :
               /\ e = SizeOf(smb) \/ smb.memory[e] = Null
               /\ \A place \in at .. e - 1 : smb.memory[place] # Null
  IN  [i \in 1 .. end - at |-> smb.memory[at + i - 1]]
=============================================================================
