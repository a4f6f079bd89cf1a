------------------------------- MODULE Secrets ------------------------------
(***************************************************************************)
(* CryptoService, and the functions of the migration script that repeat it: *)
(* what is stored of a password. A stored string is the text it stands for   *)
(* and the keys it was encrypted with, the innermost first; an initial value *)
(* is ignored, so that two encryptions of one text are one value here.       *)
(***************************************************************************)
EXTENDS Naturals, Sequences

CONSTANTS
  Text,            \* passwords
  LooksEncrypted,  \* those that have the form of cipher text: 32 hex digits, a colon, more of them
  Key,             \* values of ENCRYPTION_KEY
  none             \* null

ASSUME SecretsAssumption == LooksEncrypted \subseteq Text /\ none \notin Text

Secret == [text : Text, layers : Seq(Key)]

Plain(t) == [text |-> t, layers |-> <<>>]

encrypt(v, k) == [v EXCEPT !.layers = Append(@, k)]

\* Told from the form of the string alone.
isEncrypted(v) == v.layers # <<>> \/ v.text \in LooksEncrypted

\* decrypt throws on what was not encrypted with this key.
Readable(v, k) == isEncrypted(v) => v.layers # <<>> /\ v.layers[Len(v.layers)] = k

safeDecrypt(v, k) == IF isEncrypted(v) THEN [v EXCEPT !.layers = SubSeq(@, 1, Len(@) - 1)] ELSE v

=============================================================================
