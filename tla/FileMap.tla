------------------------------ MODULE FileMap ------------------------------
(***************************************************************************)
(* What the boot file system promises.  Files are put into it one by one,  *)
(* the collection is published, and from then on it does not change; a     *)
(* reader who asks for a name gets the content of the first file that was  *)
(* put in under this name.                                                 *)
(***************************************************************************)
EXTENDS Integers, Sequences

CONSTANTS Names, Contents, Readers, Nothing

VARIABLES
  files,      \* what was put in since the work on the collection began
  published,  \* the collection that readers see
  answer      \* what each reader has been given

fmVars == <<files, published, answer>>

FirstOf(s, n, i) ==
  /\ i \in DOMAIN s /\ s[i].name = n
  /\ \A j \in DOMAIN s : s[j].name = n => i <= j

Init == files = <<>> /\ published = <<>> /\ answer = [r \in Readers |-> Nothing]

Put == /\ \E n \in Names, c \in Contents :
            files' = Append(files, [name |-> n, content |-> c])
       /\ UNCHANGED <<published, answer>>

Discard == files' = <<>> /\ UNCHANGED <<published, answer>>

\* Readers come after the publisher.
Publish == /\ files # <<>>
           /\ \A r \in Readers : answer[r] = Nothing
           /\ published' = files /\ files' = <<>>
           /\ UNCHANGED answer

Answer(r) == /\ answer[r] = Nothing
             /\ \E n \in Names, i \in DOMAIN published :
                  /\ FirstOf(published, n, i)
                  /\ answer' = [answer EXCEPT ![r] = published[i].content]
             /\ UNCHANGED <<files, published>>

Forget(r) == /\ answer' = [answer EXCEPT ![r] = Nothing]
             /\ UNCHANGED <<files, published>>

Next == \/ Put \/ Discard \/ Publish
        \/ \E r \in Readers : Answer(r) \/ Forget(r)

Spec == Init /\ [][Next]_fmVars
=============================================================================
