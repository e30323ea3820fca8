------------------------------ MODULE MCMails ------------------------------
(***************************************************************************)
(* Instances of Mails for TLC.                                             *)
(***************************************************************************)
EXTENDS Mails, TLC

CONSTANTS d1, d2, i1, i2

MCDirs == {d1, d2}
MCIds == {i1, i2}

Q(i, t) == [id |-> i, subject |-> "question", multipart |-> FALSE, text |-> t]
Multi(i, t) == [Q(i, t) EXCEPT !.multipart = TRUE]
Subject(i, s) == [Q(i, "sql") EXCEPT !.subject = s]

\* One Message-ID in two files and in two directories, a reply under the id of
\* its question, a multipart mail without a text, mails without a keyword, and
\* a subject that is not a string.
MCArchives == {
  (d1 :> {<<Q(i1, "sql"), Subject(i1, "reply")>>, <<Q(i2, "sql")>>})
    @@ (d2 :> {<<Multi(i1, "sql")>>, <<Subject(i2, "none"), Q(i2, "chat")>>}),
  (d1 :> {<<Q(i1, "chat"), Multi(i1, "sql"), Multi(i1, "empty")>>})
    @@ (d2 :> {<<Subject(i2, "reply"), Q(i2, "sql")>>}),
  (d1 :> {<<Subject(i1, "reply"), Q(i2, "empty")>>})
    @@ (d2 :> {<<Q(i1, "sql")>>, <<Subject(i2, "raw")>>})}
============================================================================
