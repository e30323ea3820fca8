------------------------------- MODULE Mails -------------------------------
(***************************************************************************)
(* Steps 1 to 3 of the README: mbox files are downloaded into directories   *)
(* of ./data, segement.sh runs segmentation.py on each directory, which     *)
(* saves the question mails to ./tmp/titleAndText/{dir}.json, and filter.py *)
(* keeps the messages of those files whose text has an SQL keyword.         *)
(*                                                                         *)
(* A mail is a Message-ID, a subject, whether the mail is multipart, and a  *)
(* text; an entry of a dict of messages is the mail it was made from.       *)
(***************************************************************************)
EXTENDS Naturals, Sequences

CONSTANTS
  Dirs,      \* the directories of ./data
  Ids,       \* Message-IDs
  Archives,  \* what ./data may hold: for each directory a set of mbox files
  NoMail,    \* a Message-ID that is not in a dict
  Missing,   \* no file
  Truncated  \* a file truncated by open(path, "w")

\* "raw": a subject with bytes that are not ASCII, which the email package
\* returns as an object that is not a string.
\* "sql" and "chat": texts with and without a keyword.
Mail == [id : Ids, subject : {"none", "reply", "question", "raw"},
         multipart : BOOLEAN, text : {"sql", "chat", "empty"}]
Mbox == Seq(Mail)

\* A dict of question mails by Message-ID.
Dict == [Ids -> {mail \in Mail : mail.subject = "question"} \cup {NoMail}]

ASSUME MailsAssumption ==
  /\ NoMail \notin Mail
  /\ Missing \notin Dirs /\ Missing # Truncated
  /\ {Missing, Truncated} \cap Dict = {}
  /\ \A a \in Archives : \A d \in Dirs : a[d] \subseteq Mbox

VARIABLES
  archive,       \* ./data
  titleAndText,  \* ./tmp/titleAndText/{dir}.json
  filtered,      \* ./tmp/filter/pgsql-bugs-msgs.json
  job,           \* what is running; "idle" when nothing is
  todo,          \* directories, or their files, not seen yet by the loop
  dir,           \* the directory segmentation.py or filter.py -f works on
  mboxes,        \* mbox files of dir not read yet
  data,          \* mail_data, or res_mbox_msg_dict
  fresh,         \* history: directories segmented since ./data last changed
  complete       \* history: filtered was made by filter.py -d from all of them

mailsVars == <<archive, titleAndText, filtered, job, todo, dir, mboxes, data,
               fresh, complete>>

MailsTypeOK ==
  /\ archive \in Archives
  /\ titleAndText \in [Dirs -> Dict \cup {Missing, Truncated}]
  /\ filtered \in Dict \cup {Missing, Truncated}
  /\ job \in {"idle", "segement", "segmentation", "dump", "filter", "save", "saving"}
  /\ todo \subseteq Dirs
  /\ dir \in Dirs \cup {Missing}
  /\ mboxes \subseteq Mbox
  /\ data \in Dict
  /\ fresh \subseteq Dirs
  /\ complete \in BOOLEAN

EmptyDict == [i \in Ids |-> NoMail]

MailsInit ==
  /\ archive \in Archives
  /\ titleAndText = [d \in Dirs |-> Missing]
  /\ filtered = Missing
  /\ job = "idle"
  /\ todo = {}
  /\ dir = Missing
  /\ mboxes = {}
  /\ data = EmptyDict
  /\ fresh = {}
  /\ complete = FALSE

\* dict.update.
Update(d, e) == [i \in Ids |-> IF e[i] = NoMail THEN d[i] ELSE e[i]]

-----------------------------------------------------------------------------
Download ==
  /\ job = "idle"
  /\ archive' \in Archives \ {archive}
  /\ fresh' = {}
  /\ complete' = FALSE
  /\ UNCHANGED <<titleAndText, filtered, job, todo, dir, mboxes, data>>

Segement ==
  /\ job = "idle"
  /\ job' = "segement"
  /\ todo' = Dirs
  /\ UNCHANGED <<archive, titleAndText, filtered, dir, mboxes, data, fresh, complete>>

\* The shell runs segmentation.py on the next directory.
SegmentDir(d) ==
  /\ job = "segement"
  /\ d \in todo
  /\ todo' = todo \ {d}
  /\ dir' = d
  /\ mboxes' = archive[d]
  /\ data' = EmptyDict
  /\ job' = "segmentation"
  /\ UNCHANGED <<archive, titleAndText, filtered, fresh, complete>>

\* Mutant: replies are not left out.
HasTextOrReply(mail) ==
  /\ mail.subject \in {"question", "reply"}
  /\ mail.multipart => mail.text # "empty"

\* A question mail; a multipart one needs a plain text that is not empty.
HasText(mail) ==
  /\ mail.subject = "question"
  /\ mail.multipart => mail.text # "empty"

\* The mails of a Message-ID in an mbox file overwrite one another.
GetText(mbox) ==
  LET Of(i) == {k \in 1..Len(mbox) : mbox[k].id = i /\ HasText(mbox[k])}
      Last(i) == CHOOSE k \in Of(i) : \A j \in Of(i) : j <= k
  IN  [i \in Ids |-> IF Of(i) = {} THEN NoMail ELSE mbox[Last(i)]]

Strips(mbox) == \A k \in 1..Len(mbox) : mbox[k].subject # "raw"

\* Mutant: what the earlier files of the directory gave is dropped.
SegmentMboxReplaces ==
  /\ job = "segmentation"
  /\ \E mbox \in mboxes :
       /\ Strips(mbox)
       /\ mboxes' = mboxes \ {mbox}
       /\ data' = GetText(mbox)
  /\ UNCHANGED <<archive, titleAndText, filtered, job, todo, dir, fresh, complete>>

\* The mbox files of a directory are read in any order.
SegmentMbox ==
  /\ job = "segmentation"
  /\ \E mbox \in mboxes :
       /\ Strips(mbox)
       /\ mboxes' = mboxes \ {mbox}
       /\ data' = Update(data, GetText(mbox))
  /\ UNCHANGED <<archive, titleAndText, filtered, job, todo, dir, fresh, complete>>

\* A subject without a strip method raises; the shell goes on.
SegmentRaises ==
  /\ job = "segmentation"
  /\ \E mbox \in mboxes : ~Strips(mbox)
  /\ job' = "segement"
  /\ mboxes' = {}
  /\ UNCHANGED <<archive, titleAndText, filtered, todo, dir, data, fresh, complete>>

OpenDirFile ==
  /\ job = "segmentation"
  /\ mboxes = {}
  /\ titleAndText' = [titleAndText EXCEPT ![dir] = Truncated]
  /\ job' = "dump"
  /\ UNCHANGED <<archive, filtered, todo, dir, mboxes, data, fresh, complete>>

WriteDirFile ==
  /\ job = "dump"
  /\ titleAndText' = [titleAndText EXCEPT ![dir] = data]
  /\ fresh' = fresh \cup {dir}
  /\ job' = "segement"
  /\ UNCHANGED <<archive, filtered, todo, dir, mboxes, data, complete>>

\* "Segmentation complete. Output stored in: ..."
SegmentationComplete ==
  /\ job = "segement"
  /\ todo = {}
  /\ job' = "idle"
  /\ UNCHANGED <<archive, titleAndText, filtered, todo, dir, mboxes, data, fresh,
                 complete>>

-----------------------------------------------------------------------------
Files == {d \in Dirs : titleAndText[d] # Missing}

\* filter.py -d.
FilterDir ==
  /\ job = "idle"
  /\ job' = "filter"
  /\ todo' = Files
  /\ dir' = Missing
  /\ data' = EmptyDict
  /\ UNCHANGED <<archive, titleAndText, filtered, mboxes, fresh, complete>>

\* The messages whose text has a keyword.
FilterText(d) ==
  [i \in Ids |-> IF d[i] # NoMail /\ d[i].text = "sql" THEN d[i] ELSE NoMail]

\* The files of the directory are read in any order.
FilterNext ==
  /\ job = "filter"
  /\ \E d \in todo :
       /\ titleAndText[d] # Truncated
       /\ data' = Update(data, FilterText(titleAndText[d]))
       /\ todo' = todo \ {d}
  /\ UNCHANGED <<archive, titleAndText, filtered, job, dir, mboxes, fresh, complete>>

\* json.load raises on a truncated file; nothing is saved.
FilterRaises ==
  /\ job = "filter"
  /\ \E d \in todo : titleAndText[d] = Truncated
  /\ job' = "idle"
  /\ todo' = {}
  /\ UNCHANGED <<archive, titleAndText, filtered, dir, mboxes, data, fresh, complete>>

FilterDone ==
  /\ job = "filter"
  /\ todo = {}
  /\ job' = "save"
  /\ UNCHANGED <<archive, titleAndText, filtered, todo, dir, mboxes, data, fresh,
                 complete>>

\* filter.py -f: the file is filtered, and the result is not used.
FilterFile(d) ==
  /\ job = "idle"
  /\ titleAndText[d] \notin {Missing, Truncated}
  /\ dir' = d
  /\ data' = EmptyDict
  /\ job' = "save"
  /\ UNCHANGED <<archive, titleAndText, filtered, todo, mboxes, fresh, complete>>

OpenFiltered ==
  /\ job = "save"
  /\ filtered' = Truncated
  /\ complete' = FALSE
  /\ job' = "saving"
  /\ UNCHANGED <<archive, titleAndText, todo, dir, mboxes, data, fresh>>

WriteFiltered ==
  /\ job = "saving"
  /\ filtered' = data
  /\ complete' = (dir = Missing /\ fresh = Dirs)
  /\ job' = "idle"
  /\ UNCHANGED <<archive, titleAndText, todo, dir, mboxes, data, fresh>>

Kill ==
  /\ job # "idle"
  /\ job' = "idle"
  /\ todo' = {}
  /\ mboxes' = {}
  /\ UNCHANGED <<archive, titleAndText, filtered, dir, data, fresh, complete>>

Segmentation ==
  \/ Segement \/ (\E d \in Dirs : SegmentDir(d)) \/ SegmentMbox \/ SegmentRaises
  \/ OpenDirFile \/ WriteDirFile \/ SegmentationComplete
Filter ==
  \/ FilterDir \/ FilterNext \/ FilterRaises \/ FilterDone
  \/ (\E d \in Dirs : FilterFile(d)) \/ OpenFiltered \/ WriteFiltered

MailsNext == Download \/ Segmentation \/ Filter \/ Kill

MailsSpec == MailsInit /\ [][MailsNext]_mailsVars

-----------------------------------------------------------------------------
\* The mails of ./data.
Archived == UNION {{mbox[k] : k \in 1..Len(mbox)} : mbox \in UNION {archive[d] : d \in Dirs}}

\* Once every directory was segmented and filter.py -d has run, no question with
\* an SQL keyword is missing, unless a mail without one has its Message-ID; the
\* order in which files are listed decides between mails, not between a mail
\* and none.
NoQuestionIsLost ==
  complete =>
    \A mail \in Archived :
      /\ mail.subject = "question" /\ mail.text = "sql"
      /\ \A other \in Archived : other.id = mail.id => other.text = "sql"
      => filtered[mail.id] # NoMail
=============================================================================
