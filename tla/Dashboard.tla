----------------------------- MODULE Dashboard -----------------------------
(* The operator's decisions: render-dashboard.py writes a static page with *)
(* one field per item, the page's script posts the fields and reloads the  *)
(* page every minute, and dashboard-writer.py, one thread per post, merges *)
(* what it is sent into answers.json.  Agents read that file.              *)
EXTENDS Naturals, Sequences, FiniteSetsExt

CONSTANTS
  NItems,     \* keys of DECISIONS, numbered in their sorted order
  MaxTyped,   \* texts the operator types
  MaxPosts,   \* posts
  MaxCloses   \* items that close in the tracker

ASSUME BoardAssumption == NItems \in Nat

Questions == 1..NItems
Threads == {1, 2}
Inodes == 1..3
Blank == [i \in Questions |-> 0]
Free == [stage |-> "free", rows |-> Blank, cur |-> Blank, fd |-> 1, ours |-> TRUE]

VARIABLES
  open,       \* items the renderer finds Open in the tracker
  settled,    \* items in the answered list of decision-state.json
  files,       \* the files' contents: answers by item, or torn
  ans, tmp,   \* the inodes of answers.json and answers.json.tmp; 0 for none
  mixed,      \* inodes two threads had open at once
  page,       \* index.html: the items it has a field for, and the fields' values
  shown, field, saved,  \* the tab: its items, their values and their data-saved
  thread,     \* each post being served
  typed, posts,         \* counters
  unsent,     \* items whose typed text no post has carried
  midpost,    \* those of them typed while a post of the tab was under way
  marked,     \* the texts of such items that the answer to that post marked as saved
  lost,       \* texts that a reload has dropped and no post had carried
  about,      \* the item each text was typed for
  meant,      \* the last text typed and saved for each item
  posted,   \* items some post has saved
  overlapped  \* a post was sent before another was answered

boardVars == <<open, settled, files, ans, tmp, mixed, page, shown, field, saved, thread, typed,
               posts, unsent, midpost, marked, lost, about, meant, posted, overlapped>>

tabVars    == <<shown, field, saved>>
writerVars == <<files, ans, tmp, mixed, thread>>
typedGhosts == <<unsent, midpost, marked, lost, about>>
ghosts     == <<typedGhosts, meant, posted, overlapped>>

Stored == files[ans].of
Whole(n) == ~files[n].torn

BoardInit ==
  /\ open = Questions /\ settled = {}
  /\ files = [n \in Inodes |-> [torn |-> FALSE, of |-> Blank]] /\ ans = 1 /\ tmp = 0 /\ mixed = {}
  /\ page = [items |-> Questions, value |-> Blank]
  /\ shown = Questions /\ field = Blank /\ saved = Blank
  /\ thread = [k \in Threads |-> Free] /\ typed = 0 /\ posts = 0
  /\ unsent = {} /\ midpost = {} /\ marked = {} /\ lost = {} /\ about = <<>>
  /\ meant = Blank /\ posted = {} /\ overlapped = FALSE

-----------------------------------------------------------------------------
(* The tracker, the coordinator, the renderer.                             *)

Close == /\ Cardinality(Questions \ open) < MaxCloses
         /\ \E i \in open : open' = open \ {i}
         /\ UNCHANGED <<settled, writerVars, page, tabVars, typed, posts, ghosts>>

\* The answer is enough to act on: the item leaves the list.
Settle == /\ \E i \in posted \ settled : settled' = settled \cup {i}
          /\ UNCHANGED <<open, writerVars, page, tabVars, typed, posts, ghosts>>

\* load_answers: a file that does not parse is an empty one.
LoadAnswers == IF Whole(ans) THEN Stored ELSE Blank

\* prev is assigned for an open item only, and keeps its value for the others.
Prefill(asked) ==
  [i \in Questions |-> IF i \in asked
                   THEN LoadAnswers[Max({j \in asked \cap open : j <= i})] ELSE 0]

\* main: it dies before it writes when prev is read and was never assigned.
Render ==
  LET asked == Questions \ settled
  IN  /\ \A i \in asked : \E j \in asked \cap open : j <= i
      /\ page' = [items |-> asked, value |-> Prefill(asked)]
      /\ UNCHANGED <<open, settled, writerVars, tabVars, typed, posts, ghosts>>

-----------------------------------------------------------------------------
(* The page in the operator's tab.                                         *)

InFlight == \E k \in Threads : thread[k].stage # "free" /\ thread[k].ours

Type == /\ typed < MaxTyped /\ typed' = typed + 1
        /\ \E i \in shown : /\ field' = [field EXCEPT ![i] = typed']
                            /\ unsent' = unsent \cup {i}
                            /\ midpost' = IF InFlight THEN midpost \cup {i} ELSE midpost \ {i}
                            /\ about' = Append(about, i)
        /\ UNCHANGED <<open, settled, writerVars, page, shown, saved, posts, marked, lost,
                       meant, posted, overlapped>>

\* The Clear button.
Clear == /\ shown # {} /\ field' = Blank /\ unsent' = {} /\ midpost' = {}
         /\ UNCHANGED <<open, settled, writerVars, page, shown, saved, typed, posts, marked, lost,
                        about, meant, posted, overlapped>>

\* collect: every field that is not blank.  Save does nothing if all are.
Save == \E k \in Threads :
  /\ posts < MaxPosts /\ posts' = posts + 1
  /\ field # Blank /\ thread[k] = Free
  /\ thread' = [thread EXCEPT ![k] = [Free EXCEPT !.stage = "sent", !.rows = field]]
  /\ unsent' = {} /\ midpost' = {}
  /\ overlapped' = (overlapped \/ \E l \in Threads : thread[l] # Free)
  /\ UNCHANGED <<open, settled, files, ans, tmp, mixed, page, tabVars, typed, marked, lost,
                 about, meant, posted>>

\* A field holds text that its data-saved does not.
Dirty == \E i \in shown : field[i] # saved[i] /\ field[i] # 0

\* The reload, held while a field is dirty.  A page without a field has no Save button, its
\* script dies on that, and no timer is set.  The answer to a post under way is not awaited.
Reload ==
  /\ shown # {} /\ ~Dirty
  /\ shown' = page.items /\ field' = page.value /\ saved' = page.value
  /\ lost' = lost \cup {field[i] : i \in unsent} /\ unsent' = {} /\ midpost' = {}
  /\ thread' = [k \in Threads |-> IF thread[k] = Free THEN Free ELSE [thread[k] EXCEPT !.ours = FALSE]]
  /\ UNCHANGED <<open, settled, files, ans, tmp, mixed, page, typed, posts, marked, about, meant,
                 posted, overlapped>>

-----------------------------------------------------------------------------
(* The writer: do_POST on /answers.                                        *)

AtStage(k, stage) == thread[k].stage = stage

\* Mutant: what is sent replaces the file.
MergedOver(cur, rows) == rows
\* What is sent is merged into what the file holds.
Merged(cur, rows) == [i \in Questions |-> IF rows[i] # 0 THEN rows[i] ELSE cur[i]]

ReadAnswers(k) ==
  /\ AtStage(k, "sent")
  /\ thread' = [thread EXCEPT ![k].stage = "read", ![k].cur = Merged(LoadAnswers, thread[k].rows)]
  /\ UNCHANGED <<files, ans, tmp, mixed, saved, marked, meant, posted, overlapped>>

\* open(tmp, "w"): the temporary file is made, or the one another thread has is truncated.
OpenTmp(k) ==
  LET n == IF tmp # 0 THEN tmp
           ELSE Min(Inodes \ ({ans} \cup {thread[l].fd : l \in {l \in Threads : AtStage(l, "open")}}))
      also == \E l \in Threads \ {k} : AtStage(l, "open") /\ thread[l].fd = n
  IN  /\ AtStage(k, "read") /\ tmp' = n
      /\ files' = [files EXCEPT ![n] = [torn |-> TRUE, of |-> Blank]]
      /\ mixed' = IF also THEN mixed \cup {n} ELSE mixed \ {n}
      /\ thread' = [thread EXCEPT ![k].stage = "open", ![k].fd = n]
      /\ UNCHANGED <<ans, saved, marked, meant, posted, overlapped>>

\* json.dump and close.  What two threads wrote into one file need not parse.
Flush(k) ==
  /\ AtStage(k, "open") /\ thread' = [thread EXCEPT ![k].stage = "flushed"]
  /\ \E cut \in BOOLEAN :
       /\ cut => thread[k].fd \in mixed
       /\ files' = [files EXCEPT ![thread[k].fd] =
                     [torn |-> cut, of |-> IF cut THEN Blank ELSE thread[k].cur]]
  /\ UNCHANGED <<ans, tmp, mixed, saved, marked, meant, posted, overlapped>>

\* mark: every field that is not blank is what the server now holds, the text typed since the
\* post was sent with the rest.
Marked == [i \in Questions |-> IF field[i] # 0 THEN field[i] ELSE saved[i]]

\* The text, if it was typed for the item.
Own(i, text) == {t \in {text} : t # 0 /\ about[t] = i}

\* os.replace and the answer.  The temporary file may be gone, and the post then fails:
\* nothing is marked.
Replace(k) ==
  /\ AtStage(k, "flushed")
  /\ IF tmp = 0 THEN UNCHANGED <<ans, tmp, saved, marked, meant, posted>>
     ELSE /\ ans' = tmp /\ tmp' = 0
          /\ saved' = IF thread[k].ours THEN Marked ELSE saved
          /\ marked' = IF thread[k].ours THEN marked \cup {field[i] : i \in midpost} ELSE marked
          /\ posted' = posted \cup {i \in Questions : thread[k].rows[i] # 0}
          /\ meant' = [i \in Questions |-> Max({meant[i]} \cup Own(i, thread[k].rows[i]))]
  /\ thread' = [thread EXCEPT ![k] = Free]
  /\ UNCHANGED <<files, mixed, overlapped>>

Serve == /\ \E k \in Threads : ReadAnswers(k) \/ OpenTmp(k) \/ Flush(k) \/ Replace(k)
         /\ UNCHANGED <<open, settled, page, shown, field, typed, posts, unsent, midpost,
                        lost, about>>

BoardNext == \/ Close \/ Settle \/ Render
             \/ Type \/ Clear \/ Save \/ Reload \/ Serve

BoardSpec == BoardInit /\ [][BoardNext]_boardVars

-----------------------------------------------------------------------------
(* Properties.                                                             *)

\* Unless a post was sent before another was answered, answers.json always parses and every
\* item ever saved has an answer in it, whatever has been cleared, closed or settled since
\* (dashboard-writer.py:164-188).
AnswersKept ==
  overlapped \/ (Whole(ans) /\ \A i \in posted : Stored[i] # 0)

\* A reload drops no text that no post has carried (render-dashboard.py:598-605), but one
\* typed while a post of the tab was under way: the answer to that post marks what the fields
\* hold then, not what it carried (:505-513), and the reload takes the text for a saved one.
TypedKept == lost \subseteq marked

\* What the operator typed is in a field, in a post or in answers.json: both of the above, each
\* with its exception.
NothingTypedLost == AnswersKept /\ TypedKept

\* "so a decision survives a re-render" (dashboard-writer.py:18-19): when each post is answered
\* before the next is sent, answers.json holds the last text typed and saved for each item.
DecisionStands == overlapped \/ \A i \in Questions : meant[i] \in {0, Stored[i]}
=============================================================================
