# A verification of the mail finder and its iOS reader

The repository holds an e-mail reader in two halves. `mailFinder` (Java) imports a
POP3 inbox into a Lucene index and tags it with topics; `ia_project_ios`
(Objective-C) shows and searches the mails, which Solr serves from such an index.
This directory holds TLA+ models of both halves, the TLC runs that check them and
the theorems TLAPS proves about them. All paths below are relative to `src/`;
`app/` stands for `mailFinder/src/main/java/com/mycompany/app/` and `ios/` for
`ia_project_ios/ia_project_ios/`.

## The system

| Part | Code | State it keeps | Operations |
|---|---|---|---|
| Importer | `app/App.java`, `Mail.java`, `Email.java` | the fetched messages, the loop counter (document id) | fetch, open, per message: text, polarity, headers, add; commit |
| Index | `app/Indexer.java` | the directories `IndexerBD` and `Temp`, their write locks, the writer's buffer, a static path | two constructors, `addIndex`, `getAllMail`, `getAllInfo`, `closeIndexer`, `search` (never called) |
| Topic tagger | `app/TopicModel.java` | the corpus, the model, the mails to tag | `train`, `getCategory`, `main` |
| Polarity table | `app/HashOps.java`, `FileOperations.java`, `TextOperations.java`, `WordCategory.java` | the file `HashFile` | `getPolarity`, `createHashTable` |
| Request pipeline | `ios/ServerCommunicator.m`, `ServerManager.m`, `GroupBuilder.m` | requests under way | three kinds of request, parsing, two delegates |
| Mail list | `ios/MasterViewController.m` | `emails`, the rows of the table | receive, reload, select, search, clear |
| Detail view | `ios/DetailViewController.m` | `detailItem`, `allMails`, `search`, HUD, recommendation panel | configure, score, recommend, slide the panel |
| Advanced search | `ios/AdvancedSearchViewController.m` | two dates and three texts | build a query |
| Highlighting | `ios/SearchWebView.m`, `SearchWebView.js` | spans in a document tree | highlight, remove |
| Not ours | Solr, the pods, `ILTranslucentView`, `AppDelegate` | | |

How they interact. The two Java programs never talk to each other; they share two
directories, their lock files and `HashFile`, and any of them may be started or
killed at any time. In the client every request gets an `NSOperationQueue` of its
own, so completion handlers run on background threads, concurrently and in the
order the answers come. They write the nonatomic property `emails` directly and
hand the rest to the main queue, where the table view, the detail view and the
user's actions run.

What is hard:

* **stale reads**: the duplicate search sees the last commit, not the writer's
  buffer; the list view counts rows of an array a background thread replaces;
* **failure half way**: one malformed message, a crash between two steps, a
  `HashFile` cut short, a reader that fails in the middle, a write that fails and is
  swallowed;
* **waiting with a lock**: texts and headers come from a mail server that may fall
  silent, while the index is locked;
* **exclusion by accident**: the tagger makes an `Indexer` on `IndexerBD` only to
  call two read methods, and the lock this takes is what keeps imports away;
* **ordering**: answers that overtake each other, blocks of different origin in one
  queue, HUD blocks that must come in pairs;
* **state read late**: a flag read at a touch and written by a block, a row looked up
  again when its block runs, a page whose last search may have been stopped half way.

`PROJECT.json` lists every hazard at its line with the properties that watch it.

## The modules

### MailDocs
The data both Java programs exchange and the pure questions they ask of it.
A message is its body and its *fate*, that is, what the importing loop does with it:
`complete`, `no_text` and `malformed` (both raise, at different points), or
`unaddressed` and `untitled` (passed over). A document is id, body and categories;
the other fields decide nothing here. An index is a set of documents, or `NoIndex`
for a directory without a commit.

`Known` is the duplicate search. The hash is stored as one verbatim term, but is
looked up through `PortugueseAnalyzer`, whose light stemmer removes a final `a` or
`e`: a body whose MD5 ends so is stored and never found. `Findable` is the set of the
others. `Readings` is what `getAllMail` and `getAllInfo` can return when a read may fail.

`IOFaults` says whether an access to an index may raise. Every such exception is
swallowed: a search that raises counts as no hit (`app/Indexer.java:128`), a failed
`updateDocument` drops the document and the loop goes on (`:164`), a failed read cuts the
list of mails short (`:186`). `Kept` and `Taggings` are what an import and a tagging run
are to leave of a set of documents. They are exact but for the ids in `slipped`, those on
which the run has swallowed such an error: of these documents nothing is promised, and
without `IOFaults` there are none.

### MailIndex
Both programs, step by step. A process is a slot in which one JVM after another runs;
`pc` is its step, `idle` when there is none.

| Action | Code |
|---|---|
| `FetchInbox`, `OpenIndexer` | `Mail.importMail` up to `new Indexer()` |
| `ReadText` | `getText`, from the server |
| `StartTable`, `FinishTable`, `LoseTable` | `getPolarity` when `HashFile` does not open, `createHashTable`, a write error that is swallowed |
| `Rate`, `RatingFails` | the rest of `getPolarity`, with and without a table that can be read |
| `RejectMessage`, `LoseConnection` | an exception in the loop, of the message or of the connection: caught outside of it, nothing committed |
| `SkipMessage`, `AcceptMessage` | `continue`, a null subject; a message made into an `Email` |
| `FindDuplicate`, `FindNothing`, `AddDocument`, `LoseDocument` | the two halves of `addIndex`; `updateDocument` raises, and what the writer had not flushed may be lost with the document |
| `CloseIndexer`, `CloseFails`, `Exit` | `closeIndexer`, which may raise; the end of the JVM |
| `OpenSource`, `Train`, `LoadMails`, `OpenTarget` | `TopicModel.main` up to its loop |
| `Classify`, `ClassifyFails` | `getCategory`, with and without a model |
| `Crash` | the JVM is killed, at any step |
| `InboxChanges` | mail comes and is deleted |

The write lock is Lucene's: `OpenWriter` takes it or the program exits with -1; it is
freed when the JVM ends, however it ends. A writer opened with `CREATE` starts empty
and readers see the old commit until `CloseIndexer`. `path` is the static field that
`new Indexer("Temp")` moves for the whole JVM. `hashFile` is `absent` (no file, or
none whose stream header can be read: both make `openRead` fail), `torn` (it opens,
but holds no object) or `table`. `closeIndexer` and the release of the lock that
follows are two steps; the release of `Temp` and the exit of the tagger are one,
because nobody can reach `Temp` while the tagger has `IndexerBD`.

`slipped` is history, no state of the code. `OpenFaults` lets a `HashFile` that is there
fail to open, as in `PolarityTable`: `StartTable` then builds it again and writes over it.

### AtomicIndex
What the programs promise, without loop, buffer or program counter: a run owns its
directory and replaces its contents in one step by the result computed from its whole
input and the contents before, or leaves them. The result is exact but for the documents
on which the run has swallowed an I/O error (`Slip`), the same history as in `MailIndex`.
`MailIndex` instantiates it with `inbox <- messages, index <- committed,
holder <- writeLock`.

### MailClient
The client around its answers. A request is `sent`, then its handler is `storing`,
`stored`, perhaps `copying`, `dispatching` and `done`, or it has `failed`. `emails`
and `allMails` carry the number of the request they answer: `GroupBuilder` makes new
objects of every answer, and the code compares objects by address. `mainQueue` is the
FIFO queue of blocks; the main thread runs one block at a time, `mainStep` saying
where it is inside the block of `didReceiveMails` or inside `configureView`, so that
background handlers come in between. The user acts between two blocks. A store into
the nonatomic property may crash the application (`StoreRaces`); so may a row or an
element 0 that is no longer there (`RowRaises`, `ShowFirstRaises`), and so may a row of
the table of recommendations for which `allMails` has no mail (`RecommendationRaises`;
`LastRow` is 14 in the code). `Close` is the system or the user ending it.

The field `open` of a request is history, no state of the code: the requests that had
not ended when it was made, none for a user who waits. `FillRaces` is the nonatomic
`allMails` released by two handlers at once. `StoreRaces` and `FillRaces` are the outcome of a
data race in which the old array is released twice or under a reader; the other outcome
is the plain store.

### PolarityTable and TableFile
`HashOps`, for one program at a time (`OneRunAtATime` of `MailIndex` is why that is
enough). `GetPolarity` starts the rating of a body; when `HashFile` does not open the
program goes through the three lists (`ReadLine`, `EndList`, `EndLastList`), writes
(`SaveTable`, `LoseTable`) and in any case reads `HashFile` again (`Rate`, `Abort`). A
list that does not open is `EndList` at its first line; one that breaks off, `EndList`
further on: `readLine` returns null for both, as at the end. `EndList` may also come after the
last line, so a list may be read whole. `Put`, `Votes` and `Verdict` are the hash
table and the vote. `OpenFaults` lets a `HashFile` that is there fail to open, which the
code brings about itself: it opens the file twice for every message and closes it never.

`TableFile` is what both `PolarityTable` and `MailIndex` promise of the file: it is
written by one run at a time, and only where no file opens. Without `OpenFaults` that is
at most once, and what is left of the write stays. Both instantiate it, so that
`MailIndex` may use the file without the lists in it.

### RecommendationPanel
Touches of the button, blocks of `showRecommendationView`, and `configureView` hiding
the panel. `shift` counts panel widths: both methods move the panel by its width from
wherever it is. `user` remembers whether the button was touched while a block was on
its way; it is no state of the code, but what the property is about.

### Recommendation
`scoringFuncion` and the table. Objects carry the answer they were made of, as in
`MailClient`, because the code compares the identifiers of two mails by address; a
`categories` field is its list of tokens, with the empty token after the last `;`, whose
`integerValue` is 0. An untagged mail has no tokens: no field, no list. `Choose` is
`setDetailItem` up to the end of the scoring loop, `SortAllMails` the sort, which reads
the property again. `sortUsingDescriptors` may leave equal scores in any order. `Draw`
draws a row, at any time after a reload; `Tap` sends the block and `ShowTapped` is the
block. `TaggedAssumption` says that a tagged mail has each topic once, as `TopicModel`
writes them (`app/TopicModel.java:117`), and the empty token last. A row beyond the array raises (`DrawRaises`, `ShowTappedRaises`). `FillAllMails`
comes from the background at any time, and may race (`FillRaces`). `fresh`, `asked`
and the field `current` are there for the properties.

### SearchHighlight
The script of `SearchWebView`, round by round. A page is the sequence of its tags and
of its text runs, and a run the text nodes and marks between two tags. Both recursive
walks go backwards through the child lists, so a position in that sequence, a child and
the text node at hand are their whole state. `Stop` is the time limit of the web view,
at the start of a round of one of the loops. `Searched` is the reference: what the loop
of `highlight` makes of an untouched text. Its assumptions: the page is one element and
has no marks of its own when it is loaded; a parser makes no empty text node; keywords
are not empty (the loop of `highlight` never ends on an empty one); the lower case of a
text is that of its characters, and no character is empty in lower case. The application calls
this category only from a line that is commented out, and its project lists the script
as a source to compile rather than as a resource.

### MC modules and proofs
The `MC` modules give the constants that a `.cfg` cannot write; `RecommendationPanel`
needs none. `MailIndexProofs` has the lemmas on data, types and locks,
`MailIndexInvariant` the inductive invariant and what follows from it, and
`MailIndexRefinement` the implementation of `AtomicIndex` and `TableFile`; each extends
the one before. `PolarityTableProofs`, `RecommendationPanelProofs`,
`RecommendationProofs`, `MailClientProofs` and `SearchHighlightProofs` belong to the
module of their name.

Each *faulty variant* stands before the definition it varies: a plausible bug in it,
which the named property must and does notice (`mutants` in `PROJECT.json`).

## The runs

| Run | Instance | Shows |
|---|---|---|
| `index` | one importer, one tagger, two bodies of which one is findable, up to 2 messages, 2 categories (symmetric), `IOFaults` | what either program is about to commit is exact at every step, but for the documents on which it swallowed an I/O error (`ImportIsExact`, `TaggingIsExact`); it publishes that or nothing (`ImplementsAtomicIndex`); the tagger's two reads and its work see one index (`TrainedOnWhatIsClassified`); ids are unique |
| `fates` | one importer, messages of every fate, up to 2, `IOFaults` and `OpenFaults` | an import publishes that or nothing, also with aborts, lost connections and a `HashFile` that is torn or does not open (`ImplementsAtomicIndex`); a torn `HashFile` blocks imports while it is torn (`TornTableBlocksImport`); a run ends unless the mail server leaves one question unanswered (`EveryRunEnds`) |
| `contention` | two importers, one tagger, up to 2 messages, no faults | at most one program works at a time; the verdict of the duplicate search is true when acted on; `HashFile` is written once (`ImplementsTableFile`); every run of either program ends, whoever else runs, unless the mail server leaves one question unanswered (`EveryRunEnds`) |
| `client` | three mails, 2 requests, 4 blocks, rows 0 to 2 of recommendations | rows, chosen mail and HUD follow the answers; `allMails` is one answer; a question asked alone is not passed over (`SearchIsAnswered`); crashes come of an answer that is being stored or shown, or of one too short for the table of recommendations (`CrashesComeOfAnswers`); the HUD disappears, the rows catch up |
| `polarity` | four words, lists of 2, 3 and 2 lines, four bodies | a saved table is of beginnings of the lists, the later list winning (`SavedIsFromTheLists`); no body is ever rated in two ways (`RatedByTheFile`); `TableFile` is implemented |
| `panel` | shift up to 12, 4 blocks | a patient user's panel is where its flag says (`PanelMatchesFlag`); once off its place it stays off (`DriftIsForGood`) |
| `recommendation` | two mails, two answers with objects of their own, rows 0 to 2, one block | what a score counts (`ScoreCountsTopics`); the order (`RankedByResemblance`); a touched row shows what was drawn on it unless `allMails` changed (`TapShowsItsCell`); only a short answer makes a row raise |
| `highlight` | nested and hidden elements, plain letters and letters whose small letter is two, a keyword with an apostrophe, 2 stopped removals | a search forgets earlier ones (`SearchForgetsSearches`); the text is kept (`TextIsKept`); the count is that of the marks (`CountIsMarks`); a removal is complete; every script ends |
| `lost_mail` | violation | a second import of an unchanged inbox empties the index |
| `twin_documents` | violation | two copies in one inbox are both indexed |
| `all_mails` | violation | `allMails` can be the result of a search, or empty |
| `chosen_mail` | violation | after a recommendation was looked at, choosing the mail it was recommended for does not bring it back |

**Bounds.** `MaxMail` bounds the inbox. Runs repeat without bound in every slot, so two
messages already give imports over grown, shrunk and unchanged inboxes, duplicates
within a run and across runs, an abort before and after an accepted message, and a
crash at every step. One findable and one unfindable body give every verdict of the
duplicate search. With two importers and a tagger each kind of program meets each
kind that may hold the lock (a second tagger adds nothing that an importer does not:
both take `IndexerBD` first); the theorems have no such bound. `fates` has one body,
for it is about what becomes of messages and not about which are duplicates, and no
tagger, which meets no message; the tagger is in `index` with faults of its reads and
writes, and in `contention` for its end. `contention` is about the programs and not about
faults: it shows that without them `HashFile` is written once and a verdict is exact. The
table of recommendations has rows 0 to 2 in `client`, so that an answer of all three
mails fills it and the shorter ones do not.

In the client, `MaxRequests` is per launch and launches repeat; two requests give every
overtaking of two answers, and two handlers at work while a reload is on its way. What
only three bring about, such as an answer stored while two other handlers fill
`allMails`, is covered by the theorems, which have no bound. `MaxBlocks` keeps the user
from filling the main queue faster than it is served.

In `polarity` the word `odd` is in every list and `bad` in two, so every way in which a
later list wins, or is missing, happens; the bodies have a clear vote, a draw and a
majority of neutral words. `OpenFaults` is `FALSE` there, for only then does
`RatedByTheFile` hold; what holds with such faults is proved.
The panel's state repeats with every width it is off, so a bound on `shift` cuts nothing
new off. `recommendation` has a table of three rows, for which an answer of one mail is
short as one of fewer than 14 is in the code; two answers give a copy of every mail, so
that two mails are ranked against a third object. In `highlight` the keywords overlap in
the text and with what other keywords cut apart; `MaxCuts` bounds stopped removals only,
and searches go on for ever.

**Fairness.** `MailIndex` assumes weak fairness of the next step of a running JVM where
that is straight code of a single thread on local files. Nothing is assumed of the steps
that need an answer of the POP3 server (`ServerStep`): bodies and headers are fetched
inside the loop, with `IndexerBD` locked, and no timeout is set on the connection
(`app/Mail.java:63`), so a server that falls silent holds the lock for ever.
`EveryRunEnds` says that this is all that can: a run that does not end is from some time
on for ever at one question to the server. Starting a program, mail coming and crashes
are never assumed. `MailClient` assumes that a connection is answered or fails
(`NSURLConnection` times out), that a handler's thread runs, and that the main queue
is served; nothing is assumed of the user. `SearchHighlight` assumes that a script that
was started runs: it is one call on one thread.

No run turns deadlock checking off.

## What is proved

**MailIndex.** Every safety property, for any sets of importers, taggers, bodies and
categories and any bound on the inbox, from the assumptions named in `MailDocs` and
`MailIndex` (findable bodies are bodies, messages are messages, no slot runs both
programs, ...), with I/O errors and a `HashFile` that fails to open or without: nothing is
assumed of `IOFaults` and `OpenFaults`. The argument, module by module:

* `MailIndexProofs`: first the data, what one more message does to `DocsOf`, one more
  document to `Kept` and one more mail to `Taggings`; that the documents of an inbox have
  unique ids and that tagging keeps ids. Then `TypeCorrect` (`TypeOK`), with a lemma per helper (`Advance`,
  `EndJVM`, `OpenWriter`) and per group of steps. `OneRun` (`OneRunAtATime`), from
  `LockInv`: whoever works holds the lock of `IndexerBD`. `OneRunAtATime` alone is not
  inductive, since it does not say what a newcomer finds. `HolderInv` is its converse
  (a held lock has a running holder) and says that a tagger that writes holds both.
* `MailIndexInvariant`: `Invariant` (`IInv`). To the properties `IInv` adds where the
  static path points (`PathInv`: otherwise the duplicate search might look into the
  other directory), that a loop starts from an empty buffer and message 1 (`FreshInv`),
  that no fatal message was passed over (`PassedInv`) or accepted without a table
  (`TableInv`), that a round of the loop has a message (`RoundInv`), where the document of an `addIndex` call comes from (`DraftInv`) and
  that the corpus is a reading of the present index and `slipped` holds what the list of
  mails lacks of it (`CorpusInv`). With `slipped`, losing a document keeps
  `ImportIsExact` for a reason that has to be shown: the documents that go with it are a
  tail of the buffer, and their ids are noted. TLC checked `IInv` with all faults on, on
  one importer and tagger and on two importers, before it was proved; as a conjunction of
  properties the runs check and of helpers, it is not a property of a run itself. The proof regroups
  this into what holds of one importer (`ImporterOK`) and of one tagger (`TaggerOK`).
  A step of another process disturbs neither: it leaves their memory alone
  (`OthersKeep`), and while they work it replaces no index and no `HashFile`
  (`IndexIsStable`, from `LockInv`). The process's own steps are followed one by one.
  `ImportExact`, `TaggingExact`, `TrainedOnClassified`, `VerdictCurrent`, `UniqueIds`
  and `TornTableBlocks` follow.
* `MailIndexRefinement`: `Implements` (`ImplementsAtomicIndex`). `OpenWriter` on a free
  directory is `Take`, the end of a JVM is `Release`, `FetchInbox` is `Fetch`, and
  `CloseIndexer` is `PublishMail` or `PublishTags`, by `ImportIsExact` with `PassedInv`,
  and by `TaggingIsExact` with `HolderInv`. A step that swallows an I/O error is `Slip`
  (`SlippingImplements`): what it strikes is of the input of the run (`OriginIsInput`).
  Every other step stutters.

  `ImplementsFile` (`ImplementsTableFile`) is the same for `HashFile`, from `OneRun`: only
  the one importer that works can be saving. It holds of the `TableFile` with the same
  `OpenFaults`; that what was written is never written over, `TableFile` says only without
  them.

**PolarityTable**, for any lists and bodies. `SavedFromTheLists` rests on what is being
built: the table at line `n` of list `l` is `Merged` of a beginning of each list before
and of the first `n - 1` lines of this one; a `Put` extends it by a line.
`RatedFromLists` says the same of every rating. It and the former hold whether or not a
`HashFile` that is there always opens, and so does `Implements`: lists are only read where
no file opens. `RatedByFile` assumes that a `HashFile` that is there opens
(`~OpenFaults`): then a table once saved is never left, and no rating is given before it
is there.

**RecommendationPanel**: all its properties, for any bounds. `PanelMatchesFlag` is
inductive because it also counts the blocks on their way: until a hasty touch there is
at most one, and only while the flag is `hidden`.

**Recommendation**, for any mails, categories and answers, and any number of rows and
objects: every property. The invariant says that
`allMails` holds the objects of one answer, as many as it has mails
(`WholeAnswer`), that their scores are those against `detailItem` while `fresh`
(`ScoresAreFresh`), that they are in order when `Ranked` (`ListIsSorted`), and that what
is on a current cell is what its row would show now (`CellsAreCurrent`). `ScoreCounts`
(`ScoreCountsTopics`) needs no step of the program but a count of pairs of positions: by
`TaggedAssumption` every shared topic but 0 is found at exactly one pair of positions
(`SharedTopics`), and a mail has one position whose value is 0, or two if it has topic 0
(`ZerosCounted`), each of which meets each of the other mail.

**MailClient**, for any index and any number of requests: every safety property.
`Follow` adds to `RowsFollowEmails` and `DetailFollowsEmails` the middle of the block of
`didReceiveMails` (`FirstFollows`): if there was a first mail and now is none, another
reload is due. `DetailFollowsEmails` is about the mail that was chosen, which is what the
controller holds on to: after an empty answer the old one stays, and a touched
recommendation is on the screen without being chosen (finding 4). `CrashesOfAnswers`
follows step by step: an answer is being stored or shown, or `allMails`, itself one answer
(`AllMailsIsOneAnswer`), is too short for its table, and then the client may crash at any
later time, with no request open. `Kept` ties `emails` and `allMails` to requests whose
handlers have stored: their answers do not change any more. `Patience` says of a
request made while no other was open that those before it have all ended, and that once
it has stored its mails `emails` answers it or a later one; `SearchAnswered` follows. For the HUD, `AppendShown` and `TailShown` say what a new
last block, and the run of the first, do to `Shown`; `HUDIsBalanced` is then inductive.

**SearchHighlight**, for any page, texts, keywords and letters, and any number of stopped
removals: types, the three invariants and the action property. The parts of `IInv`:

* `WalkInv`: the walk is inside the page and inside the run at hand. A mark unwrapped or
  cut out changes the length of the child list under the loop; that the position stays
  valid is what the backward order is for.
* `UnmarkedInv`: a removal has no mark left behind it, and a search has none before it.
  With the former a search that follows counts from a page without marks; with the
  latter each of its own marks is a new one, so `CountIsMarks` is kept by every round.
* `WholeInv`: unless a removal was stopped, a run without marks is one text node, or a
  `normalize` is still due on its parent (`dirty`), which the walk has yet to leave. So
  the runs are whole when the removal ends. Without the count of stopped removals this is
  false: a run half unwrapped may stay in pieces for good.
* `SearchInv`: behind the search the runs are as on a fresh page, before it they are
  whole, and in the run at hand the pieces found so far, followed by what
  `SearchedFrom` makes of the rest, are the whole answer. From it follows
  `SearchForgetsSearches`.

`TextIsKept` and `CountIsMarks` are conjuncts of it too. TLC checked every part of `IInv`
on the instance of `highlight` before it was proved.

*Data.* The texts are sequences of sequences, so the proof needs what `FlattenSeq` and
the recursive function `SearchedFrom` compute for every length. The library's induction
theorems take an operator and cannot be used here; `LeastNumber` derives from the
well-founded order of finite sets that a set of naturals has a least element, and
`SetInduction` from that induction over a *set* of naturals. With it,
`FlatteningExists` and `SearchedFromUnfolds` show that the functions that solve the
recursions exist, so that `CHOOSE` finds them, and `FlattenConcat`, `TextOfConcat`,
`LowercaseEven` and `SearchedFromType` say what they return. `SpliceKeepsText` is what the text property
rests on, `HighlightCounts` (one more element of a finite set) the count.

Only model-checked: the four liveness properties (`EveryRunEnds`, `HUDDisappears`,
`RowsCatchUp`, `SearchEnds`), because fairness and `ENABLED` are beyond
the prover.

## What the runs found

1. **A second import loses the first.** The duplicate search drops what the last commit
   holds, and the commit then replaces that (`app/Indexer.java:35`, `:133`, `:162`). An
   index alternates between full and empty. `TopicModel` does the same to `Temp`.
2. **Copies within one inbox are both indexed**: the search cannot see the buffer.
3. **`allMails` is the first answer, not all mails** (`ios/MasterViewController.m:59`).
4. **A mail chosen again is not shown**: `detailItem` is not what is on the screen after
   a recommendation was touched (`ios/DetailViewController.m:25`).

The models also hold behaviour no document speaks of: one message without a text part
stops every import for good, a torn `HashFile` does too; a write to the index that fails
leaves a mail out of it and the import is committed all the same (`app/Indexer.java:164`);
a mail server that falls silent keeps the index locked (`app/Mail.java:63`); the client
crashes at some row of its recommendations when there are fewer than 14 mails; a list of words that did not
open when `HashFile` was written is missing from it for ever; the client's list ends with
the answer that came last rather than with the search made last, unless the user waits;
the panel, touched twice in a hurry, stays a width off its place; every two tagged mails
resemble each other by the empty token behind their last category. A position found in
the lowercased text is used in the text itself (`ios/SearchWebView.js:10`), so a letter
that grows in lower case puts a mark beside the keyword: `SearchForgetsSearches` is
therefore about runs without such letters (`Even`). An apostrophe in a keyword makes the
call a syntax error after the count was set to zero (`ios/SearchWebView.m:9`), so
`CountIsMarks` excepts the time until the next search.

## Not modelled

* **Solr and Lucene inside, MALLET's sampler, the pods and the storyboard**: other
  people's code, modelled only where the two programs meet it. Nearly all of the
  repository's files, and all of its JavaScript but `SearchWebView.js`, are the Solr 4.6
  distribution in `solr-4.6 2.0/` with its admin web application and the libraries of
  that (require, d3, jQuery, jstree, ...). They are vendored: no model of this project is
  about them.
* **What a query selects.** The two search methods only format a string; which mails it
  finds is decided by Solr's query parser and analysers, and `Answers` in `MailClient`
  allows any selection in date order. The form of the advanced search only chooses the
  dates of that string.
* **`Indexer.search`**, which is never called, `TextOperations.openWrite` and
  `writeLine` likewise, and `GroupBuilder.receivedSimpleSearchJSON`, which returns an
  empty array to a method nobody calls.
* **Layout, fonts, labels and formatting**, which decide nothing that is checked, and the
  application shell (template code).
* **The limit of 100000 rows** in every request: an index of more mails than that is not
  considered.

## Plan

The plan of modules is carried out but for the query strings, for the reason above. What
could still be added: a
composition of `MailClient` and `Recommendation`, which now share `FillAllMails` in two
copies, one per module; and a model of the tagger's commit as Solr sees it, should the
way `Temp` gets to Solr become part of the repository.
