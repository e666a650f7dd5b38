# Formal models of the migrid credential and account code

TLA+ models of `src/mig/shared/pwhash.py` (password policy, credential
checks and their caches, tokens, the password generator),
`src/mig/shared/accountreq.py` (account requests and pending peers) and
`src/mig/shared/functionality/tail.py`, checked with TLC, and proofs with
TLAPS. The other parts of the repository are listed below with the
reason they are not modelled.

## The system

`pwhash.py` holds the credential primitives the login handlers of the grid
(WebDAV, SFTP, OpenID; not in this repository) call as library functions:

* **Policy engine.** `password_requirements` (L313-347) parses a policy
  string (`NONE`, `WEAK`, `MEDIUM`, `HIGH`, `MODERN:<n>`, `CUSTOM:<n>:<m>`)
  into `(min_len, min_classes)`; malformed or unknown policies keep `-1, 42`.
  `parse_password_policy` (L350-365) picks the normal or the legacy policy of
  the configuration. `__assure_password_strength_helper` (L368-415) raises
  `Exception` for an unparsable policy or a requested but missing cracklib,
  `ValueError` for a password that is too short, has too few character
  classes, or is refused by cracklib (whose global `MIN_LENGTH` it sets
  first). `assure_password_strength` (L418-449) tries the normal policy and,
  only on `ValueError`, the legacy policy when one is configured and the
  caller allows it. `valid_login_password` (L452-465) turns the result into a
  boolean.
* **Credential codecs.** `make_hash` (PBKDF2 with a fresh salt, L85-96),
  `make_digest` (XOR of `realm:user:password` with the site salt, L148-171),
  `make_scramble` (XOR of the password with the salt, L212-235).
* **Checks with caches.** `check_hash` (L99-145), `check_digest`
  (L174-209), `check_scramble` (L238-270): each looks the presented password
  up in an optional cache dictionary supplied by the caller and returns
  `True` on a hit; otherwise it runs the policy (`check_hash` only when
  `strict_policy`; the others always, failing only when strict), verifies
  the password against the stored credential and, on a match, records it in
  the cache. The caches are shared by all the requests a long-running
  handler serves, concurrently.
* **Tokens** (`make_csrf_token`, `make_csrf_trust_token`, L273-310) and the
  **secret generator** (`generate_random_password`, L493-521) are pure
  utilities; `make_simple_hash`/`make_path_hash` wrap md5.

The other sources:

* **`accountreq.py`** serves the account request pages. Beside its HTML
  and JavaScript templates it keeps two kinds of shared files: the pending
  requests, one file per request in `configuration.user_pending`, which
  `list_account_reqs` (L366-397), `get_account_req` (L409-418),
  `accept_account_req` (L421-427) and `delete_account_req` (L430-433)
  serve to the admin pages, and a user's pending peers file, which
  `manage_pending_peers` (L600-631) loads, changes and dumps.
  `forced_org_email_match` (L469-511) is a pure check that the
  organization and the email of a request agree with a fixed policy table.
  Each call runs in its own web request, so calls on the same files
  interleave; nothing locks them.
* **`functionality/tail.py`** is the `tail` backend of the user file
  API: for each path pattern it globs, filters out matches outside the
  user's home, and prints the last `lines` lines of each file by seeking
  backwards from the end, doubling the step. Other jobs of the user may
  be writing the files it reads.
* `user/selenium/migcore.py` (browser automation for tests) and
  `tests/test_mig_shared_fileio.py` (unit tests of a module not in the
  repository) own no state of the system.

## Modules

| Module | Models | Run(s) |
|---|---|---|
| `PasswordPolicy` | the policy engine as operators (no state) | via the two below |
| `StrengthCheck`, `MC_StrengthCheck` | a state of (configuration, presented password), checked against a reference contract | `strength_contract` |
| `CredentialCheck`, `MC_CredentialCheck` | concurrent handlers running the three checks over the shared caches, with password changes | `credential_cache`, `cache_policy_bypass` |
| `CredentialCheckAbstract` | what the checks promise without their caches: each call answers the uncached verdict in one step | (refined by `CredentialCheck`) |
| `CredentialCheckProofs` | TLAPS proofs about `CredentialCheck`, and of its refinement | (tlapm) |
| `SecretGeneratorProofs` | TLAPS proof of `SecretGenerator`'s type invariant | (tlapm) |
| `SecretGenerator`, `MC_SecretGenerator` | `generate_random_password`: charset, draw, retry loop and exits | `secret_generator` |
| `TrustToken`, `MC_TrustToken` | `make_csrf_token`, `make_csrf_trust_token`, and a handler issuing and re-checking a trust token | `trust_token` |
| `PendingPeersAbstract` | what `manage_pending_peers` promises: an atomic change of the list | (refined by the next) |
| `PendingPeers`, `MC_PendingPeers` | concurrent calls of `manage_pending_peers` on one user's file | `pending_peers_race` |
| `OrgEmail`, `MC_OrgEmail` | `forced_org_email_match` against the policy it encodes | `org_email`, `org_email_spoof` |
| `AccountRequests`, `MC_AccountRequests` | the admin calls on the pending requests directory, and users saving requests | `account_reqs`, `account_reqs_mkdir_race` |
| `AccountRequestsProofs` | TLAPS proofs about `AccountRequests` | (tlapm) |
| `Tail`, `MC_Tail` | `main` of `tail.py`, with a writer appending to the files | `tail_last_lines`, `tail_one_byte` |
| `TailProofs` | TLAPS proofs that `main` accounts for every pattern and keeps its seeks inside the file | (tlapm) |

### PasswordPolicy

A password is a sequence of one-character strings. A policy string is a
record `[kw, args]`: `kw` is the keyword the string equals or starts with,
`args` the `:`-separated fields, each `Num(n)` (`int()` parses it) or `Junk`.
So `"CUSTOM:8:3"` is `[kw |-> "CUSTOM", args |-> <<Num(8), Num(3)>>]`,
`"MODERN:x"` has a `Junk` field, `"MODERN"` has none (the unpacking of
`split(':', 1)` fails), and `"HIGH:1"` is an unknown keyword. The
`PasswordRequirements` CASE follows the `if/elif` chain, and its arity tests
stand for the tuple unpacking of `split`. `PwClassStep` is one iteration of
the class loop (L391-398) and `PwClassList` the loop, a `FoldLeft`.
`StrengthHelper` returns `"Exception"`, `"ValueError"` or `"ok"` in the order
the helper raises; `AssurePasswordStrength` is the fallback logic. cracklib,
an external library, is modelled by what it refuses: a password shorter than
the `MIN_LENGTH` the helper sets, or one in its dictionary.

### CredentialCheck

State: `db` (each user's stored hash, digest and scramble), the three caches
(`hashCache`, `digestCache`, `scrambleCache`, functions from key to stored
value or `NoEntry`, which is `dict.get(key, None)`), and per handler `pc`,
`req` (the call with the credential the handler read), `match`, `result`.

Each check is two atomic steps: `CheckX` (cache lookup, then the policy
gate, then verification; these read only the cache and the handler's own
values) and `RecordX` (the cache write on a match and the return). Between
them other handlers and password changes interleave. `ChangePassword` saves
the three credentials of a new password; `Call` is a handler reading the
stored credential of a user and calling a check with a mode
`(strict_policy, allow_legacy)`.

Data abstractions: PBKDF2 is an ideal key derivation, so the derived key is
the pair (password, salt); the digest and scramble are bijections for the
fixed site salt, so they are recorded as what they encode; md5 cache keys
are collision free, so the hash and scramble caches are keyed by the
password and the digest cache by (user, password) (the realm is one fixed
string). The policy gate `PolicyRejects` is `strict /\ AssurePasswordStrength
/= "ok"`, which is both `check_hash`'s skip-when-not-strict and the others'
check-and-log.

`CredentialCheckAbstract` states what the three checks promise a handler
if the caches were not there: a handler issues a call (`Issue`), and the
call later answers `Accepts(call)` in one step (`Answer`). `CredentialCheck`
instantiates it as `Uncached`. `Accepts` is `UncachedAccepts(r) ==
Verifies(r) /\ ~PolicyRejects(r)`, the same verification and gate as a
miss. The mapping sends `req` to the call and `result` to the verdict,
and the pc of a handler in either step of a check to `"busy"`. A hit, a
rejection by the gate and the cache write each map to `Answer`. A passed
gate and a password change are stutters. `CacheTransparent ==
Uncached!Spec`.

### SecretGenerator

State: the configuration of the call (`conf`), `pc` (`"loop"` or how the
call ended), the loop index `i` and the last draw `password`. `GenCharset`
is the charset of L503-509 as a set. `generate_random_ascii` (L488-490)
draws with `random.SystemRandom`; the draw is a nondeterministic choice of
a string of `min_len` characters from the charset, restricted to
`DrawChars` (one character of each class), which is enough because the
policy check only looks at the length and the classes. Each iteration is
one step, ending in `AttemptFits` (return), `AttemptRetries` (a
`ValueError`, logged), `AttemptRaises` (any other exception escapes
the `except ValueError`) or, after `tries` refusals, `GiveUp`.

### TrustToken

Strings are sequences of characters; `StrLess` is Python's string order
(by code point, a proper prefix first), which `sorted()` uses. The site
salt XOR, the hex conversions and sha256 are taken as injective, so a
token is recorded as the `merged` string it is computed from; two tokens
are then equal exactly when their `merged` strings are. `CsrfOp` is the
loop of L298-308. Around it the model has the use the design (4.7) gives
the function, since the callers are not in this repository: `Issue`
renders arguments with their token, `Send` brings back any operation and
arguments with the token field, and `Check` recomputes the token with the
field skipped. The key order of `list(args)` is chosen freely at each
call.

### PendingPeers and PendingPeersAbstract

State: the file (`exists`, `list`), and per request `pc`, the list it
loaded, its action and change list, and its result. `Load` is L606-612:
`load` of a missing file raises and the list is `[]`; with `LoadMayFail`
it may also raise for an existing file. `Dump` is the filter of
L613-616, the `+=` of an add and the dump of L626; `DumpFails` the
`except` of L628-631; `Unsupported` the early return of L621-624.
`PendingPeersAbstract` has one variable, the pending list, and one action,
an atomic add or remove. `PendingPeers` instantiates it with the
refinement mapping `pending <- Stored(file)`, and `AtomicChange` is the
abstract specification as a property.

### OrgEmail

An email is whether its local part is of `[a-zA-Z0-9_.+-]+` and its
domain, a sequence of words and single characters. A pattern of L474-482
is the set of its alternatives (only KU's `(alumni.|)` has two), each a
sequence of words and `Any`, the unescaped `.`. `ReMatch` is `re.match`
with `^...$`, including `$` matching before a final newline, and `.` any character but a newline. `OrgUpper`,
`Hits`, `BreakAt`, `EmailHit` and `DictGet` follow L485-504: the
uppercasing, the inner and outer loops with their breaks, the `email_hit`
that the loops leave, and the dictionary lookup. The reference `Intended`
is the policy the comments describe, with literal dots.

### AccountRequests

State: whether `user_pending` exists, what each name in it is (`none`,
`file` or `dir`), and per admin call its `pc`, the directory entries not
yet looked at, the requests found so far, its result, and (for the
property) the requests present since its `listdir`.
`list_account_reqs` is split at every file system call: `ListDir`
(L372-373), `CheckDir` (the `isdir` of L375), `Mkdir` (L376-383),
`CheckEntry` (one entry: the dot skip and `is_account_req`'s `isfile`)
and `ListDone`. `GetAccountReq` is the `load` of L412 (which raises for
a missing file), `AcceptAccountReq` the stub returning False,
`DeleteAccountReq` the `delete_file`, and `SaveRequest` a user's new
request.

### Tail

State: the files (`fs`, a function from path to content), the writer's
count of appends, and the variables of `main`: `lines`, the pattern list
and the index in it, the matches of the current pattern, `status`, the
output objects, and for the open file `content` (as opened), `seen` (every
version it had while open), `length`, `backstep`, `newlines`, the file
position `pos`, the lines still to print and the lines printed. `Init`
is the state after `validate_input_and_cert` (L72-74). `NextPattern` is
the glob and the home filter of L87-107; `Open` the `open`, `seek` and
`tell` of L118-126; `Backtrack` one iteration of the doubling loop;
`EndBacktrack` the guarded seek of L133-137; `Skip` and `EndSkip` the
skip loop and the `tell`; `Emit` one line printed with `strip`; `Close`
the `close` and the `file_output` object; `OpenFails` the `except`
branch (a match that cannot be opened); `Finish` the return. Every seek from the end
uses the file's current length, so `Append1`, a job of the user
appending a character to a file, changes what the next seek and read see.
`readlines` counts the lines from a position, a partial last line
included (`LineCount`), and `readline` reads to the next newline.

## Runs

* `strength_contract` (`StrengthCheck.cfg`): `StrengthContract` states
  what `assure_password_strength` promises, in terms of a reference
  definition (the set of character classes of the password, its length, the
  parsed policy and cracklib): it accepts exactly the passwords that fit the
  normal policy, or, when the normal policy parses and the caller allows it,
  a configured legacy policy. An unparsable policy or a missing cracklib
  never lets a password through. Bounds: every password of up to 3
  characters over one character of each class (85), plus `abc123` and
  `Abc123#xyz`; 12 normal policies (every keyword, short and long forms,
  junk and negative fields, too many classes), 4 legacy policies (none, weak,
  custom, malformed) and 3 cracklib settings (off; on with a dictionary word;
  requested but missing). That covers each branch of the helper with a
  password on either side of its threshold.
* `credential_cache` (`CredentialCheck.cfg`): one handler, two users, two
  passwords (`abc123` fails `HIGH`, `Abc123#xyz` passes), two salts, all
  three checks, callers always strict and without the legacy policy, a
  `HIGH` policy with a `WEAK` legacy policy. `AcceptSound`: a check returns
  TRUE only for a password the full verification accepts against the stored
  value the handler passed. `PolicyOnAccept`: a strict check returns TRUE
  only for a password that satisfies the policy under the caller's
  `allow_legacy`. `CacheTransparent`: the refinement above, so every check
  answers what the uncached check answers for its call, TRUE and FALSE
  alike. Two users with two salts give the cases that matter: a
  cache entry for a password also held by another user, and an entry made
  stale by a password change.
* `cache_policy_bypass` (`CacheBypass.cfg`, expected violation): the same
  with every mode `(strict_policy, allow_legacy)`. TLC finds a non-strict
  `check_hash` recording `abc123` and a later strict call hitting the entry
  and returning TRUE, though `abc123` fails the `HIGH` policy. The comment at
  L119 ("already verified for those") is wrong for callers that differ in
  mode; the spec (4.6) asks for the policy to run on every call. This is
  the finding in `PROJECT.json`.

* `secret_generator` (`SecretGenerator.cfg`): eight policies (`NONE`,
  `WEAK`, `MODERN:3`, `CUSTOM:3:2`, `CUSTOM:3:3`, `CUSTOM:4:4`, the
  unparsable `MODERN:x`, and `CUSTOM:1:5` with more classes than exist)
  without cracklib, and `CUSTOM:3:2` with cracklib requested but missing;
  draws over `a`, `Z`, `7`, `#`; `tries = 1` (more tries only repeat the
  same draws). `GeneratorCanSucceedLongEnough`: for a valid policy whose
  `min_len` is at least `min_classes`, some draw passes the policy check,
  so only bad luck exhausts the tries. `TypeOK` bounds the loop index by `tries`. The restriction to
  `min_len >= min_classes` is needed: a `CUSTOM:2:3` policy parses, but
  no draw of two characters can pass it (a hazard in `PROJECT.json`).
* `trust_token` (`TrustToken.cfg`): two keys, two values (`a` and
  `a_a`), up to two values per key, two operations, the token field `t`,
  and every order of the keys. `TrustTokenDeterministic`: a request that
  returns the rendered operation and arguments with the token field added
  is accepted, whatever order `list(args)` gives, which is the sorting of
  L299-300 and the `skip_fields` of L304. The converse (an accepted
  request carries the rendered arguments, as the docstring says) does not
  hold: `{a: ["a_a"]}` gets the token of `{a: ["a", "a"]}`, because `_`
  joins keys and values without escaping.
* `pending_peers_race` (`PendingPeersRace.cfg`, expected violation): two
  requests; both load, both dump, and the first change is lost. With
  `LoadMayFail = TRUE` the model also shows a failed load of an existing
  file followed by a dump that wipes the stored peers.
* `org_email` (`OrgEmail.cfg`): the organizations `DIKU`, `diku`, `NBI`,
  `IMF`, `DTU`, `KU`, `Ku` and `ACME`; the policy domains, one other
  domain, two spoofs with a letter in place of a dot and `ku.dk` with a
  trailing newline; local parts valid or not.
  `OrgEmailPolicyOnPlainDomains`: on domains whose single characters are
  dots, the function accepts exactly the pairs of the policy, which needs
  the priority order, both breaks and the uppercasing to be right (KU's
  catch-all and `alumni.ku.dk` are the interesting cases).
* `org_email_spoof` (`OrgEmailSpoof.cfg`, expected violation):
  `OrgEmailPolicy` on every domain fails: `DIKU` with `dixku.dk` is
  accepted.
* `account_reqs` (`AccountRequests.cfg`): two admin calls, two request
  names and a dot file, the directory present or missing, mkdir and
  listdir working. `ListComplete`: a listing that returned holds every
  request that stayed in the directory from its `listdir` to its return,
  across saves, deletions by the other admin and entries that are
  directories. The same model with `Listable = FALSE` shows a `listdir` error on an
  existing directory returning `(True, [])` (a hazard in `PROJECT.json`).
* `account_reqs_mkdir_race` (`AccountRequestsMkdirRace.cfg`, expected
  violation): the same constants. `SetupBrokenOnlyWhenBroken`: a listing
  answers "account request setup is broken" only when `user_pending` is
  missing. TLC finds two listings of a missing directory that both see
  `listdir` raise and `isdir` fail; the first `mkdir` creates the
  directory, the second raises, and that listing reports the setup broken
  while the directory exists (the finding in `PROJECT.json`).
* `tail_last_lines` (`Tail.cfg`): one file `f` in the home, every
  content of up to five characters over `a`, `b` and newline, every line
  count from -1 to 3, the pattern lists `[f*]`, `[../x, f*]` (a match
  outside the home only) and `[none, *]` (no match, then a pattern
  matching `f` and the outside `x`), opens that may fail, and a writer
  appending one letter or newline. `TailLastLinesUndisturbed`: each
  `file_output` of a file longer than one byte that was not written while
  open holds its last `lines` lines, stripped. `PatternsAccountedFor`:
  when `main` returns, every pattern has an output entry and the status
  is OK exactly when all entries are file outputs. `Terminates`: `main`
  returns. `SeekWithinFile`: while a file is open the position is between
  0 and the file's current size, so `seek(-backstep, 2)` never goes before
  the start (the empty file, where only `if length` prevents it, included). Five characters give files with more lines than the largest
  count and backtracks of two doublings. A file written during the
  backtracking is left out of the property: the model shows `main`
  printing `ab` for the file `aa` with `b` appended, a partial line,
  because `length` is read once and every seek is from the new end.
* `tail_one_byte` (`TailOneByte.cfg`, expected violation):
  `TailLastLines` for every file fails on a one-byte file, which is
  printed as no lines.

Fairness. `CredentialCheck`, `StrengthCheck`, `TrustToken`, `OrgEmail`,
`PendingPeers`, `AccountRequests` and `SecretGenerator` have none:
their properties are safety.
`Tail` has weak fairness on the steps of `main`: it is a single
sequential call that runs while it can, which is what the interpreter
does. The writer of
`Tail` is not fair (it may stop at any time). The `SecretGenerator`,
`TrustToken` and `Tail` runs do not check deadlock, since the call they
model ends.

## Proofs

`CredentialCheckProofs` proves, for every value of the constants (any
finite or infinite sets of handlers, users, passwords, salts and modes):

* `TypeCorrect`: `Spec => []TypeOK`, from `TypeInit` and `TypeNext`.
* `AcceptSoundness`: `Spec => []AcceptSound`. `AcceptSound` is not
  inductive: a hit is sound only because the cache entry it reads was a
  verified match. The strengthening is `IInv == TypeOK /\ CacheSound /\
  RecordSound /\ AcceptSound`: every cache entry verifies against its key
  (`CacheSound`), and a handler about to write the cache holds a verified
  match (`RecordSound`). A hit then verifies because the stored value the
  caller passed is never `None` (`NoEntryAssumption`) and equals the entry.
  `IInv` was checked with TLC as an invariant of both configurations before
  it was proved. The step proof has one lemma for the three lookup steps
  (`CheckStep`) and one for the three writes (`RecordStep`).

* `PolicyOnAcceptUniform`: assuming `UniformModes` (every caller checks
  strictly, all with the same `allow_legacy`), `Spec => []PolicyOnAccept`.
  The hypothesis is needed: `PolicyOnAccept` is false with mixed modes
  (the `cache_policy_bypass` run, where a cache entry made by a legacy
  caller is hit by a strict one); `credential_cache` runs under it. The
  strengthening `PInv == TypeOK /\ CachePolicy /\ PassedPolicy /\
  CallModes` says that every cache entry holds a password the policy
  accepts in every mode (`CachePolicy`), that a handler about to write the
  cache or done with TRUE holds one (`PassedPolicy`), and that every call
  was made with a caller's mode (`CallModes`). With one mode, passing the
  gate for the call means passing it for every later caller, so a hit is
  sound. `PInv` was checked with TLC on `CredentialCheck.cfg` first. The
  step proof has `PolicyCheckStep` for the lookups and `PolicyRecordStep`
  for the cache writes.
* `CacheTransparency`: assuming `UniformModes`, `Spec => CacheTransparent`.
  So the caches never change an answer. A hit never accepts what the full
  check refuses, and a stale entry, or one for another user, never makes
  a check refuse what the full check accepts (it is a miss and the check
  verifies). Without the hypothesis the refinement fails on the same trace
  as `cache_policy_bypass`. The invariant is `RInv == IInv /\ PInv /\
  RecordMatch`, where `RecordMatch` says that a handler about to write
  the cache holds exactly the uncached verdict in `match`. `RInv` was
  checked with TLC on `CredentialCheck.cfg` with one handler and with two
  before it was proved. The proof follows the mapping. `RefineInit` shows
  that the initial handlers are idle with calls of `Requests`. The step
  lemmas are these:
  * `CallRefines`: a call is an `Issue` (its request is in `Requests`
    by `CallInRequests`).
  * `CheckRefines`: a hit answers TRUE, the uncached verdict by
    `HitAccepts`, from `CacheSound`, `CachePolicy` and `CallModes`. A
    rejection answers FALSE. A passed gate leaves the abstract state
    unchanged.
  * `RecordRefines`: the cache write answers `match`, the verdict, by
    `RecordMatch`.

  `StateBarExcept` shows that the step of one handler changes only that
  handler's abstract state.

`AccountRequestsProofs` proves, for any sets of admins and names and
either value of `CanCreate`:

* `TypeCorrect`: `Spec => []TypeOK`, one step per action.
* `ListCompleteness`: assuming `Listable` (listdir of an existing
  directory succeeds), `Spec => []ListComplete`. `ListComplete` is not
  inductive: whether a returned listing is complete depends on what the
  scan was doing before it returned. The strengthening `IInv` adds that a
  missing directory has no entries (`NoDirNoEntries`, so a failed
  `listdir` can only mean there are no requests), that the tracked
  requests are request files (`StableAreRequests`), that a listing that
  failed or is about to `mkdir` tracks none (`FailedTracksNothing`), and,
  the heart of it, that during the scan every tracked request not a dot
  name is found or still to be scanned (`ScanCovers`). A delete or a save
  by anyone else only shrinks the tracked sets; a scanned entry that is
  tracked is still a file and so is found. `IInv` was checked with TLC on
  `AccountRequests.cfg` before it was proved. Without `Listable` the
  theorem is false, as the hazard at L374 records.

`TailProofs` proves `PatternsCovered`: `Spec => []PatternsAccountedFor`
for every pattern list, glob result, home, file content, line count,
set of appended characters and number of appends. It rests on one
assumption added for it, that `glob` returns a finite list
(`PatternsAssumption`). The invariant `IInv` keeps the pattern loop's
bookkeeping: the patterns before the current one each have an output
object (`EarlierCovered`); inside the match loop the current pattern has
an object or a match is left, and while a file is open its match is at
the head (`CurrentPending`); `main` returns only after the last pattern
(`DoneAtEnd`); and the status is OK exactly when every object is a
`file_output` (`StatusTracks`). `IInv` was checked with TLC on `Tail.cfg`
first. The step proof has one lemma per group of actions: the next
pattern (a `file_not_found` covers it, or by `OrderNonEmpty` glob's
ordering of a non-empty finite set of matches is non-empty), the return
to the pattern loop and the return of `main`, `Open`, the two objects of
a match (`error_text` and `file_output`, through the `Append` lemmas
`AppendCovers`, `AppendOther` and `AppendFile`), the steps inside a file,
which touch none of these variables, and the writer. What a file's
`file_output` holds (`TailLastLinesUndisturbed`) is not proved: it is
about what `readlines`, `readline` and `strip` compute for every content.

`TailProofs` also proves `SeekInside`: `Spec => []SeekWithinFile`, under
the same constants. `SeekWithinFile` is not inductive: the position
after the final seek back is the size minus the backstep, and it is
in the file only because the backstep never passes the length taken at
open, which stays at most the size while the writer only appends. The
strengthening `PosInv == IInv /\ SeekOK` adds exactly that (`length <=
Len(Cur)` in a file, and `backstep <= length` while backtracking a
non-empty file), with the types of the files and the match list. A
`readline` ends at a position of the file by `LineEndBounds`: the first
newline after the position exists (lemma `NatSetMin`, the least element
of a non-empty set of naturals, from the library's well-foundedness of
`<` on `Nat` and `WFMin`). `PosInv` was checked with TLC on `Tail.cfg`
first.

`SecretGeneratorProofs` proves `TypeCorrect`: `Spec => []TypeOK` for
every configuration, number of tries and set of drawn characters. It
rests on `DrawAssumption`: a policy field that `int()` parses is an
integer (L331, L338), and the generator draws characters. `MinLenInt`
shows that `password_requirements` then gives an integer length for
every policy string, and `IntervalSeq` shows that a draw over `1 ..
min_len` is a string, the empty one for a negative length (`range` of a
negative count is empty). `TypeOK` is inductive as it stands.

Only model-checked:

* The liveness property `Terminates` of `Tail`. It depends on fairness,
  which is beyond the prover.
* Properties about what a sequence or string operator computes for
  every input. Each needs induction over data that the provers cannot
  carry out here:
  * `StrengthContract`: the character-class count folded over the
    password.
  * `GeneratorCanSucceedLongEnough`: the same count over the drawn
    password.
  * `TrustTokenDeterministic`: the sort of the arguments.
  * `OrgEmail`'s policy: the matching of the regular expression.
  * `TailLastLinesUndisturbed`: `readlines`, `readline` and `strip` over
    every content.

  The class count is `FoldLeft`, a recursive function over the subsets
  of the password's positions. Before the provers can use its defining
  equation, they need a proof that such a function exists, and the
  library's recursion theorems that give one take an operator
  parameter.
* `Tail`'s `TypeOK`. Its line counts and stripped lines use `SelectSeq`,
  a recursive function for which the library has no typing lemma. Its
  position part is proved as `SeekInside`.

## Not modelled

* The string formats of the credentials (the `split('$')`, `assert`,
  base64 and hex conversions); the empty-key and empty-password edge cases
  are listed as hazards with no property yet.
* The cracklib `MIN_LENGTH` global shared by concurrent threads: the
  policy operators are evaluated atomically.
* `make_simple_hash` and `make_path_hash`: one md5 call each, no state.
* In `accountreq.py`: the HTML and JavaScript templates,
  `build_accountreqitem_object` (formatting of a loaded request), the
  country code lookups, `peers_permit_allowed`, the `parse_peers*`
  functions and `get_accepted_peers` (pure parsing and filtering of form
  data and loaded files, with no shared state).
* In `tail.py`: `validate_input_and_cert` and the verbose flag output
  (formatting).
* The selenium helpers (test automation of a browser) and the fileio
  tests (of a module not in this repository).
