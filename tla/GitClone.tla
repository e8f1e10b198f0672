------------------------------- MODULE GitClone -------------------------------
(* ingestion/git_client.py, clone_repository: what a request says about access is
   resolved into an environment for git, whose secrets live in files of a
   temporary directory; the branch is cloned, else the default branch, and the
   commit checked out. The directory of the last clone is removed first, where the
   operating system lets it. Which tree the commands bring is in MergeEvents. *)
EXTENDS Naturals

CONSTANTS
    Requests,                \* what may be order, a subset of CloneRequest
    MaxClones, MaxGitTroubles      \* bounds

Given == {"none", "valid", "garbled"}      \* a secret: as text it is always valid
Secret == [raw : BOOLEAN, b64 : Given]
CloneRequest ==
    [provider : {"github", "bitbucket", "other"}, url : {"https", "ssh"},
     transport : {"auto", "https", "ssh"},
     method : {"auto", "ssh_key", "http_basic", "http_token"},
     username : BOOLEAN, secret : BOOLEAN,     \* those of RepoAuthConfig
     token : BOOLEAN,                          \* the older parameter
     key : Secret, hosts : Secret, strict : {"yes", "accept-new", "no", "unknown"},
     commit : BOOLEAN]

ASSUME GitCloneAssumption == Requests \subseteq CloneRequest

VARIABLES
    order, private,     \* private: the remote wants to know who asks
    doing, result,        \* the command clone_repository is at, and how it ended
    directory,            \* what is at the destination: absent, old, partial, tree
    aside,                \* the destination has a suffix of its own
    secretFiles,          \* the temporary directory is there
    clones, troubles,
    excuse                \* history: git or the system failed, or the process died
gitVars == <<order, private, doing, result, directory, aside, secretFiles, clones,
             troubles, excuse>>

-----------------------------------------------------------------------------
(* _decode_ssh_secret_content: the text wins over its base64 form. *)
Decoded(s) == IF s.raw THEN "valid" ELSE s.b64

(* _build_effective_auth: for GitHub the older token fills what is left open. *)
TokenCounts(r) == r.token /\ ~r.secret /\ r.provider = "github"
HasSecret(r) == r.secret \/ TokenCounts(r)
HasUsername(r) == r.username \/ TokenCounts(r)

(* _infer_transport *)
Transport(r) ==
    CASE r.transport # "auto" -> r.transport
      [] r.transport = "auto" /\ TokenCounts(r) -> "https"
      [] OTHER -> r.url

(* _resolve_default_auth_method *)
Method(r) ==
    CASE r.method # "auto" -> r.method
      [] r.method = "auto" /\ TokenCounts(r) -> "http_token"
      [] r.method = "auto" /\ ~TokenCounts(r) /\ Transport(r) = "ssh" -> "ssh_key"
      [] OTHER -> IF r.provider = "bitbucket" THEN "http_basic" ELSE "http_token"

(* _resolve_ssh_env: nothing is set up for a URL that is not SSH. *)
SshAccess(r) ==
    CASE r.url # "ssh" -> "none"
      [] r.url = "ssh" /\ ("garbled" \in {Decoded(r.key), Decoded(r.hosts)}
                           \/ r.strict = "unknown" \/ Decoded(r.key) = "none"
                           \/ (r.strict = "yes" /\ Decoded(r.hosts) = "none")) -> "refused"
      [] OTHER -> "ssh"

(* _materialize_ssh_runtime_files: what is decoded is written before anything else is
   looked at, so that some refusals leave files behind. *)
WritesSshFiles(r) ==
    /\ r.url = "ssh" /\ Transport(r) = "ssh" /\ Method(r) = "ssh_key"
    /\ "garbled" \notin {Decoded(r.key), Decoded(r.hosts)}
    /\ "valid" \in {Decoded(r.key), Decoded(r.hosts)}

(* _resolve_bitbucket_https_env *)
BitbucketAccess(r) ==
    CASE ~HasSecret(r) -> "none"
      [] HasSecret(r) /\ (Method(r) # "http_basic" \/ ~HasUsername(r)) -> "refused"
      [] OTHER -> "https"

(* The same for GitHub, and for any other provider. *)
GithubAccess(r) ==
    CASE ~HasSecret(r) -> "none"
      [] HasSecret(r) /\ Method(r) = "http_basic" /\ ~HasUsername(r) -> "refused"
      [] OTHER -> "https"
OtherAccess(r) ==
    IF HasSecret(r) /\ (Method(r) = "http_basic" => HasUsername(r)) THEN "https" ELSE "none"

HttpsAccess(r) ==
    CASE r.provider = "github" -> GithubAccess(r)
      [] r.provider = "bitbucket" -> BitbucketAccess(r)
      [] OTHER -> OtherAccess(r)

(* _resolve_runtime_auth_env: how git will present itself, or a refusal. *)
Access(r) ==
    IF (Transport(r) = "ssh") # (Method(r) = "ssh_key") THEN "refused"
    ELSE IF Transport(r) = "ssh" THEN SshAccess(r) ELSE HttpsAccess(r)

(* The remote lets a clone in; over SSH nobody is anonymous. *)
LetsIn(r) == Access(r) = r.url \/ (~private /\ r.url = "https")

-----------------------------------------------------------------------------
GitInit ==
    /\ order \in Requests /\ private \in BOOLEAN
    /\ doing = "remove" /\ result = "none"
    /\ directory \in {"absent", "old"} /\ aside = FALSE /\ secretFiles = FALSE
    /\ clones = 1 /\ troubles = 0 /\ excuse = FALSE

Trouble == troubles < MaxGitTroubles /\ troubles' = troubles + 1 /\ excuse' = TRUE
NoTrouble == UNCHANGED <<troubles, excuse>>
EndsWith(r) == result' = r /\ doing' = "cleanup"

(* _safe_remove_tree: three attempts; files that are locked leave the directory, and
   the clone goes to another one beside it. *)
RemoveOld ==
    /\ doing = "remove" /\ doing' = "resolve" /\ directory' = "absent"
    /\ aside' \in {FALSE, directory # "absent"}
    /\ NoTrouble /\ UNCHANGED <<order, private, result, secretFiles, clones>>

(* An error other than a missing permission is not caught; nothing is set up yet. *)
OldStays ==
    /\ doing = "remove" /\ directory = "old" /\ Trouble
    /\ doing' = "over" /\ result' = "failed"
    /\ UNCHANGED <<order, private, directory, aside, secretFiles, clones>>

(* A refusal is raised before the try of clone_repository: its finally is not run. *)
ResolveAccess ==
    /\ doing = "resolve"
    /\ IF Access(order) = "refused"
       THEN doing' = "over" /\ result' = "failed" /\ secretFiles' = WritesSshFiles(order)
       ELSE doing' = "branch" /\ secretFiles' = (Access(order) # "none") /\ UNCHANGED result
    /\ NoTrouble /\ UNCHANGED <<order, private, directory, aside, clones>>

(* The error of a refusal is dropped, after the ingest has recorded it; with it goes the
   last reference to the temporary directory, which removes itself. *)
ErrorIsDropped ==
    /\ doing = "over" /\ result = "failed" /\ secretFiles /\ secretFiles' = FALSE
    /\ NoTrouble /\ UNCHANGED <<order, private, doing, result, directory, aside, clones>>

(* A clone succeeds into an empty place, where the remote lets it in. *)
CommandsFollow ==
    IF order.commit THEN doing' = "checkout" /\ UNCHANGED result ELSE EndsWith("cloned")

CloneWorks ==
    /\ doing \in {"branch", "default"} /\ LetsIn(order) /\ directory = "absent"
    /\ directory' = "tree" /\ CommandsFollow /\ NoTrouble
    /\ UNCHANGED <<order, private, aside, secretFiles, clones>>

(* The branch does not exist, the network fails, git is killed: what it left is
   removed, if that works, and the default branch is tried. *)
BranchFails ==
    /\ doing = "branch" /\ doing' = "default"
    /\ \/ /\ ~LetsIn(order) \/ directory # "absent"
          /\ directory' \in {"absent", directory} /\ NoTrouble
       \/ LetsIn(order) /\ directory' \in {"absent", "partial"} /\ Trouble
    /\ UNCHANGED <<order, private, result, aside, secretFiles, clones>>

DefaultFails ==
    /\ doing = "default" /\ EndsWith("failed")
    /\ \/ (~LetsIn(order) \/ directory # "absent") /\ UNCHANGED directory /\ NoTrouble
       \/ LetsIn(order) /\ directory' \in {directory, "partial"} /\ Trouble
    /\ UNCHANGED <<order, private, aside, secretFiles, clones>>

CheckOut ==
    /\ doing = "checkout"
    /\ \/ EndsWith("cloned") /\ NoTrouble
       \/ EndsWith("failed") /\ Trouble
    /\ UNCHANGED <<order, private, directory, aside, secretFiles, clones>>

(* Mutant: the files are removed after a clone that worked. *)
CleanUpOnSuccess ==
    /\ doing = "cleanup" /\ doing' = "over"
    /\ secretFiles' = (secretFiles /\ result # "cloned")
    /\ NoTrouble /\ UNCHANGED <<order, private, result, directory, aside, clones>>

(* The finally of clone_repository. *)
CleanUp ==
    /\ doing = "cleanup" /\ doing' = "over" /\ secretFiles' = FALSE
    /\ NoTrouble /\ UNCHANGED <<order, private, result, directory, aside, clones>>

(* The process dies: its files stay in the temporary directory of the system. *)
CloneKilled ==
    /\ doing # "over" /\ Trouble
    /\ doing' = "over" /\ result' = "killed"
    /\ directory' \in {directory, "partial"}
    /\ UNCHANGED <<order, private, aside, secretFiles, clones>>

(* The next ingest of the repository finds what the last one left. *)
NextClone ==
    /\ doing = "over" /\ clones < MaxClones /\ clones' = clones + 1
    /\ doing' = "remove" /\ result' = "none" /\ aside' = FALSE /\ secretFiles' = FALSE
    /\ directory' = IF aside \/ directory # "absent" THEN "old" ELSE "absent"
    /\ excuse' = FALSE
    /\ UNCHANGED <<order, private, troubles>>

GitNext ==
    \/ RemoveOld \/ OldStays \/ ResolveAccess \/ CloneWorks \/ BranchFails \/ DefaultFails
    \/ CheckOut \/ CleanUp \/ ErrorIsDropped \/ CloneKilled \/ NextClone

GitSpec == GitInit /\ [][GitNext]_gitVars

-----------------------------------------------------------------------------
GitTypeOK ==
    /\ order \in CloneRequest /\ result \in {"none", "cloned", "failed", "killed"}
    /\ doing \in {"remove", "resolve", "branch", "default", "checkout", "cleanup", "over"}
    /\ directory \in {"absent", "old", "partial", "tree"}

(* A request that holds what its URL takes gets a private repository, whichever
   provider it names and whatever directory is in the way, unless git fails: over
   HTTPS a user and a secret, over SSH a key and, when strict, the known hosts. *)
HttpsSuffices(r) ==
    /\ r.url = "https" /\ r.transport \in {"auto", "https"}
    /\ r.method \in {"auto", "http_basic"} /\ r.username /\ r.secret
SshSuffices(r) ==
    /\ r.url = "ssh" /\ r.transport \in {"auto", "ssh"} /\ r.method \in {"auto", "ssh_key"}
    /\ Decoded(r.key) = "valid" /\ r.strict # "unknown"
    /\ Decoded(r.hosts) \in {"valid"} \union (IF r.strict = "yes" THEN {} ELSE {"none"})
EnoughIsEnough ==
    doing = "over" /\ ~excuse /\ (HttpsSuffices(order)
                                  \/ (SshSuffices(order) /\ ~TokenCounts(order)))
        => result = "cloned" /\ directory = "tree"

(* A secret for GitHub or Bitbucket is used over HTTPS or the request is refused:
   git is not sent out as nobody. *)
SecretIsUsedOrRefused ==
    doing \in {"branch", "default", "checkout"} /\ Transport(order) = "https"
        /\ HasSecret(order) /\ order.provider # "other"
        => Access(order) = "https"

(* The files with the secrets are there for every command that needs them, the
   second clone and the checkout included, and gone when the call has ended,
   however it ended, unless the process died, or git was never called and the refusal
   still holds them. *)
SecretFilesLiveWithGit ==
    /\ doing \in {"branch", "default", "checkout"} => secretFiles = (Access(order) # "none")
    /\ doing = "over" /\ secretFiles =>
          result = "killed" \/ (result = "failed" /\ Access(order) = "refused")

(* Not so: the files are gone with the end of every call. The key of an SSH request that
   lacks its known hosts is written, and stays until the refusal is forgotten. *)
NoFileOutlivesItsCall == doing = "over" /\ result # "killed" => ~secretFiles

(* Not so: with a token for GitHub, an SSH URL is cloned without the key that is
   configured. *)
KeyIsEnough ==
    doing = "over" /\ ~excuse /\ SshSuffices(order) => result = "cloned"

(* Not so: with another provider, or over a transport that is not the one of the
   URL, a secret may be passed over. *)
SecretIsNeverPassedOver ==
    doing \in {"branch", "default", "checkout"} /\ HasSecret(order)
        => Access(order) # "none"

(* A clone that has what it needs works, a secret that is given is used or refused,
   and its files are gone when git is. *)
ClonesAreSafe == EnoughIsEnough /\ SecretIsUsedOrRefused /\ SecretFilesLiveWithGit

-----------------------------------------------------------------------------
(* Why it is so: the inductive invariant. A request that git is sent out for was not
   refused, and its secrets are on the disk as long as git runs; where the remote lets
   the request in and nothing has failed, the place is empty for the first clone and the
   second one is not tried. *)
SecretsBesideGit ==
    /\ doing \in {"remove", "resolve"} => ~secretFiles
    /\ doing \in {"branch", "default", "checkout"} =>
          Access(order) # "refused" /\ secretFiles = (Access(order) # "none")
    /\ doing = "over" /\ secretFiles =>
          result = "killed" \/ (result = "failed" /\ Access(order) = "refused")
LetInAtOnce ==
    LetsIn(order) /\ ~excuse =>
        /\ doing \in {"resolve", "branch"} => directory = "absent"
        /\ doing # "default"
        /\ doing = "checkout" => directory = "tree"
        /\ doing \in {"cleanup", "over"} =>
              Access(order) = "refused" \/ (result = "cloned" /\ directory = "tree")

GitIInv ==
    /\ GitTypeOK /\ private \in BOOLEAN /\ secretFiles \in BOOLEAN /\ excuse \in BOOLEAN
    /\ SecretsBesideGit /\ LetInAtOnce
=============================================================================
