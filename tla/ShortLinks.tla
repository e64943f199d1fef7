------------------------------ MODULE ShortLinks ------------------------------
(***************************************************************************)
(* pkg/shortlink: a code of eight characters for a long URL, kept in the   *)
(* key-value store.  The code is a hash of the URL cut short, so two URLs  *)
(* may have one code; Shorten looks whether another URL holds the code and *)
(* then puts its own, in two transactions that nothing holds together.     *)
(***************************************************************************)
EXTENDS Naturals, FiniteSets

CONSTANTS
  Shorteners,     \* goroutines
  URLs, NoURL,    \* NoURL: nothing stored, and the empty URL of a caller
  CodeOf          \* [URLs -> codes], codeFor

ASSUME LinksAssumption == NoURL \notin URLs /\ DOMAIN CodeOf = URLs

VARIABLES
  links,          \* [codes -> URL or NoURL], the namespace "shortlink"
  shortening,     \* [Shorteners -> [at, url]]
  handed,         \* history: URLs whose code a caller was given
  contested       \* history: codes two URLs were checked for before either was put

linksVars == <<links, shortening, handed, contested>>

Codes == {CodeOf[u] : u \in URLs}

LinksInit ==
  /\ links = [k \in Codes |-> NoURL]
  /\ shortening = [s \in Shorteners |-> [at |-> "idle", url |-> NoURL]]
  /\ handed = {} /\ contested = {}

\* Whoever holds the code already, it is taken over.
Free_Always(url) == TRUE

\* The code is free, or holds this very URL.
Free(url) == links[CodeOf[url]] \in {NoURL, url}

Resting == [at |-> "idle", url |-> NoURL]

\* The others that have found the code of url free for a URL of their own.
Rivals(s, url) ==
  {r \in Shorteners \ {s} : /\ shortening[r].at = "put" /\ shortening[r].url # url
                            /\ CodeOf[shortening[r].url] = CodeOf[url]}

-----------------------------------------------------------------------------
\* Shorten; an empty URL is refused at once.
Shorten(s, url) ==
  /\ shortening[s].at = "idle"
  /\ shortening' = [shortening EXCEPT ![s] = [at |-> "check", url |-> url]]
  /\ UNCHANGED <<links, handed, contested>>

\* The Get of the collision check: a code of another URL is an error.
CheckCode(s) ==
  LET url == shortening[s].url IN
  /\ shortening[s].at = "check"
  /\ IF Free(url)
     THEN /\ shortening' = [shortening EXCEPT ![s].at = "put"]
          /\ contested' = IF Rivals(s, url) = {} THEN contested ELSE contested \cup {CodeOf[url]}
     ELSE shortening' = [shortening EXCEPT ![s] = Resting] /\ UNCHANGED contested
  /\ UNCHANGED <<links, handed>>

\* The Put, and the answer.
PutCode(s) ==
  LET url == shortening[s].url IN
  /\ shortening[s].at = "put"
  /\ links' = [links EXCEPT ![CodeOf[url]] = url]
  /\ handed' = handed \cup {url}
  /\ shortening' = [shortening EXCEPT ![s] = Resting]
  /\ UNCHANGED contested

\* The store fails either of them, or the process ends between the two.
ShortenFails(s) ==
  /\ shortening[s].at # "idle"
  /\ shortening' = [shortening EXCEPT ![s] = Resting]
  /\ UNCHANGED <<links, handed, contested>>

LinksNext ==
  \E s \in Shorteners :
    \/ \E u \in URLs : Shorten(s, u)
    \/ CheckCode(s) \/ PutCode(s) \/ ShortenFails(s)

LinksSpec == LinksInit /\ [][LinksNext]_linksVars

-----------------------------------------------------------------------------
\* The stored links and the calls in progress have their types.
LinksTypeOK ==
  /\ links \in [Codes -> URLs \cup {NoURL}]
  /\ shortening \in [Shorteners -> [at : {"idle", "check", "put"}, url : URLs \cup {NoURL}]]
  /\ handed \subseteq URLs /\ contested \subseteq Codes

\* Resolve: the URL under the code.
Resolve(code) == links[code]

\* A link that was handed out leads to its URL for good, whoever shortens what
\* afterwards; only two URLs of one code that are shortened at the same time can
\* both be given it, and then one of the links leads to the other's URL.
LinksResolve ==
  \A u \in handed : Resolve(CodeOf[u]) = u \/ CodeOf[u] \in contested
=============================================================================
