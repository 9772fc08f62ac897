------------------------------- MODULE WebFetch -------------------------------
(***************************************************************************)
(* One execute of the web provider: web.search, web.fetch or web.download  *)
(* over HTTPS.  The name service may answer differently every time it is   *)
(* asked; the provider checks an answer and connects to that very answer.  *)
(* A URL is its host here: schemes, ports and the shape of a URL are       *)
(* refusals that need no name service.                                     *)
(***************************************************************************)
EXTENDS Integers, FiniteSets

CONSTANTS
    Hosts,
    SearchHost,           \* the configured search service
    Addresses, Private,   \* those _is_public_address refuses are Private
    MaxRedirects,         \* MAX_REDIRECTS
    MaxRepeats,           \* urllib: how often one URL may be redirected to
    Cap,                  \* max_bytes of the operation
    NoAddress

ASSUME WebFetchAssumption == Private \subseteq Addresses /\ SearchHost \in Hosts /\ Cap \in Nat

VARIABLES
    dns,         \* per host: the addresses it resolves to now (external)
    fetch,       \* the call: phase, op, url, the bytes of the body that were sent
                 \* (sent) and that arrived (size), verdict
    targets,     \* SafeRedirectHandler._targets: per URL the pinned address
    visited,     \* per URL: redirects to it so far (urllib's redirect_dict)
    vetted,      \* per URL: addresses of the answers that passed (history)
    dialled,     \* <<url, address>> of the connections made (history)
    file, temp   \* what the download's path and its temporary file hold

fetchVars == <<dns, fetch, targets, visited, vetted, dialled, file, temp>>

FetchInit ==
    /\ dns \in [Hosts -> SUBSET Addresses]
    /\ fetch = [phase |-> "idle", op |-> "none", url |-> SearchHost, sent |-> 0, size |-> 0, verdict |-> "none"]
    /\ targets = [h \in Hosts |-> NoAddress]
    /\ visited = [h \in Hosts |-> 0]
    /\ vetted = [h \in Hosts |-> {}]
    /\ dialled = {}
    /\ file = "old" /\ temp = "none"

\* resolve_public_url on host h answers with code; addresses of a good answer
\* are the ones dns gives, in any order.
Refusal(h) == IF dns[h] = {} THEN "UNAVAILABLE" ELSE IF dns[h] \cap Private # {} THEN "FORBIDDEN" ELSE "none"

Resolved(h) == vetted' = [vetted EXCEPT ![h] = @ \cup dns[h]]

Ends(verdict) == fetch' = [fetch EXCEPT !.phase = "done", !.verdict = verdict]

\* validate (it resolves the URL of a fetch and of a download), then the limiter.
ValidateFetch(op, h) ==
    /\ fetch.phase = "idle"
    /\ op = "search" => h = SearchHost
    /\ \/ op # "search" /\ Refusal(h) # "none" /\ Ends(Refusal(h)) /\ UNCHANGED vetted
       \/ (\E code \in {"VALIDATION", "NOT_IMPLEMENTED"} : Ends(code)) /\ UNCHANGED vetted
       \/ /\ op # "search" => Refusal(h) = "none"
          /\ IF op = "search" THEN UNCHANGED vetted ELSE Resolved(h)
          /\ \E code \in {"none", "FORBIDDEN"} :
               IF code # "none" THEN Ends(code)
               ELSE fetch' = [fetch EXCEPT !.phase = "request", !.op = op, !.url = h]
    /\ UNCHANGED <<dns, targets, visited, dialled, file, temp>>

\* A search service that takes an API key: none is configured, or the vault
\* does not give it; or the service is not one that is supported.
ResolveKey == {"none", "AUTH"}
SearchCodes == {"NOT_IMPLEMENTED"} \cup (ResolveKey \ {"none"})

NoCredentials ==
    /\ fetch.phase = "request" /\ fetch.op = "search"
    /\ \E code \in SearchCodes : Ends(code)
    /\ UNCHANGED <<dns, targets, visited, vetted, dialled, file, temp>>

\* _request up to the opener: the URL is resolved again, and that answer pinned.
FetchRequest ==
    /\ fetch.phase = "request"
    /\ IF Refusal(fetch.url) # "none"
       THEN Ends(Refusal(fetch.url)) /\ UNCHANGED <<targets, vetted>>
       ELSE /\ Resolved(fetch.url)
            /\ \E a \in dns[fetch.url] : targets' = [targets EXCEPT ![fetch.url] = a]
            /\ fetch' = [fetch EXCEPT !.phase = "open"]
    /\ UNCHANGED <<dns, visited, dialled, file, temp>>

\* Mutant: the connection asks the name service itself.
HttpsOpen_ByName ==
    /\ fetch.phase = "open"
    /\ \E a \in dns[fetch.url] : dialled' = dialled \cup {<<fetch.url, a>>}
    /\ fetch' = [fetch EXCEPT !.phase = "answer"]
    /\ UNCHANGED <<dns, targets, visited, vetted, file, temp>>

\* https_open and _PinnedHTTPSConnection.connect.  Every URL opened has a target
\* (for one without, _target_for would resolve and pin as FetchRequest does).
HttpsOpen ==
    /\ fetch.phase = "open" /\ targets[fetch.url] # NoAddress
    /\ dialled' = dialled \cup {<<fetch.url, targets[fetch.url]>>}
    /\ fetch' = [fetch EXCEPT !.phase = "answer"]
    /\ UNCHANGED <<dns, targets, visited, vetted, file, temp>>

\* redirect_request for the next hop, then urllib's own bound on redirects:
\* it counts the distinct URLs, and each URL's repeats.
RedirectRequest(h) ==
    /\ fetch.phase = "answer"
    /\ IF Refusal(h) # "none"
       THEN Ends(Refusal(h)) /\ UNCHANGED <<targets, vetted, visited>>
       ELSE /\ Resolved(h)
            /\ \E a \in dns[h] : targets' = [targets EXCEPT ![h] = a]
            /\ IF visited[h] >= MaxRepeats \/ Cardinality({u \in Hosts : visited[u] > 0}) >= MaxRedirects
               THEN Ends("PROVIDER_ERROR") /\ UNCHANGED visited
               ELSE /\ visited' = [visited EXCEPT ![h] = @ + 1]
                    /\ fetch' = [fetch EXCEPT !.phase = "open", !.url = h]
    /\ UNCHANGED <<dns, dialled, file, temp>>

\* No answer, an error status, or a redirect to something that is no public URL.
AnswerFails(code) ==
    /\ fetch.phase = "answer"
    /\ code \in {"UNAVAILABLE", "TIMEOUT", "NOT_FOUND", "FORBIDDEN", "VALIDATION", "PROVIDER_ERROR"}
    /\ Ends(code)
    /\ UNCHANGED <<dns, targets, visited, vetted, dialled, file, temp>>

\* Mutant: a body that does not fit is cut for a download as it is for a fetch.
ReadBody_AlwaysCut(sent, size, declared) ==
    /\ fetch.phase = "answer" /\ size <= sent
    /\ IF Refusal(fetch.url) # "none"
       THEN Ends(Refusal(fetch.url)) /\ UNCHANGED vetted
       ELSE /\ Resolved(fetch.url)
            /\ fetch' = [fetch EXCEPT !.phase = "body", !.sent = sent, !.size = size]
    /\ UNCHANGED <<dns, targets, visited, dialled, file, temp>>

\* The body is read up to the cap and one byte; a download, by its declared length
\* (if one is declared) or by what arrived, must fit, the others are cut.  A
\* connection that closes early gives less than was declared, and no error: the
\* two are not compared.  The final URL is checked again.
ReadBody(sent, size, declared) ==
    /\ fetch.phase = "answer" /\ size <= sent
    /\ IF fetch.op = "download" /\ ((declared /\ sent > Cap) \/ size > Cap)
       THEN Ends("PROVIDER_ERROR") /\ UNCHANGED vetted
       ELSE IF Refusal(fetch.url) # "none"
       THEN Ends(Refusal(fetch.url)) /\ UNCHANGED vetted
       ELSE /\ Resolved(fetch.url)
            /\ fetch' = [fetch EXCEPT !.phase = "body", !.sent = sent, !.size = size]
    /\ UNCHANGED <<dns, targets, visited, dialled, file, temp>>

\* The results of a search, which must decode (for one service any body will do).
UseResults ==
    /\ fetch.phase = "body" /\ fetch.op = "search"
    /\ \E code \in {"OK", "PROVIDER_ERROR"} : Ends(code)
    /\ UNCHANGED <<dns, targets, visited, vetted, dialled, file, temp>>

\* _fetch takes a text only.
UseText ==
    /\ fetch.phase = "body" /\ fetch.op = "fetch"
    /\ \E code \in {"OK", "FORBIDDEN"} : Ends(code)
    /\ UNCHANGED <<dns, targets, visited, vetted, dialled, file, temp>>

FetchedBody == IF fetch.size > Cap THEN "cut" ELSE IF fetch.size < fetch.sent THEN "short" ELSE "whole"

\* An OSError of _atomic_write: the temporary file is unlinked, if that works.
WriteFails ==
    /\ temp' \in {"none", temp} /\ file' = file
    /\ Ends("PROVIDER_ERROR")

\* _download once it has a body: the path is resolved again, and _atomic_write
\* makes a temporary file beside it ...
MakeTemp ==
    /\ fetch.phase = "body" /\ fetch.op = "download"
    /\ \/ temp' = "part" /\ file' = file /\ fetch' = [fetch EXCEPT !.phase = "writing"]
       \/ WriteFails
       \/ Ends("FORBIDDEN") /\ UNCHANGED <<file, temp>>
    /\ UNCHANGED <<dns, targets, visited, vetted, dialled>>

\* ... writes and syncs it, which may fill the disk ...
WriteTemp ==
    /\ fetch.phase = "writing"
    /\ \/ temp' = FetchedBody /\ file' = file /\ fetch' = [fetch EXCEPT !.phase = "written"]
       \/ WriteFails
    /\ UNCHANGED <<dns, targets, visited, vetted, dialled>>

\* ... and has os.replace put it at the path.
ReplaceFile ==
    /\ fetch.phase = "written"
    /\ \/ file' = temp /\ temp' = "none" /\ fetch' = [fetch EXCEPT !.phase = "replaced"]
       \/ WriteFails
    /\ UNCHANGED <<dns, targets, visited, vetted, dialled>>

\* The result, with the size and the digest of what was read.
ReportDownload ==
    /\ fetch.phase = "replaced"
    /\ Ends("OK")
    /\ UNCHANGED <<dns, targets, visited, vetted, dialled, file, temp>>

\* The process stops; nothing is cleaned up.
FetchDies ==
    /\ fetch.phase \notin {"idle", "done"}
    /\ Ends("dead")
    /\ UNCHANGED <<dns, targets, visited, vetted, dialled, file, temp>>

\* The name service changes its mind (external).
DnsChanges(h) ==
    /\ fetch.phase # "done"
    /\ \E answer \in SUBSET Addresses : dns' = [dns EXCEPT ![h] = answer]
    /\ UNCHANGED <<fetch, targets, visited, vetted, dialled, file, temp>>

FetchNext ==
    \/ \E h \in Hosts :
         \/ \E op \in {"search", "fetch", "download"} : ValidateFetch(op, h)
         \/ RedirectRequest(h) \/ DnsChanges(h)
    \/ NoCredentials \/ FetchRequest \/ HttpsOpen
    \/ \E code \in {"UNAVAILABLE", "TIMEOUT", "NOT_FOUND", "FORBIDDEN", "VALIDATION", "PROVIDER_ERROR"} : AnswerFails(code)
    \/ \E sent, size \in 0..(Cap + 1), declared \in BOOLEAN : ReadBody(sent, size, declared)
    \/ UseResults \/ UseText \/ MakeTemp \/ WriteTemp \/ ReplaceFile \/ ReportDownload \/ FetchDies

FetchSpec == FetchInit /\ [][FetchNext]_fetchVars

-----------------------------------------------------------------------------
\* However often the name service changes its answers, along every chain of
\* redirects: a connection goes to an address that this call itself was given
\* for that URL in an answer with no private address in it.
Pinned == \A d \in dialled : d[2] \in vetted[d[1]] \ Private

\* A download puts all that arrived at its path or leaves what was there, whatever
\* fails on the way and wherever the process stops: never a part of what arrived,
\* never a body cut at the cap; and it says which.  That all that was sent did
\* arrive it does not say: a connection that closes early leaves a short file
\* behind, reported like a whole one.
ReadOrUntouched ==
    /\ file \in {"old", "whole", "short"}
    /\ file # "old" => fetch.op = "download" /\ file = FetchedBody
    /\ fetch.verdict = "OK" /\ fetch.op = "download" => file # "old" /\ temp = "none"
    /\ fetch.phase = "done" /\ fetch.verdict \notin {"OK", "dead"} => file = "old"
=============================================================================
