----------------------------- MODULE AcmeOrder -----------------------------
(* Certificate requests (acme.py).  A request places a TXT record in a DNS  *)
(* zone through one of ten providers, lets the CA look at it, stores the    *)
(* certificate and takes the record away.  Nothing keeps two requests apart *)
(* (an administrator's and the daily renewal's), and every provider call    *)
(* may fail or take effect although its answer is lost.                     *)
(*                                                                          *)
(* The providers differ in what they do to the records of the challenge     *)
(* name; their tokens, zones and formats are left out.                       *)
EXTENDS Naturals, FiniteSets

CONSTANTS
    Administrator,   \* those who press Request and edit the settings
    MaxRun,          \* bound: requests started
    MaxHost,         \* bound: records the zone's owner adds meanwhile
    MaxDnsFault      \* bound: failed provider calls and hub crashes

ASSUME AcmeAssumption == {MaxRun, MaxHost, MaxDnsFault} \subseteq Nat

Requester == Administrator \cup {"renewal"}

VARIABLES
    provider,     \* cfg.dns_provider
    zone,         \* [txt, hosts]: challenge records, by request; other records
    request,      \* request[r]: the request_certificate call of r
    acmeConfig,   \* acme.json: enabled, and what requests write into it
    pair,         \* [cert, key]: the request whose cert.pem and key.pem are on disk
    expiring,     \* the stored certificate has less than 30 days left
    runs,         \* requests started
    dnsFaults,    \* faults so far
    mixed         \* two requests overlapped, or the owner edited the zone during one

acmeVars == <<provider, zone, request, acmeConfig, pair, expiring, runs, dnsFaults, mixed>>

Provider == {"cloudflare", "hurricane_electric", "godaddy", "digitalocean", "porkbun",
             "gcloud", "dnsimple", "azure_dns", "route53", "namecheap"}
Phase == {"idle", "ordering", "reading", "propagating", "answering", "cleaning"}
ConfigValue == [enabled: BOOLEAN, renewed: 0..MaxRun, failed: BOOLEAN]
ZoneValue == [txt: SUBSET (1..MaxRun), hosts: SUBSET (1..MaxHost)]

(* A request that has returned: run 0.  [entry] is its row in the provider's *)
(* _..._records table, [cleanup] its dns_cleanup, [cfg] the configuration    *)
(* it read at its start, [seen] the host list namecheap answered.            *)
NoRequest == [phase |-> "idle", run |-> 0, entry |-> FALSE, cleanup |-> FALSE,
              cfg |-> [enabled |-> FALSE, renewed |-> 0, failed |-> FALSE],
              seen |-> [txt |-> {}, hosts |-> {}]]

AcmeTypeOK ==
    /\ provider \in Provider
    /\ zone \in ZoneValue
    /\ request \in [Requester -> [phase: Phase, run: 0..MaxRun, entry: BOOLEAN,
                                  cleanup: BOOLEAN, cfg: ConfigValue, seen: ZoneValue]]
    /\ acmeConfig \in ConfigValue
    /\ pair \in [cert: 0..MaxRun, key: 0..MaxRun]
    /\ expiring \in BOOLEAN /\ mixed \in BOOLEAN
    /\ runs \in 0..MaxRun /\ dnsFaults \in 0..MaxDnsFault

AcmeInit ==
    /\ provider \in Provider
    /\ zone = [txt |-> {}, hosts |-> {}]
    /\ request = [r \in Requester |-> NoRequest]
    /\ acmeConfig = [enabled |-> TRUE, renewed |-> 0, failed |-> FALSE]
    /\ pair = [cert |-> 0, key |-> 0]
    /\ expiring = FALSE
    /\ runs = 0 /\ dnsFaults = 0 /\ mixed = FALSE

Requesting == {r \in Requester : request[r].phase # "idle"}
DnsFault == dnsFaults < MaxDnsFault /\ dnsFaults' = dnsFaults + 1
NoDnsFault == UNCHANGED dnsFaults

(* What becomes of the challenge records txt when the record of run n is    *)
(* created or else deleted.  Four keep a record per call and delete it by   *)
(* its id; three replace the set, and empty it whatever it holds; two name  *)
(* the value they delete, so a set that holds another one stays.            *)
RecordById(create, txt, n) == IF create THEN txt \cup {n} ELSE txt \ {n}
WholeSet(create, txt, n) == IF create THEN {n} ELSE {}
ExactSet(create, txt, n) == IF create THEN {n} ELSE IF txt = {n} THEN {} ELSE txt

Cloudflare(create, txt, n) == RecordById(create, txt, n)
HurricaneElectric(create, txt, n) == WholeSet(create, txt, n)
GoDaddy(create, txt, n) == WholeSet(create, txt, n)
DigitalOcean(create, txt, n) == RecordById(create, txt, n)
Porkbun(create, txt, n) == RecordById(create, txt, n)
GoogleCloud(create, txt, n) == ExactSet(create, txt, n)
DNSimple(create, txt, n) == RecordById(create, txt, n)
AzureDns(create, txt, n) == WholeSet(create, txt, n)
Route53(create, txt, n) == ExactSet(create, txt, n)

(* namecheap writes back the host list it has read, with the record or not. *)
Namecheap(create, seen, n) == IF create THEN [seen EXCEPT !.txt = @ \cup {n}] ELSE seen

(* The calls request_certificate makes by the provider's name.              *)
RecordsAfter(create, z, n, seen) ==
    CASE provider = "cloudflare" -> [z EXCEPT !.txt = Cloudflare(create, @, n)]
      [] provider = "hurricane_electric" -> [z EXCEPT !.txt = HurricaneElectric(create, @, n)]
      [] provider = "godaddy" -> [z EXCEPT !.txt = GoDaddy(create, @, n)]
      [] provider = "digitalocean" -> [z EXCEPT !.txt = DigitalOcean(create, @, n)]
      [] provider = "porkbun" -> [z EXCEPT !.txt = Porkbun(create, @, n)]
      [] provider = "gcloud" -> [z EXCEPT !.txt = GoogleCloud(create, @, n)]
      [] provider = "dnsimple" -> [z EXCEPT !.txt = DNSimple(create, @, n)]
      [] provider = "azure_dns" -> [z EXCEPT !.txt = AzureDns(create, @, n)]
      [] provider = "route53" -> [z EXCEPT !.txt = Route53(create, @, n)]
      [] provider = "namecheap" -> Namecheap(create, seen, n)

(* A create google refuses: a record set of that name and type exists.      *)
Refused == provider = "gcloud" /\ zone.txt # {}

-----------------------------------------------------------------------------
(* request_certificate up to the challenge; renew_if_needed decides for the  *)
(* renewal loop.  The configuration is the one read here.                    *)
RenewalDue == acmeConfig.enabled /\ (pair.cert = 0 \/ expiring)

StartRequest(r) ==
    /\ request[r].phase = "idle" /\ runs < MaxRun
    /\ r = "renewal" => RenewalDue
    /\ runs' = runs + 1
    /\ request' = [request EXCEPT ![r] =
         [NoRequest EXCEPT !.phase = IF provider = "namecheap" THEN "reading" ELSE "ordering",
                           !.run = runs + 1, !.cfg = acmeConfig]]
    /\ mixed' = (mixed \/ Requesting # {})
    /\ UNCHANGED <<provider, zone, acmeConfig, pair, expiring, dnsFaults>>

(* namecheap: getHosts, awaited, before setHosts.                           *)
ReadHosts(r) ==
    /\ request[r].phase = "reading"
    /\ request' = [request EXCEPT ![r].phase = "ordering", ![r].seen = zone]
    /\ UNCHANGED <<provider, zone, acmeConfig, pair, expiring, runs, dnsFaults, mixed>>

(* The provider accepts the record; its table remembers it, and the request  *)
(* sleeps for propagation.  dns_cleanup is set only when that has returned.  *)
CreateRecord(r) ==
    /\ request[r].phase = "ordering" /\ ~Refused
    /\ zone' = RecordsAfter(TRUE, zone, request[r].run, request[r].seen)
    /\ request' = [request EXCEPT ![r].phase = "propagating", ![r].entry = TRUE]
    /\ UNCHANGED <<provider, acmeConfig, pair, expiring, runs, dnsFaults, mixed>>

Propagated(r) ==
    /\ request[r].phase = "propagating"
    /\ request' = [request EXCEPT ![r].phase = "answering", ![r].cleanup = TRUE]
    /\ UNCHANGED <<provider, zone, acmeConfig, pair, expiring, runs, dnsFaults, mixed>>

(* The CA sees the record and issues.  Certificate and key are written, and *)
(* the configuration read at the start is saved whole.                       *)
Issue(r) ==
    /\ request[r].phase = "answering"
    /\ request[r].run \in zone.txt
    /\ pair' = [cert |-> request[r].run, key |-> request[r].run]
    /\ expiring' = FALSE
    /\ LET done == [request[r].cfg EXCEPT !.renewed = request[r].run, !.failed = FALSE] IN
         /\ acmeConfig' = done
         /\ request' = [request EXCEPT ![r].phase = "cleaning", ![r].cfg = done]
    /\ UNCHANGED <<provider, zone, runs, dnsFaults, mixed>>

(* Mutant of Fail: the handler returns before its cleanup.                   *)
FailWithoutFinally(r) ==
    LET failed == [request[r].cfg EXCEPT !.failed = TRUE] IN
    /\ acmeConfig' = failed
    /\ request' = [request EXCEPT ![r] = NoRequest]
    /\ UNCHANGED <<provider, pair, expiring, runs, mixed>>

(* The except clause, for a request refused, not validated or out of touch.  *)
Fail(r) ==
    LET failed == [request[r].cfg EXCEPT !.failed = TRUE] IN
    /\ acmeConfig' = failed
    /\ request' = [request EXCEPT ![r].phase = "cleaning", ![r].cfg = failed]
    /\ UNCHANGED <<provider, pair, expiring, runs, mixed>>

(* The order fails before the record: missing settings, the CA, the provider. *)
OrderFails(r) ==
    /\ request[r].phase \in {"reading", "ordering"}
    /\ Fail(r) /\ UNCHANGED zone /\ NoDnsFault

(* The create took effect and its answer was lost: no row, no cleanup.      *)
AnswerLost(r) ==
    /\ request[r].phase = "ordering" /\ ~Refused
    /\ DnsFault
    /\ zone' = RecordsAfter(TRUE, zone, request[r].run, request[r].seen)
    /\ Fail(r)

(* The CA does not see the record, or cannot be reached.                    *)
ValidationFails(r) ==
    /\ request[r].phase = "answering"
    /\ Fail(r) /\ UNCHANGED zone /\ NoDnsFault

(* The finally clause.  The cleanup takes the row out of the table first and *)
(* suppresses what the provider answers; the log is saved with the           *)
(* configuration the request still holds.                                    *)
CleanUp(r) ==
    /\ request[r].phase = "cleaning"
    /\ IF request[r].cleanup /\ request[r].entry
       THEN \/ zone' = RecordsAfter(FALSE, zone, request[r].run, request[r].seen) /\ NoDnsFault
            \/ UNCHANGED zone /\ DnsFault
       ELSE UNCHANGED zone /\ NoDnsFault
    /\ acmeConfig' = IF request[r].cleanup THEN request[r].cfg ELSE acmeConfig
    /\ request' = [request EXCEPT ![r] = NoRequest]
    /\ UNCHANGED <<provider, pair, expiring, runs, mixed>>

-----------------------------------------------------------------------------
(* save_acme_settings: what requests wrote is taken over from the file.      *)
EditAcmeSettings ==
    /\ acmeConfig' = [acmeConfig EXCEPT !.enabled = ~@]
    /\ UNCHANGED <<provider, zone, request, pair, expiring, runs, dnsFaults, mixed>>

(* The owner of the zone adds a record of their own at the provider.        *)
AddHost ==
    /\ \E h \in (1..MaxHost) \ zone.hosts : zone' = [zone EXCEPT !.hosts = @ \cup {h}]
    /\ mixed' = (mixed \/ Requesting # {})
    /\ UNCHANGED <<provider, request, acmeConfig, pair, expiring, runs, dnsFaults>>

CertificateAges ==
    /\ pair.cert # 0 /\ ~expiring
    /\ expiring' = TRUE
    /\ UNCHANGED <<provider, zone, request, acmeConfig, pair, runs, dnsFaults, mixed>>

(* The hub stops: requests and tables are gone.  A request caught issuing    *)
(* may have written the certificate and not its key, one caught saving       *)
(* leaves a file that reads as the defaults.                                 *)
AcmeCrash ==
    /\ DnsFault
    /\ request' = [r \in Requester |-> NoRequest]
    /\ \/ UNCHANGED <<acmeConfig, pair, expiring>>
       \/ \E r \in Requesting :
            /\ request[r].phase = "answering" /\ request[r].run \in zone.txt
            /\ pair' = [pair EXCEPT !.cert = request[r].run]
            /\ expiring' = FALSE
            /\ UNCHANGED acmeConfig
       \/ /\ Requesting # {}
          /\ acmeConfig' = NoRequest.cfg
          /\ UNCHANGED <<pair, expiring>>
    /\ UNCHANGED <<provider, zone, runs, mixed>>

AcmeNext ==
    \/ \E r \in Requester :
         \/ StartRequest(r) \/ ReadHosts(r) \/ CreateRecord(r) \/ Propagated(r)
         \/ Issue(r) \/ OrderFails(r) \/ AnswerLost(r) \/ ValidationFails(r) \/ CleanUp(r)
    \/ EditAcmeSettings \/ AddHost \/ CertificateAges \/ AcmeCrash

AcmeSpec == AcmeInit /\ [][AcmeNext]_acmeVars

-----------------------------------------------------------------------------
(* Once no request is under way the zone holds no challenge record: every    *)
(* way through request_certificate that created one also takes it away, for  *)
(* every provider, and with requests of any overlap.  Two things excuse a    *)
(* record left behind: a provider call or the hub itself failed, and, with   *)
(* the provider whose calls rewrite the whole zone, something else changed   *)
(* the zone while a request held its copy.                                   *)
NoStrayChallenge ==
    (Requesting = {} /\ dnsFaults = 0 /\ (provider = "namecheap" => ~mixed)) => zone.txt = {}
=========================
