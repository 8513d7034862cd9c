------------------------- MODULE FindingDetectors -------------------------
(*****************************************************************************)
(* The detectors of technical_finding_service.py: what a crawled page, two   *)
(* pages together and the crawl itself show, and the fingerprint by which a  *)
(* finding is known from one crawl to the next.                              *)
(*                                                                           *)
(* A text is its length, zero when it is blank; texts of one length are the  *)
(* same text.                                                                *)
(*****************************************************************************)
EXTENDS Integers, FiniteSets

CONSTANTS
    Paths,       \* of the pages of a site
    Home,        \* "/"
    PageFacts,   \* bound: what the crawler may have stored of a page
    Artifacts    \* bound: what it stored of robots.txt and the sitemap

ASSUME HomeIsAPage == Home \in Paths

VARIABLES
    crawled,   \* pages: the facts of each path
    artifact   \* crawl_snapshots.extracted_data of the latest crawl

DetectorsInit == crawled \in [Paths -> PageFacts] /\ artifact \in Artifacts
-----------------------------------------------------------------------------
Finds(condition, type) == IF condition THEN {type} ELSE {}
Found(page) == page.status = 200

TitleFindings(page) ==
    Finds(Found(page) /\ page.title = 0, "missing_title")
    \cup Finds(page.title > 60, "title_too_long")
    \cup Finds(page.title \in 1..19, "title_too_short")

HeadFindings(page) ==
    Finds(Found(page) /\ page.description = 0, "missing_meta_description")
    \cup Finds(page.description > 160, "meta_description_too_long")
    \cup Finds(Found(page) /\ page.noindex, "noindex_directive")
    \cup Finds(Found(page) /\ ~page.canonical, "missing_canonical")
    \cup Finds(Found(page) /\ ~page.viewport, "missing_viewport")

BodyFindings(page) ==
    Finds(Found(page) /\ page.h1 = 0, "missing_h1")
    \cup Finds(Found(page) /\ page.h1 > 1, "multiple_h1")
    \cup Finds(Found(page) /\ page.missingAlt > 0, "images_missing_alt")
    \cup Finds(Found(page) /\ page.words < 200, "thin_content")

LinkFindings(path, page) ==
    Finds(page.status = 404, "internal_404")
    \cup Finds(page.hops > 1, "redirect_chain")
    \cup Finds(Found(page) /\ path # Home /\ ~page.linked, "orphan_page")
    \cup Finds(Found(page) /\ path = Home /\ page.jsonLd = 0, "missing_homepage_structured_data")
    \cup Finds(page.ms > 3000, "slow_initial_response")

detect_page_findings(path, page) ==
    TitleFindings(page) \cup HeadFindings(page) \cup BodyFindings(page) \cup LinkFindings(path, page)
-----------------------------------------------------------------------------
_candidate(type, value, urls) == [type |-> type, value |-> value, urls |-> urls]

SharedBy(field, value) == {p \in Paths : Found(crawled[p]) /\ crawled[p][field] = value}

Duplicates(field, type) ==
    {_candidate(type, crawled[p][field], SharedBy(field, crawled[p][field])) :
        p \in {q \in Paths : Found(crawled[q]) /\ crawled[q][field] > 0
                             /\ Cardinality(SharedBy(field, crawled[q][field])) > 1}}

detect_cross_page_findings ==
    Duplicates("title", "duplicate_title") \cup Duplicates("description", "duplicate_meta_description")

\* The paths of the two files are no pages.
detect_crawl_findings ==
    IF ~artifact.completed THEN {}
    ELSE {_candidate(t, 0, {"file"}) :
            t \in Finds(artifact.robotsStatus >= 400, "missing_robots_txt")
                  \cup Finds(artifact.sitemapErrors /\ ~artifact.sitemapUrls, "missing_or_invalid_sitemap")}

collect_candidates ==
    UNION {{_candidate(t, 0, {p}) : t \in detect_page_findings(p, crawled[p])} : p \in Paths}
    \cup detect_cross_page_findings \cup detect_crawl_findings

\* The value, hashed, is the identity of a finding of several pages; others have none.
fingerprint(c) == <<c.type, c.value, c.urls>>
-----------------------------------------------------------------------------
\* Properties.

\* reconcile_findings keeps one candidate of a fingerprint: no two findings of a
\* crawl may have the same.
FingerprintsTellFindingsApart ==
    \A c, d \in collect_candidates : fingerprint(c) = fingerprint(d) => c = d
=============================================================================
