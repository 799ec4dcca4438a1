------------------------------ MODULE Release ------------------------------
(***************************************************************************)
(* Publishing: the daily calendar run that commits a version and tags it,  *)
(* and the release run that fills a draft, compares it and publishes it    *)
(* (.github/workflows, scripts/release).  A run may be cancelled or time   *)
(* out before any of its steps; a later one resumes.                       *)
(*                                                                         *)
(* GitHub is external: git, the releases with their assets, and its        *)
(* concurrency groups, one for the calendar and one for each tag.  Tags    *)
(* are made by the calendar only, dates are day numbers.                   *)
(***************************************************************************)
EXTENDS Integers, FiniteSetsExt

CONSTANTS
    MaxDay, MaxSetbacks,   \* bounds
    Changes,     \* what is merged into the default branch
    Names,       \* the assets of a release
    Builds,      \* what a build may come out as
    Absent

Days == 1 .. MaxDay

\* A state of the default branch, a calendar run, a release, a release run.
Heads == [changes : SUBSET Changes, version : 0 .. MaxDay]
CalendarRuns == [step : {"plan", "commit", "tag", "release", "wait"},
                 tag : Days, head : Heads]
Drafts == [draft : BOOLEAN,
           assets : SUBSET [name : Names, content : Builds \cup {"cut"}]]
ReleaseRuns == [step : {"view", "delete", "upload", "compare", "publish"},
                build : Builds, left : SUBSET Names]

ASSUME ReleaseAssumption ==
    /\ MaxDay \in Nat \ {0} /\ MaxSetbacks \in Nat
    /\ IsFiniteSet(Changes) /\ IsFiniteSet(Names) /\ Names # {}
    /\ "cut" \notin Builds
    /\ Absent \notin Heads \cup CalendarRuns \cup Drafts \cup ReleaseRuns

VARIABLES
    today,
    ran,       \* the scheduled run of the day has been started
    mergedOn,  \* change -> day, or 0
    main,      \* the default branch: its changes and Cargo version
    tags,      \* day -> what its tag points to, or Absent
    release,   \* day -> its release, or Absent
    latest,    \* the day of the release marked as the latest, or 0
    cal,       \* the calendar run, or Absent
    job,       \* day -> the release run of its tag, or Absent
    setbacks   \* what has kept runs from their end

releaseVars == <<today, ran, mergedOn, main, tags, release, latest, cal, job, setbacks>>

ReleaseInit ==
    /\ today = 1 /\ ran = FALSE /\ setbacks = 0
    /\ mergedOn = [c \in Changes |-> 0]
    /\ main = [changes |-> {}, version |-> 0]
    /\ tags = [d \in Days |-> Absent]
    /\ release = [d \in Days |-> Absent]
    /\ latest = 0
    /\ cal = Absent /\ job = [d \in Days |-> Absent]

Tagged == {d \in Days : tags[d] # Absent}
Published == {d \in Days : release[d] # Absent /\ ~release[d].draft}

\* git describe: the tag nearest to the head.
Previous == IF Tagged = {} THEN 0 ELSE Max(Tagged)

Setback == setbacks < MaxSetbacks /\ setbacks' = setbacks + 1

-----------------------------------------------------------------------------
(* The calendar run.                                                       *)

Merge(c) ==
    /\ mergedOn[c] = 0
    /\ mergedOn' = [mergedOn EXCEPT ![c] = today]
    /\ main' = [main EXCEPT !.changes = @ \cup {c}]
    /\ UNCHANGED <<today, ran, tags, release, latest, cal, job, setbacks>>

\* By schedule, or by hand for a date that is not in the future.
StartCalendar(d) ==
    /\ cal = Absent /\ d <= today
    /\ cal' = [step |-> "plan", tag |-> d, head |-> main]
    /\ \/ d = today /\ ran' = TRUE
       \/ ran' = ran
    /\ UNCHANGED <<today, mergedOn, main, tags, release, latest, job, setbacks>>

\* Faulty variant: an unpublished release of the day before is not resumed.
PlanForgetful(seen) ==
    IF tags[cal.tag] # Absent
    THEN IF cal.tag \in seen THEN Absent ELSE [cal EXCEPT !.step = "release"]
    ELSE IF \/ cal.tag <= Previous \/ main.version = cal.tag
            \/ Previous # 0 /\ main = tags[Previous]
         THEN Absent ELSE [cal EXCEPT !.step = "commit"]

\* The plan step and set-version.sh, when the releases in seen are found to
\* be published.
PlanOf(seen) ==
    IF Previous # 0 /\ Previous \notin seen
    THEN [cal EXCEPT !.step = "release", !.tag = Previous]
    ELSE IF tags[cal.tag] # Absent
    THEN IF cal.tag \in seen THEN Absent ELSE [cal EXCEPT !.step = "release"]
    ELSE IF \/ cal.tag <= Previous \/ main.version = cal.tag
            \/ Previous # 0 /\ main = tags[Previous]
         THEN Absent ELSE [cal EXCEPT !.step = "commit"]

\* gh release view may fail; then the release counts as unpublished.
Plan ==
    /\ cal # Absent /\ cal.step = "plan" /\ main = cal.head
    /\ \/ cal' = PlanOf(Published) /\ UNCHANGED setbacks
       \/ cal' = PlanOf({}) /\ Setback
    /\ UNCHANGED <<today, ran, mergedOn, main, tags, release, latest, job>>

\* The push of the version commit.
PushCommit ==
    /\ cal # Absent /\ cal.step = "commit" /\ main = cal.head
    /\ main' = [main EXCEPT !.version = cal.tag]
    /\ cal' = [cal EXCEPT !.step = "tag", !.head = main']
    /\ UNCHANGED <<today, ran, mergedOn, tags, release, latest, job, setbacks>>

\* Both want the head that was checked out: the plan compares it, and a push
\* that is no fast-forward is rejected.
EndsBehind(step) ==
    /\ cal # Absent /\ cal.step = step /\ main # cal.head
    /\ Setback
    /\ cal' = Absent
    /\ UNCHANGED <<today, ran, mergedOn, main, tags, release, latest, job>>

HeadMoved == EndsBehind("plan")
PushRejected == EndsBehind("commit")

PushTag ==
    /\ cal # Absent /\ cal.step = "tag"
    /\ tags' = [tags EXCEPT ![cal.tag] = cal.head]
    /\ cal' = [cal EXCEPT !.step = "release"]
    /\ UNCHANGED <<today, ran, mergedOn, main, release, latest, job, setbacks>>

NewJob(t) ==
    /\ job[t] = Absent
    /\ \E b \in Builds :
          job' = [job EXCEPT ![t] = [step |-> "view", build |-> b, left |-> Names]]

CallRelease ==
    /\ cal # Absent /\ cal.step = "release"
    /\ NewJob(cal.tag)
    /\ cal' = [cal EXCEPT !.step = "wait"]
    /\ UNCHANGED <<today, ran, mergedOn, main, tags, release, latest, setbacks>>

EndCalendar ==
    /\ cal # Absent /\ cal.step = "wait" /\ job[cal.tag] = Absent
    /\ cal' = Absent
    /\ UNCHANGED <<today, ran, mergedOn, main, tags, release, latest, job, setbacks>>

-----------------------------------------------------------------------------
(* The release run of tag t: publish.sh.                                   *)

\* By hand, for an existing tag.
Dispatch(t) ==
    /\ tags[t] # Absent
    /\ NewJob(t)
    /\ UNCHANGED <<today, ran, mergedOn, main, tags, release, latest, cal, setbacks>>

At(t, step) == job[t] # Absent /\ job[t].step = step

GoOn(t, step) == job' = [job EXCEPT ![t].step = step]

world == <<today, ran, mergedOn, main, tags, cal>>

\* The release is looked up, and created as a draft if there is none.
View(t) ==
    /\ At(t, "view")
    /\ IF release[t] = Absent
       THEN /\ release' = [release EXCEPT ![t] = [draft |-> TRUE, assets |-> {}]]
            /\ GoOn(t, "upload")
       ELSE /\ IF release[t].draft THEN GoOn(t, "delete")
               ELSE job' = [job EXCEPT ![t] = Absent]   \* compared and left alone
            /\ UNCHANGED release
    /\ UNCHANGED <<world, latest, setbacks>>

\* Any failure of gh release view is taken for an absent release.  Creating
\* one that is there fails, or gives a draft a second one beside it, which
\* the commands that follow find in its place, or not.
ViewFails(t) ==
    /\ At(t, "view") /\ release[t] # Absent /\ Setback
    /\ \/ job' = [job EXCEPT ![t] = Absent] /\ UNCHANGED release
       \/ /\ release[t].draft
          /\ GoOn(t, "upload")
          /\ release' \in {release,
                          [release EXCEPT ![t] = [draft |-> TRUE, assets |-> {}]]}
    /\ UNCHANGED <<world, latest>>

DeleteAsset(t) ==
    /\ At(t, "delete")
    /\ IF release[t].assets = {} THEN GoOn(t, "upload") /\ UNCHANGED release
       ELSE /\ \E a \in release[t].assets :
                  release' = [release EXCEPT ![t].assets = @ \ {a}]
            /\ UNCHANGED job
    /\ UNCHANGED <<world, latest, setbacks>>

Asset(name, content) == [name |-> name, content |-> content]

\* gh release upload, in any order; an upload may be cut short.
Upload(t) ==
    /\ At(t, "upload")
    /\ IF job[t].left = {}
       THEN GoOn(t, "compare") /\ UNCHANGED <<release, setbacks>>
       ELSE \E n \in job[t].left :
            /\ job' = [job EXCEPT ![t].left = @ \ {n}]
            /\ \/ /\ release' = [release EXCEPT ![t].assets =
                                    @ \cup {Asset(n, job[t].build)}]
                  /\ UNCHANGED setbacks
               \/ /\ release' = [release EXCEPT ![t].assets = @ \cup {Asset(n, "cut")}]
                  /\ Setback
    /\ UNCHANGED <<world, latest>>

\* Faulty variant: the names are compared and not the bytes.
SameNames(t) == {a.name : a \in release[t].assets} = Names

\* compare_release_assets.
SameAssets(t) == release[t].assets = {Asset(n, job[t].build) : n \in Names}

Compare(t) ==
    /\ At(t, "compare")
    /\ IF SameAssets(t) THEN GoOn(t, "publish") ELSE job' = [job EXCEPT ![t] = Absent]
    /\ UNCHANGED <<world, release, latest, setbacks>>

\* gh release edit --draft=false --latest.
Publish(t) ==
    /\ At(t, "publish")
    /\ release' = [release EXCEPT ![t].draft = FALSE]
    /\ latest' = t
    /\ job' = [job EXCEPT ![t] = Absent]
    /\ UNCHANGED <<world, setbacks>>

\* A run is cancelled, or times out, or a command of it fails.
CalendarCancelled ==
    /\ cal # Absent /\ Setback
    /\ cal' = Absent
    /\ job' = IF cal.step = "wait" THEN [job EXCEPT ![cal.tag] = Absent] ELSE job
    /\ UNCHANGED <<today, ran, mergedOn, main, tags, release, latest>>

JobCancelled(t) ==
    /\ job[t] # Absent /\ Setback
    /\ job' = [job EXCEPT ![t] = Absent]
    /\ UNCHANGED <<world, release, latest>>

\* Runs take less than a day.
NextDay ==
    /\ today < MaxDay
    /\ ran /\ cal = Absent /\ \A t \in Days : job[t] = Absent
    /\ today' = today + 1
    /\ ran' = FALSE
    /\ UNCHANGED <<mergedOn, main, tags, release, latest, cal, job, setbacks>>

ReleaseNext ==
    \/ \E c \in Changes : Merge(c)
    \/ \E d \in Days : StartCalendar(d)
    \/ Plan \/ HeadMoved \/ PushCommit \/ PushRejected \/ PushTag \/ CallRelease
    \/ EndCalendar
    \/ \E t \in Days : \/ Dispatch(t) \/ View(t) \/ ViewFails(t) \/ DeleteAsset(t)
                       \/ Upload(t) \/ Compare(t) \/ Publish(t) \/ JobCancelled(t)
    \/ CalendarCancelled \/ NextDay

ReleaseSpec == ReleaseInit /\ [][ReleaseNext]_releaseVars

-----------------------------------------------------------------------------
(* Properties.                                                             *)

\* "It downloads and byte-checks every asset before making the release
\* public" (README.md:163): what is public is all of one build, whatever
\* drafts and cut uploads earlier runs have left.
PublishedIsWhole ==
    \A t \in Published :
        \E b \in Builds : release[t].assets = {Asset(n, b) : n \in Names}

\* Releases come out in the order of their tags, although any of them may be
\* interrupted and run again by hand: what the installer takes for the
\* latest is the newest one published.
LatestIsNewest == latest = IF Published = {} THEN 0 ELSE Max(Published)

\* A change is out the day after it was merged, a day later for every
\* setback on the way: no interrupted run blocks those after it for good,
\* not even one between the push of the commit and that of its tag.
ReleasedInTime ==
    \A c \in Changes :
        mergedOn[c] # 0 /\ today > mergedOn[c] + 1 + setbacks =>
            \E t \in Published : c \in tags[t].changes
=============================================================================
