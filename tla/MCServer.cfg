SPECIFICATION Spec
CONSTANTS
 People = {ann, bo, cy, di}
 Founder = ann
 Nobody = Nobody
 GroupCalls = {g1, g2}
 MemberLimit = 2
 MaxInvited = 1
 MaxCalls = 4
 ZoneWorkers = {z1, z2}
 Dwell = 1
 MaxTime = 3
 Sweepers = {s1, s2}
 SignalStages = {1, 2}
 BatteryStages = {0}
 FixedStages = {2}
 Levels = {0, 10, 100}
 LowLevel = 10
 ClearLevel = 20
 OldLevel = 20
 MaxAge = 2
 MaxEvents = 2
 MaxChanges = 2
 Sockets = {k1, k2}
 Gateways = {w1, w2}
 WatchTTL = 2
 MaxLooks = 2
 MaxFaults = 1
 Posts = {p1, p2}
 Fetches = {q1}
 MaxMessages = 2
 Spots = {0, 1, 3}
 Gaps = {2, 5}
 Radius = 1
 MergeRadius = 2
 MinStay = 5
 MergeGap = 5
 MaxFixes = 6
 MaxRough = 1
 Phones = {n1, n2}
 NoPhone = NoPhone
 SignUpCalls = {u1, u2}
 SignUpSends = 2
 SignUpAttempts = 1
 MaxTexts = 2
 MaxAsked = 4
 Consenters = {t1, t2, t3}
 MaxResend = 1
 Challenges = {h1, h2}
 NoChallenge = NoChallenge
 CheckCalls = {d1, d2}
 MaxSends = 2
 MaxDaily = 2
 MaxAttempts = 2
 MaxChecks = 5
 Contacts = 3
 MaxTexted = 2
 SmsCalls = {m1, m2}
 MaxResent = 3
 MaxLost = 1
 Photos = {f1, f2}
 Recordings = {r1}
 Rooms = {x, y}
 GalleryCalls = {a1, a2}
 Quota = 1
 Rates = {30, 2}
 FirstRate = 30
 Off = Off
 Resumes = {e1}
 MaxHanded = 1
 RefreshCalls = {c1, c2}
 NoCall = NoCall
 MaxTokens = 4
INVARIANTS GroupHolds CollectsAsTold PhoneFollows ShownOnce DayTold AccountIsProven
INVARIANTS ConsentKept OneLoginEach ScreenIsRight AppTokenKnown NoSilentLogout
PROPERTIES RealCrossingsToldOnce  ShownStays OldTokensStayOld
VIEW Moving
CHECK_DEADLOCK FALSE
