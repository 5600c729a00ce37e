SPECIFICATION Spec
CONSTANTS
    Manual = {m1}
    System = {s1}
    Migrated = {h1}
    Companies = {c1, c2}
    Users = {u1, u2}
    Sessions = {t1, t2}
    Scopes = {"all", "gl"}
    Governed = {c1}
    LockRows <- CompanyAndTenant
    NoUser = NoUser
SYMMETRY Alike
CONSTRAINT ManualIsGoverned
INVARIANTS NumbersNameOnePosting NumbersAreAccountedFor MakerIsNotChecker
PROPERTIES GuardedPostings PostsAtOnce
CHECK_DEADLOCK FALSE
