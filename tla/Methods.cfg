SPECIFICATION Spec
CONSTANTS
    Platforms = {"linux", "osx", "freebsd", "netbsd", "openbsd", "sunos", "aix", "windows", "services", "api", "listings"}
INVARIANT ErrorsAreRight
INVARIANT ValuesAreTrue
INVARIANT NoListOfTheDead
INVARIANT DenialsAreHidden
INVARIANT ListingsSurvive
